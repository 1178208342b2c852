----------------------------- MODULE Loja_proofs -----------------------------
(***************************************************************************)
(* Proofs about the counter of the store: Caixa (who may do what in which  *)
(* session), Estoque (the units), Conferencia (the money) and Valores (the *)
(* amounts of a sale), for any terminals, sessions, sales, returns,        *)
(* receipts, prices and amounts.                                           *)
(*                                                                         *)
(* Caixa: the invariant is about the transaction that holds the lock of    *)
(* the hub: there is one at most (Exclusao), and what it has read stays    *)
(* true until it commits (Leitura).                                        *)
(*                                                                         *)
(* The others are about sums over sets of rows.  SumFunctionOnSet is such  *)
(* a sum of the values of a function; its laws are proved by taking a      *)
(* smallest set that breaks them.                                          *)
(***************************************************************************)
EXTENDS Caixa, Estoque, Conferencia, Valores, FiniteSetTheorems, WellFoundedInduction, TLAPS

-----------------------------------------------------------------------------
(* Caixa *)

\* a transaction that is open is of one of three kinds
LEMMA TiposDeTx ==
  ASSUME NEW x \in Transacao
  PROVE  /\ x.op = "livre" => x = Livre
         /\ x.op = "iniciar" => x.sessao \in SessaoCx
         /\ x.op = "finalizar" => x.venda \in VendaCx
         /\ x.op = "fechar" => x.sessao \in SessaoCx /\ x.resumo \in Resumo
         /\ x.op \in {"livre", "iniciar", "finalizar", "fechar"}
  BY DEF Transacao, Livre

LEMMA TiposDePrevia ==
  ASSUME NEW p \in Previa
  PROVE  /\ p.op # "livre" => p \in [op : {"formas", "impedimentos", "gravar"}, dia : Dia,
                                     vendas : SUBSET VendaCx, formas : SUBSET VendaCx]
         /\ p.op \in {"livre", "formas", "impedimentos", "gravar"}
  BY DEF Previa, Livre

-----------------------------------------------------------------------------
LEMMA TipoInicial == InitCaixa => TypeOKCaixa
  BY ConstantesCaixa DEF InitCaixa, TypeOKCaixa, LinhaSessao, LinhaVenda, SemResumo, Resumo,
     Transacao, Previa, Livre, Dia

\* the steps of a terminal keep the types
LEMMA TipoTerminal ==
  ASSUME TypeOKCaixa, NEW t \in TerminalCx, PassoTerminal(t)
  PROVE  TypeOKCaixa'
<1> USE DEF TypeOKCaixa
<1>1. ASSUME NEW s \in SessaoCx, AbrirCaixa(t, s) PROVE TypeOKCaixa'
  <2>1. [status |-> "ABERTO", caixa |-> caixaDe[t], resumo |-> SemResumo] \in LinhaSessao
    BY ConstantesCaixa DEF LinhaSessao, SemResumo, Resumo
  <2>2. QED
    BY <1>1, <2>1 DEF AbrirCaixa
<1>2. ASSUME NEW s \in SessaoCx, FecharCaixaLer(t, s) PROVE TypeOKCaixa'
  <2>1. ResumoSessao(t, s) \in Resumo
    BY DEF ResumoSessao, Resumo, Finalizadas
  <2>2. [op |-> "fechar", sessao |-> s, resumo |-> ResumoSessao(t, s)] \in Transacao
    BY <2>1 DEF Transacao
  <2>3. QED
    BY <1>2, <2>2 DEF FecharCaixaLer
<1>3. ASSUME NEW s \in SessaoCx, RegistrarMovimentacao(t, s) PROVE TypeOKCaixa'
  <2>1. movimento[s] + 1 \in 0..MaxMovimento
    BY <1>3, ConstantesCaixa DEF RegistrarMovimentacao
  <2>2. QED
    BY <1>3, <2>1 DEF RegistrarMovimentacao
<1>4. ASSUME NEW s \in SessaoCx, IniciarVendaLer(t, s) PROVE TypeOKCaixa'
  <2>1. [op |-> "iniciar", sessao |-> s] \in Transacao
    BY DEF Transacao
  <2>2. QED
    BY <1>4, <2>1 DEF IniciarVendaLer
<1>5. ASSUME NEW v \in VendaCx, IniciarVendaGravar(t, v) PROVE TypeOKCaixa'
  <2>1. tx[t].sessao \in SessaoCx
    BY <1>5, TiposDeTx DEF IniciarVendaGravar
  <2>2. [status |-> "ABERTA", terminal |-> t, sessao |-> tx[t].sessao, dia |-> 0] \in LinhaVenda
    BY <2>1 DEF LinhaVenda
  <2>3. Livre \in Transacao
    BY DEF Transacao
  <2>4. QED
    BY <1>5, <2>2, <2>3 DEF IniciarVendaGravar
<1>6. ASSUME NEW v \in VendaCx, CancelarVenda(t, v) PROVE TypeOKCaixa'
  <2>1. [vendaCx[v] EXCEPT !.status = "CANCELADA"] \in LinhaVenda
    BY DEF LinhaVenda
  <2>2. vendaCx' = [vendaCx EXCEPT ![v] = [vendaCx[v] EXCEPT !.status = "CANCELADA"]]
    BY <1>6 DEF CancelarVenda
  <2>3. QED
    BY <1>6, <2>1, <2>2 DEF CancelarVenda
<1>7. ASSUME NEW v \in VendaCx, FinalizarVendaLer(t, v) PROVE TypeOKCaixa'
  <2>1. [op |-> "finalizar", venda |-> v] \in Transacao
    BY DEF Transacao
  <2>2. QED
    BY <1>7, <2>1 DEF FinalizarVendaLer
<1>8. CASE FecharCaixaGravar(t)
  <2>1. tx[t].sessao \in SessaoCx /\ tx[t].resumo \in Resumo
    BY <1>8, TiposDeTx DEF FecharCaixaGravar
  <2> DEFINE s == tx[t].sessao
             l == [sessao[s] EXCEPT !.status = "FECHADO", !.resumo = tx[t].resumo]
  <2>2. l \in LinhaSessao
    BY <2>1 DEF LinhaSessao
  <2>3. sessao' = [sessao EXCEPT ![s] = l]
    BY <1>8, <2>1 DEF FecharCaixaGravar, LinhaSessao
  <2>4. Livre \in Transacao
    BY DEF Transacao
  <2> HIDE DEF l
  <2>5. QED
    BY <1>8, <2>1, <2>2, <2>3, <2>4 DEF FecharCaixaGravar
<1>9. CASE FinalizarVendaGravar(t)
  <2>1. tx[t].venda \in VendaCx
    BY <1>9, TiposDeTx DEF FinalizarVendaGravar
  <2> DEFINE v == tx[t].venda
             l == [vendaCx[v] EXCEPT !.status = "FINALIZADA", !.dia = hoje]
  <2>2. l \in LinhaVenda
    <3>1. vendaCx[v] \in LinhaVenda /\ hoje \in Dia
      BY <2>1
    <3>2. ASSUME NEW x \in LinhaVenda, NEW d \in Dia
          PROVE  [x EXCEPT !.status = "FINALIZADA", !.dia = d] \in LinhaVenda
      BY <3>2 DEF LinhaVenda
    <3>3. QED
      BY <3>1, <3>2
  <2>3. vendaCx' = [vendaCx EXCEPT ![v] = l]
    BY <1>9, <2>1 DEF FinalizarVendaGravar, LinhaVenda
  <2>4. Livre \in Transacao
    BY DEF Transacao
  <2> HIDE DEF l
  <2>5. QED
    BY <1>9, <2>1, <2>2, <2>3, <2>4 DEF FinalizarVendaGravar
<1>10. CASE Desfazer(t)
  BY <1>10 DEF Desfazer, Transacao
<1>11. ASSUME NEW c \in CaixaHub \cup {NuloCx}, ConfigurarTerminal(t, c) PROVE TypeOKCaixa'
  BY <1>11 DEF ConfigurarTerminal
<1>12. QED
  BY <1>1, <1>2, <1>3, <1>4, <1>5, <1>6, <1>7, <1>8, <1>9, <1>10, <1>11 DEF PassoTerminal

\* the steps of the closing of a day keep the types
LEMMA TipoDia ==
  ASSUME TypeOKCaixa, PassoDia
  PROVE  TypeOKCaixa'
<1> USE DEF TypeOKCaixa
<1>1. ASSUME NEW d \in Dia, FecharDiaVendas(d) PROVE TypeOKCaixa'
  <2>1. [op |-> "formas", dia |-> d, vendas |-> FinalizadasNo(d), formas |-> {}] \in Previa
    BY DEF Previa, FinalizadasNo
  <2>2. QED
    BY <1>1, <2>1 DEF FecharDiaVendas
<1>2. CASE FecharDiaFormas
  <2>1. [previa EXCEPT !.op = "impedimentos", !.formas = FinalizadasNo(previa.dia)] \in Previa
    BY <1>2, TiposDePrevia DEF FecharDiaFormas, Previa, FinalizadasNo
  <2>2. QED
    BY <1>2, <2>1 DEF FecharDiaFormas
<1>3. CASE FecharDiaConferir
  <2>1. [previa EXCEPT !.op = "gravar"] \in Previa
    BY <1>3, TiposDePrevia DEF FecharDiaConferir, Previa
  <2>2. Livre \in Previa
    BY DEF Previa
  <2>3. QED
    BY <1>3, <2>1, <2>2 DEF FecharDiaConferir
<1>4. CASE FecharDiaGravar
  <2>1. /\ previa.dia \in Dia
        /\ [vendas |-> previa.vendas, formas |-> previa.formas] \in LinhaFechamento
    BY <1>4, TiposDePrevia DEF FecharDiaGravar, LinhaFechamento
  <2>2. Livre \in Previa
    BY DEF Previa
  <2>3. QED
    BY <1>4, <2>1, <2>2 DEF FecharDiaGravar
<1>5. CASE NovoDia
  BY <1>5, ConstantesCaixa DEF NovoDia, Dia
<1>6. QED
  BY <1>1, <1>2, <1>3, <1>4, <1>5 DEF PassoDia

\* Every variable keeps its type (sessions, sales, open transactions, closings).
THEOREM TipoCaixa == SpecCaixa => []TypeOKCaixa
<1>1. ASSUME TypeOKCaixa, [NextCaixa]_varsCaixa PROVE TypeOKCaixa'
  <2>1. ASSUME NEW c \in CaixaHub, ImportarCaixa(c) PROVE TypeOKCaixa'
    BY <1>1, <2>1 DEF TypeOKCaixa, ImportarCaixa
  <2>2. CASE UNCHANGED varsCaixa
    BY <1>1, <2>2 DEF TypeOKCaixa, varsCaixa
  <2>3. QED
    BY <1>1, <2>1, <2>2, TipoTerminal, TipoDia DEF NextCaixa
<1>2. QED
  BY <1>1, TipoInicial, PTL DEF SpecCaixa

-----------------------------------------------------------------------------
(* The invariant *)

\* one transaction at most holds the lock of the hub
Exclusao == \A t, u \in TerminalCx : tx[t].op # "livre" /\ tx[u].op # "livre" => t = u

\* what an open transaction has read is still true
Leitura ==
  \A t \in TerminalCx :
    /\ tx[t].op = "iniciar" => sessao[tx[t].sessao].status = "ABERTO"
    /\ tx[t].op = "finalizar" => vendaCx[tx[t].venda].status = "ABERTA"
    /\ tx[t].op = "fechar" => /\ sessao[tx[t].sessao].status = "ABERTO"
                              /\ ~ExisteVendaAberta(tx[t].sessao)
                              /\ tx[t].resumo = [vendas |-> Finalizadas(tx[t].sessao),
                                                 movimentos |-> movimento[tx[t].sessao]]

\* a sale belongs to a session that was opened
ComSessao ==
  \A v \in VendaCx : vendaCx[v].status # "NENHUMA" =>
    vendaCx[v].sessao \in SessaoCx /\ sessao[vendaCx[v].sessao].status # "NENHUMA"

InvCaixa == /\ TypeOKCaixa /\ Exclusao /\ Leitura /\ ComSessao
            /\ VendaAbertaEmSessaoAberta /\ ResumoDefinitivo

LEMMA InvInicial == InitCaixa => InvCaixa
  BY TipoInicial DEF InitCaixa, InvCaixa, Exclusao, Leitura, ComSessao, Livre,
     VendaAbertaEmSessaoAberta, ResumoDefinitivo

\* steps that change neither sessions, nor sales, nor movements, nor transactions
LEMMA InvParada ==
  ASSUME InvCaixa, TypeOKCaixa', UNCHANGED <<sessao, vendaCx, movimento, tx>>
  PROVE  InvCaixa'
  BY DEF InvCaixa, Exclusao, Leitura, ComSessao, ExisteVendaAberta, Finalizadas,
     VendaAbertaEmSessaoAberta, ResumoDefinitivo

LEMMA InvTerminal ==
  ASSUME InvCaixa, TypeOKCaixa', NEW t \in TerminalCx, PassoTerminal(t)
  PROVE  InvCaixa'
<1> USE DEF InvCaixa
<1>1. ASSUME NEW s \in SessaoCx, AbrirCaixa(t, s) PROVE InvCaixa'
  <2>1. /\ sessao[s].status = "NENHUMA"
        /\ sessao' = [sessao EXCEPT ![s] = [status |-> "ABERTO", caixa |-> caixaDe[t], resumo |-> SemResumo]]
        /\ UNCHANGED <<vendaCx, movimento, tx>>
    BY <1>1 DEF AbrirCaixa
  <2>2. /\ sessao'[s].status = "ABERTO"
        /\ \A x \in SessaoCx : x # s => sessao'[x] = sessao[x]
    BY <2>1 DEF TypeOKCaixa
  <2>3. Exclusao' /\ ComSessao'
    BY <2>1 DEF Exclusao, ComSessao
  <2>4. Leitura'
    <3>1. \A u \in TerminalCx : tx[u].op \in {"iniciar", "fechar"} => tx[u].sessao # s /\ tx[u].sessao \in SessaoCx
      BY <2>1, TiposDeTx DEF Leitura, TypeOKCaixa
    <3>2. QED
      BY <2>1, <2>2, <3>1 DEF Leitura, ExisteVendaAberta, Finalizadas
  <2>5. VendaAbertaEmSessaoAberta'
    BY <2>1, <2>2 DEF VendaAbertaEmSessaoAberta, ComSessao
  <2>6. ResumoDefinitivo'
    BY <2>1, <2>2 DEF ResumoDefinitivo, Finalizadas
  <2>7. QED
    BY <2>3, <2>4, <2>5, <2>6
<1>2. ASSUME NEW s \in SessaoCx, FecharCaixaLer(t, s) PROVE InvCaixa'
  <2>1. /\ \A u \in TerminalCx : tx[u].op = "livre"
        /\ sessao[s].status = "ABERTO" /\ ~ExisteVendaAberta(s)
        /\ tx' = [tx EXCEPT ![t] = [op |-> "fechar", sessao |-> s, resumo |-> ResumoSessao(t, s)]]
        /\ UNCHANGED <<sessao, vendaCx, movimento>>
    BY <1>2 DEF FecharCaixaLer, PodeTravar, AbertaEm, PodeFechar
  <2>2. /\ tx'[t] = [op |-> "fechar", sessao |-> s, resumo |-> ResumoSessao(t, s)]
        /\ \A u \in TerminalCx : u # t => tx'[u].op = "livre"
    BY <2>1 DEF TypeOKCaixa
  <2>3. Exclusao'
    BY <2>2 DEF Exclusao
  <2>4. Leitura'
    <3>1. \A x \in SessaoCx : Finalizadas(x)' = Finalizadas(x) /\ (ExisteVendaAberta(x)' <=> ExisteVendaAberta(x))
      BY <2>1 DEF Finalizadas, ExisteVendaAberta
    <3>2. /\ tx'[t].op = "fechar" /\ tx'[t].sessao = s
          /\ tx'[t].resumo = [vendas |-> Finalizadas(s), movimentos |-> movimento[s]]
      BY <2>2 DEF ResumoSessao
    <3>3. QED
      BY <2>1, <2>2, <3>1, <3>2 DEF Leitura
  <2>5. ComSessao' /\ VendaAbertaEmSessaoAberta' /\ ResumoDefinitivo'
    BY <2>1 DEF ComSessao, VendaAbertaEmSessaoAberta, ResumoDefinitivo, Finalizadas
  <2>6. QED
    BY <2>3, <2>4, <2>5
<1>3. ASSUME NEW s \in SessaoCx, RegistrarMovimentacao(t, s) PROVE InvCaixa'
  <2>1. /\ \A u \in TerminalCx : tx[u].op = "livre"
        /\ sessao[s].status = "ABERTO"
        /\ movimento' = [movimento EXCEPT ![s] = @ + 1]
        /\ UNCHANGED <<sessao, vendaCx, tx>>
    BY <1>3 DEF RegistrarMovimentacao, PodeTravar, EmUso, AbertaEm
  <2>2. Exclusao' /\ Leitura' /\ ComSessao' /\ VendaAbertaEmSessaoAberta'
    BY <2>1 DEF Exclusao, Leitura, ComSessao, VendaAbertaEmSessaoAberta
  <2>3. ResumoDefinitivo'
    BY <2>1 DEF ResumoDefinitivo, Finalizadas, TypeOKCaixa
  <2>4. QED
    BY <2>2, <2>3
<1>4. ASSUME NEW s \in SessaoCx, IniciarVendaLer(t, s) PROVE InvCaixa'
  <2>1. /\ \A u \in TerminalCx : tx[u].op = "livre"
        /\ sessao[s].status = "ABERTO"
        /\ tx' = [tx EXCEPT ![t] = [op |-> "iniciar", sessao |-> s]]
        /\ UNCHANGED <<sessao, vendaCx, movimento>>
    BY <1>4 DEF IniciarVendaLer, PodeTravar, EmUso, AbertaEm
  <2>2. /\ tx'[t] = [op |-> "iniciar", sessao |-> s]
        /\ \A u \in TerminalCx : u # t => tx'[u].op = "livre"
    BY <2>1 DEF TypeOKCaixa
  <2>3. Exclusao' /\ Leitura'
    BY <2>1, <2>2 DEF Exclusao, Leitura
  <2>4. ComSessao' /\ VendaAbertaEmSessaoAberta' /\ ResumoDefinitivo'
    BY <2>1 DEF ComSessao, VendaAbertaEmSessaoAberta, ResumoDefinitivo, Finalizadas
  <2>5. QED
    BY <2>3, <2>4
<1>5. ASSUME NEW v \in VendaCx, IniciarVendaGravar(t, v) PROVE InvCaixa'
  <2> DEFINE s == tx[t].sessao
  <2>1. /\ tx[t].op = "iniciar" /\ vendaCx[v].status = "NENHUMA"
        /\ vendaCx' = [vendaCx EXCEPT ![v] = [status |-> "ABERTA", terminal |-> t,
                                              sessao |-> s, dia |-> 0]]
        /\ tx' = [tx EXCEPT ![t] = Livre]
        /\ UNCHANGED <<sessao, movimento>>
    BY <1>5 DEF IniciarVendaGravar
  <2>2. s \in SessaoCx /\ sessao[s].status = "ABERTO"
    BY <2>1, TiposDeTx DEF Leitura, TypeOKCaixa
  <2>3. \A u \in TerminalCx : tx'[u].op = "livre"
    BY <2>1 DEF Exclusao, TypeOKCaixa, Livre
  <2>4. /\ vendaCx'[v].status = "ABERTA" /\ vendaCx'[v].sessao = s
        /\ \A x \in VendaCx : x # v => vendaCx'[x] = vendaCx[x]
    BY <2>1 DEF TypeOKCaixa
  <2>5. \A x \in SessaoCx : Finalizadas(x)' = Finalizadas(x)
    BY <2>1, <2>4 DEF Finalizadas
  <2>6. Exclusao' /\ Leitura'
    BY <2>3 DEF Exclusao, Leitura
  <2>7. ComSessao' /\ VendaAbertaEmSessaoAberta'
    BY <2>1, <2>2, <2>4 DEF ComSessao, VendaAbertaEmSessaoAberta
  <2>8. ResumoDefinitivo'
    BY <2>1, <2>5 DEF ResumoDefinitivo
  <2>9. QED
    BY <2>6, <2>7, <2>8
<1>6. ASSUME NEW v \in VendaCx, CancelarVenda(t, v) PROVE InvCaixa'
  <2>1. /\ \A u \in TerminalCx : tx[u].op = "livre"
        /\ vendaCx[v].status = "ABERTA"
        /\ vendaCx' = [vendaCx EXCEPT ![v].status = "CANCELADA"]
        /\ UNCHANGED <<sessao, movimento, tx>>
    BY <1>6 DEF CancelarVenda, PodeTravar
  <2>2. /\ vendaCx'[v].status = "CANCELADA" /\ vendaCx'[v].sessao = vendaCx[v].sessao
        /\ \A x \in VendaCx : x # v => vendaCx'[x] = vendaCx[x]
    BY <2>1 DEF TypeOKCaixa, LinhaVenda
  <2>3. \A x \in SessaoCx : Finalizadas(x)' = Finalizadas(x)
    BY <2>1, <2>2 DEF Finalizadas
  <2>4. Exclusao' /\ Leitura'
    BY <2>1 DEF Exclusao, Leitura
  <2>5. ComSessao' /\ VendaAbertaEmSessaoAberta'
    BY <2>1, <2>2 DEF ComSessao, VendaAbertaEmSessaoAberta
  <2>6. ResumoDefinitivo'
    BY <2>1, <2>3 DEF ResumoDefinitivo
  <2>7. QED
    BY <2>4, <2>5, <2>6
<1>7. ASSUME NEW v \in VendaCx, FinalizarVendaLer(t, v) PROVE InvCaixa'
  <2>1. /\ \A u \in TerminalCx : tx[u].op = "livre"
        /\ vendaCx[v].status = "ABERTA"
        /\ tx' = [tx EXCEPT ![t] = [op |-> "finalizar", venda |-> v]]
        /\ UNCHANGED <<sessao, vendaCx, movimento>>
    BY <1>7 DEF FinalizarVendaLer, PodeTravar
  <2>2. /\ tx'[t] = [op |-> "finalizar", venda |-> v]
        /\ \A u \in TerminalCx : u # t => tx'[u].op = "livre"
    BY <2>1 DEF TypeOKCaixa
  <2>3. Exclusao' /\ Leitura'
    BY <2>1, <2>2 DEF Exclusao, Leitura
  <2>4. ComSessao' /\ VendaAbertaEmSessaoAberta' /\ ResumoDefinitivo'
    BY <2>1 DEF ComSessao, VendaAbertaEmSessaoAberta, ResumoDefinitivo, Finalizadas
  <2>5. QED
    BY <2>3, <2>4
<1>8. CASE FecharCaixaGravar(t)
  <2> DEFINE s == tx[t].sessao
  <2>1. /\ tx[t].op = "fechar"
        /\ sessao' = [sessao EXCEPT ![s].status = "FECHADO", ![s].resumo = tx[t].resumo]
        /\ tx' = [tx EXCEPT ![t] = Livre]
        /\ UNCHANGED <<vendaCx, movimento>>
    BY <1>8 DEF FecharCaixaGravar
  <2>2. s \in SessaoCx
    BY <2>1, TiposDeTx DEF TypeOKCaixa
  <2>3. \A u \in TerminalCx : tx'[u].op = "livre"
    BY <2>1 DEF Exclusao, TypeOKCaixa, Livre
  <2>4. /\ sessao'[s].resumo = tx[t].resumo /\ sessao'[s].status = "FECHADO"
        /\ \A x \in SessaoCx : x # s => sessao'[x] = sessao[x]
    BY <2>1, <2>2 DEF TypeOKCaixa, LinhaSessao
  <2>5. Exclusao' /\ Leitura' /\ ComSessao'
    <3>1. \A x \in SessaoCx : sessao[x].status # "NENHUMA" => sessao'[x].status # "NENHUMA"
      BY <2>4
    <3>2. ComSessao'
      BY <2>1, <3>1 DEF ComSessao
    <3>3. QED
      BY <2>1, <2>3, <3>2 DEF Exclusao, Leitura
  <2>6. VendaAbertaEmSessaoAberta'
    <3>1. ~ExisteVendaAberta(s)
      BY <2>1 DEF Leitura
    <3>2. QED
      BY <2>1, <2>4, <3>1 DEF VendaAbertaEmSessaoAberta, ComSessao, ExisteVendaAberta
  <2>7. ResumoDefinitivo'
    <3>1. tx[t].resumo = [vendas |-> Finalizadas(s), movimentos |-> movimento[s]]
      BY <2>1 DEF Leitura
    <3>2. \A x \in SessaoCx : Finalizadas(x)' = Finalizadas(x)
      BY <2>1 DEF Finalizadas
    <3>3. QED
      BY <2>1, <2>4, <3>1, <3>2 DEF ResumoDefinitivo
  <2>8. QED
    BY <2>5, <2>6, <2>7
<1>9. CASE FinalizarVendaGravar(t)
  <2> DEFINE v == tx[t].venda
  <2>1. /\ tx[t].op = "finalizar"
        /\ vendaCx' = [vendaCx EXCEPT ![v].status = "FINALIZADA", ![v].dia = hoje]
        /\ tx' = [tx EXCEPT ![t] = Livre]
        /\ UNCHANGED <<sessao, movimento>>
    BY <1>9 DEF FinalizarVendaGravar
  <2>2. v \in VendaCx /\ vendaCx[v].status = "ABERTA"
    BY <2>1, TiposDeTx DEF TypeOKCaixa, Leitura
  <2>3. \A u \in TerminalCx : tx'[u].op = "livre"
    BY <2>1 DEF Exclusao, TypeOKCaixa, Livre
  <2>4. /\ vendaCx'[v].status = "FINALIZADA" /\ vendaCx'[v].sessao = vendaCx[v].sessao
        /\ \A x \in VendaCx : x # v => vendaCx'[x] = vendaCx[x]
    BY <2>1, <2>2 DEF TypeOKCaixa, LinhaVenda
  <2>5. Exclusao' /\ Leitura'
    BY <2>3 DEF Exclusao, Leitura
  <2>6. ComSessao' /\ VendaAbertaEmSessaoAberta'
    BY <2>1, <2>2, <2>4 DEF ComSessao, VendaAbertaEmSessaoAberta
  <2>7. ResumoDefinitivo'
    <3>1. sessao[vendaCx[v].sessao].status = "ABERTO"
      BY <2>2 DEF VendaAbertaEmSessaoAberta
    <3>2. \A x \in SessaoCx : sessao[x].status = "FECHADO" => Finalizadas(x)' = Finalizadas(x)
      BY <2>2, <2>4, <3>1 DEF Finalizadas
    <3>3. QED
      BY <2>1, <3>2 DEF ResumoDefinitivo
  <2>8. QED
    BY <2>5, <2>6, <2>7
<1>10. CASE Desfazer(t)
  <2>1. tx' = [tx EXCEPT ![t] = Livre] /\ UNCHANGED <<sessao, vendaCx, movimento>>
    BY <1>10 DEF Desfazer
  <2>2. \A u \in TerminalCx : tx'[u].op = "livre" \/ tx'[u] = tx[u]
    BY <2>1 DEF TypeOKCaixa, Livre
  <2>3. Exclusao' /\ Leitura'
    BY <2>1, <2>2 DEF Exclusao, Leitura, ExisteVendaAberta, Finalizadas
  <2>4. ComSessao' /\ VendaAbertaEmSessaoAberta' /\ ResumoDefinitivo'
    BY <2>1 DEF ComSessao, VendaAbertaEmSessaoAberta, ResumoDefinitivo, Finalizadas
  <2>5. QED
    BY <2>3, <2>4
<1>11. ASSUME NEW c \in CaixaHub \cup {NuloCx}, ConfigurarTerminal(t, c) PROVE InvCaixa'
  BY <1>11, InvParada DEF ConfigurarTerminal
<1>12. QED
  BY <1>1, <1>2, <1>3, <1>4, <1>5, <1>6, <1>7, <1>8, <1>9, <1>10, <1>11 DEF PassoTerminal

\* The invariant holds in every reachable state.
THEOREM InvarianteCaixa == SpecCaixa => []InvCaixa
<1>1. ASSUME InvCaixa, TypeOKCaixa', [NextCaixa]_varsCaixa PROVE InvCaixa'
  <2>1. ASSUME NEW c \in CaixaHub, ImportarCaixa(c) PROVE InvCaixa'
    BY <1>1, <2>1, InvParada DEF ImportarCaixa
  <2>2. CASE PassoDia
    <3>1. UNCHANGED <<sessao, vendaCx, movimento, tx>>
      BY <2>2 DEF PassoDia, FecharDiaVendas, FecharDiaFormas, FecharDiaConferir, FecharDiaGravar, NovoDia
    <3>2. QED
      BY <1>1, <3>1, InvParada
  <2>3. CASE UNCHANGED varsCaixa
    BY <1>1, <2>3, InvParada DEF varsCaixa
  <2>4. QED
    BY <1>1, <2>1, <2>2, <2>3, InvTerminal DEF NextCaixa
<1>2. QED
  BY <1>1, InvInicial, TipoCaixa, PTL DEF SpecCaixa

\* A sale in progress belongs to an open session, for any number of terminals
\* (iniciar_venda, fechar_caixa).
THEOREM VendaEmSessao == SpecCaixa => []VendaAbertaEmSessaoAberta
  BY InvarianteCaixa, PTL DEF InvCaixa

\* The summary of a closed session stays true (fechar_caixa).
THEOREM ResumoVale == SpecCaixa => []ResumoDefinitivo
  BY InvarianteCaixa, PTL DEF InvCaixa

-----------------------------------------------------------------------------
(* The closing of a day *)

\* a sale that a session counted when it was closed
Contada(v) ==
  /\ vendaCx[v].status = "FINALIZADA"
  /\ sessao[vendaCx[v].sessao].status = "FECHADO"

\* the sales that a call of fechar_dia has read are concluded, and counted once
\* no session was found open
PreviaContada ==
  /\ previa.op # "livre" => \A v \in previa.vendas \cup previa.formas : vendaCx[v].status = "FINALIZADA"
  /\ previa.op = "gravar" => \A v \in previa.vendas \cup previa.formas : Contada(v)
DiaContado ==
  \A d \in Dia : dia[d] # NuloCx => \A v \in dia[d].vendas \cup dia[d].formas : Contada(v)
InvDia == PreviaContada /\ DiaContado

\* concluded sales and closed sessions stay as they are
LEMMA ContadaFica ==
  ASSUME InvCaixa, NextCaixa, NEW v \in VendaCx, vendaCx[v].status = "FINALIZADA"
  PROVE  vendaCx'[v].status = "FINALIZADA" /\ (Contada(v) => Contada(v)')
<1>1. vendaCx[v].sessao \in SessaoCx
  BY DEF InvCaixa, ComSessao
<1> DEFINE Fica == /\ vendaCx'[v] = vendaCx[v]
                   /\ \A s \in SessaoCx : sessao[s].status = "FECHADO" => sessao'[s].status = "FECHADO"
<1>2. ASSUME NEW t \in TerminalCx, PassoTerminal(t) PROVE Fica
  <2>1. ASSUME NEW s \in SessaoCx, AbrirCaixa(t, s) PROVE Fica
    BY <2>1 DEF AbrirCaixa, InvCaixa, TypeOKCaixa
  <2>2. CASE FecharCaixaGravar(t)
    <3>1. PICK s \in SessaoCx : tx[t].sessao = s
      BY <2>2, TiposDeTx DEF FecharCaixaGravar, InvCaixa, TypeOKCaixa
    <3>2. QED
      BY <2>2, <3>1 DEF FecharCaixaGravar, InvCaixa, TypeOKCaixa, LinhaSessao
  <2>3. ASSUME NEW w \in VendaCx, IniciarVendaGravar(t, w) \/ CancelarVenda(t, w) PROVE Fica
    BY <2>3 DEF IniciarVendaGravar, CancelarVenda, InvCaixa, TypeOKCaixa
  <2>4. CASE FinalizarVendaGravar(t)
    <3>1. PICK w \in VendaCx : tx[t].venda = w
      BY <2>4, TiposDeTx DEF FinalizarVendaGravar, InvCaixa, TypeOKCaixa
    <3>2. w # v
      BY <2>4, <3>1 DEF FinalizarVendaGravar, InvCaixa, Leitura
    <3>3. QED
      BY <2>4, <3>1, <3>2 DEF FinalizarVendaGravar, InvCaixa, TypeOKCaixa
  <2>5. QED
    BY <1>2, <2>1, <2>2, <2>3, <2>4 DEF PassoTerminal, FecharCaixaLer, RegistrarMovimentacao, IniciarVendaLer,
       FinalizarVendaLer, Desfazer, ConfigurarTerminal
<1>3. ASSUME PassoDia \/ \E c \in CaixaHub : ImportarCaixa(c) PROVE UNCHANGED <<vendaCx, sessao>>
  BY <1>3 DEF PassoDia, FecharDiaVendas, FecharDiaFormas, FecharDiaConferir, FecharDiaGravar, NovoDia, ImportarCaixa
<1>4. QED
  BY <1>1, <1>2, <1>3 DEF NextCaixa, Contada

LEMMA DiaAoFechar ==
  ASSUME InvCaixa, InvDia, PassoDia
  PROVE  InvDia'
<1> USE DEF InvDia
<1>0. TypeOKCaixa /\ previa \in Previa
  BY DEF InvCaixa, TypeOKCaixa
<1>1. ASSUME NEW d \in Dia, FecharDiaVendas(d) PROVE InvDia'
  BY <1>1 DEF FecharDiaVendas, FinalizadasNo, PreviaContada, DiaContado, Contada
<1>2. CASE FecharDiaFormas
  <2>1. /\ previa'.op = "impedimentos" /\ previa'.vendas = previa.vendas
        /\ previa'.formas = FinalizadasNo(previa.dia)
        /\ UNCHANGED <<vendaCx, sessao, dia>>
    BY <1>0, <1>2, TiposDePrevia DEF FecharDiaFormas
  <2>2. \A v \in previa.vendas : vendaCx[v].status = "FINALIZADA"
    BY <1>2 DEF FecharDiaFormas, PreviaContada
  <2>3. QED
    BY <2>1, <2>2 DEF FinalizadasNo, PreviaContada, DiaContado, Contada
<1>3. CASE FecharDiaConferir
  <2>1. UNCHANGED <<vendaCx, sessao, dia>>
    BY <1>3 DEF FecharDiaConferir
  <2>2. CASE previa' = Livre
    BY <2>1, <2>2 DEF Livre, PreviaContada, DiaContado, Contada
  <2>3. CASE ~Impedimentos /\ previa' = [previa EXCEPT !.op = "gravar"]
    <3>1. previa'.op = "gravar" /\ previa'.vendas = previa.vendas /\ previa'.formas = previa.formas
          /\ previa.vendas \cup previa.formas \subseteq VendaCx
      BY <1>0, <1>3, <2>3, TiposDePrevia DEF FecharDiaConferir
    <3>2. ASSUME NEW v \in previa.vendas \cup previa.formas PROVE Contada(v)
      <4>1. v \in VendaCx /\ vendaCx[v].status = "FINALIZADA"
        BY <1>3, <3>1 DEF FecharDiaConferir, PreviaContada
      <4>2. vendaCx[v].sessao \in SessaoCx
        BY <4>1 DEF InvCaixa, ComSessao
      <4>3. sessao[vendaCx[v].sessao].status \in {"ABERTO", "FECHADO"}
        BY <4>1, <4>2 DEF InvCaixa, ComSessao, TypeOKCaixa, LinhaSessao
      <4>4. QED
        BY <2>3, <4>1, <4>2, <4>3 DEF Impedimentos, Contada
    <3>3. QED
      BY <2>1, <3>1, <3>2 DEF PreviaContada, DiaContado, Contada
  <2>4. QED
    BY <1>3, <2>2, <2>3 DEF FecharDiaConferir
<1>4. CASE FecharDiaGravar
  <2>1. /\ dia' = [dia EXCEPT ![previa.dia] = [vendas |-> previa.vendas, formas |-> previa.formas]]
        /\ previa' = Livre /\ UNCHANGED <<vendaCx, sessao>>
        /\ \A v \in previa.vendas \cup previa.formas : Contada(v)
    BY <1>4 DEF FecharDiaGravar, PreviaContada
  <2>2. QED
    BY <1>0, <2>1 DEF TypeOKCaixa, Livre, PreviaContada, DiaContado, Contada
<1>5. CASE NovoDia
  BY <1>5 DEF NovoDia, PreviaContada, DiaContado, Contada
<1>6. QED
  BY <1>1, <1>2, <1>3, <1>4, <1>5 DEF PassoDia

\* What the closing of a day counts is in the summary of a session closed for
\* good, for any number of terminals, sessions and sales (fechar_dia, fechar_caixa).
THEOREM DiaDasSessoesVale == SpecCaixa => []DiaDasSessoes
<1>1. InitCaixa => InvDia
  BY DEF InitCaixa, InvDia, PreviaContada, DiaContado, Livre
<1>2. ASSUME InvCaixa, InvDia, [NextCaixa]_varsCaixa PROVE InvDia'
  <2>1. CASE PassoDia
    BY <1>2, <2>1, DiaAoFechar
  <2>2. CASE NextCaixa /\ ~PassoDia
    <3>1. UNCHANGED <<dia, previa>>
      BY <2>2 DEF NextCaixa, PassoTerminal, AbrirCaixa, FecharCaixaLer, FecharCaixaGravar, RegistrarMovimentacao,
         IniciarVendaLer, IniciarVendaGravar, CancelarVenda, FinalizarVendaLer, FinalizarVendaGravar,
         Desfazer, ConfigurarTerminal, ImportarCaixa
    <3>2. previa.op # "livre" => previa.vendas \cup previa.formas \subseteq VendaCx
      BY <1>2, TiposDePrevia DEF InvCaixa, TypeOKCaixa
    <3>3. PreviaContada'
      BY <1>2, <2>2, <3>1, <3>2, ContadaFica DEF InvDia, PreviaContada
    <3>4. \A d \in Dia : dia[d] # NuloCx => dia[d].vendas \cup dia[d].formas \subseteq VendaCx
      BY <1>2 DEF InvCaixa, TypeOKCaixa, LinhaFechamento
    <3>5. DiaContado'
      BY <1>2, <2>2, <3>1, <3>4, ContadaFica DEF InvDia, DiaContado, Contada
    <3>6. QED
      BY <3>3, <3>5 DEF InvDia
  <2>3. CASE UNCHANGED varsCaixa
    BY <1>2, <2>3 DEF varsCaixa, InvDia, PreviaContada, DiaContado, Contada
  <2>4. QED
    BY <1>2, <2>1, <2>2, <2>3
<1>3. InvCaixa /\ InvDia => DiaDasSessoes
  <2>1. SUFFICES ASSUME InvCaixa, InvDia, NEW d \in Dia, dia[d] # NuloCx, NEW v \in dia[d].vendas \cup dia[d].formas
                 PROVE  /\ sessao[vendaCx[v].sessao].status = "FECHADO"
                        /\ v \in sessao[vendaCx[v].sessao].resumo.vendas
    BY DEF DiaDasSessoes
  <2>2. v \in VendaCx /\ Contada(v)
    BY <2>1 DEF InvDia, DiaContado, InvCaixa, TypeOKCaixa, LinhaFechamento
  <2>3. vendaCx[v].sessao \in SessaoCx
    BY <2>1, <2>2 DEF InvCaixa, ComSessao, Contada
  <2>4. sessao[vendaCx[v].sessao].resumo = [vendas |-> Finalizadas(vendaCx[v].sessao),
                                            movimentos |-> movimento[vendaCx[v].sessao]]
    BY <2>1, <2>2, <2>3 DEF InvCaixa, ResumoDefinitivo, Contada
  <2>5. QED
    BY <2>2, <2>4 DEF Finalizadas, Contada
<1>4. QED
  BY <1>1, <1>2, <1>3, InvarianteCaixa, PTL DEF SpecCaixa

-----------------------------------------------------------------------------
(* Sums over finite sets *)

\* an element of the set, the same every time
Um(s) == CHOOSE x \in s : TRUE

\* the table of the sums of the subsets of a set S
TabelaSoma(g, f, S) ==
  g = [s \in SUBSET S |-> IF s = {} THEN 0
                          ELSE f[Um(s)] + g[s \ {Um(s)}]]

\* A set of subsets of a finite set has a smallest element, if it has any.
LEMMA MenorSubconjunto ==
  ASSUME NEW S, IsFiniteSet(S), NEW T, T \subseteq SUBSET S, T # {}
  PROVE  \E s \in T : \A u \in T : ~(u \subseteq s /\ u # s)
<1>1. IsWellFoundedOn(StrictSubsetOrdering(S), SUBSET S)
  BY FS_StrictSubsetOrderingWellFounded, FS_FiniteSubsetsOfFinite
<1>2. \E s \in T : \A u \in T : ~(<<u, s>> \in StrictSubsetOrdering(S))
  BY <1>1, WFMin
<1> QED BY <1>2 DEF StrictSubsetOrdering

LEMMA TabelasIguais ==
  ASSUME NEW S, IsFiniteSet(S), NEW f, NEW g, NEW h, NEW U, U \subseteq S,
         TabelaSoma(g, f, S), TabelaSoma(h, f, U)
  PROVE  g[U] = h[U]
<1>1. SUFFICES ASSUME {s \in SUBSET U : g[s] # h[s]} # {} PROVE FALSE
  OBVIOUS
<1> DEFINE D == {s \in SUBSET U : g[s] # h[s]}
<1>2. PICK s \in D : \A u \in D : ~(u \subseteq s /\ u # s)
  <2>1. D \subseteq SUBSET S /\ D # {}
    BY <1>1
  <2> HIDE DEF D
  <2> QED BY <2>1, MenorSubconjunto
<1>3. s # {}
  <2>1. {} \in SUBSET S /\ {} \in SUBSET U
    OBVIOUS
  <2>2. g[{}] = 0 /\ h[{}] = 0
    BY <2>1 DEF TabelaSoma
  <2> QED BY <2>2
<1>4. PICK x : x = Um(s)
  OBVIOUS
<1>5. x \in s
  BY <1>3, <1>4 DEF Um
<1>6. s \ {x} \in SUBSET U /\ s \ {x} # s /\ s \ {x} \subseteq s
  BY <1>5
<1>7. g[s \ {x}] = h[s \ {x}]
  BY <1>2, <1>6
<1>8. s \in SUBSET S /\ s \in SUBSET U
  OBVIOUS
<1>9. g[s] = f[x] + g[s \ {x}]
  BY <1>3, <1>4, <1>8 DEF TabelaSoma
<1>10. h[s] = f[x] + h[s \ {x}]
  BY <1>3, <1>4, <1>8 DEF TabelaSoma
<1> QED BY <1>7, <1>9, <1>10
LEMMA TabelaExiste ==
  ASSUME NEW S, IsFiniteSet(S), NEW f
  PROVE  \E g : TabelaSoma(g, f, S)
<1>1. SUFFICES ASSUME ~\E g : TabelaSoma(g, f, S) PROVE FALSE
  OBVIOUS
<1> DEFINE D == {u \in SUBSET S : ~\E g : TabelaSoma(g, f, u)}
<1>2. S \in D /\ D \subseteq SUBSET S
  BY <1>1
<1>3. PICK s \in D : \A u \in D : ~(u \subseteq s /\ u # s)
  <2> HIDE DEF D
  <2> QED BY <1>2, MenorSubconjunto
<1>4. PICK G : G = [u \in SUBSET s |-> CHOOSE g : TabelaSoma(g, f, u)]
  OBVIOUS
<1>5. ASSUME NEW u \in SUBSET s, u # s PROVE TabelaSoma(G[u], f, u)
  <2>1. u \notin D /\ u \in SUBSET S
    BY <1>3, <1>5
  <2>2. \E g : TabelaSoma(g, f, u)
    BY <2>1
  <2> QED BY <2>2, <1>4
<1> DEFINE V(u) == u \ {Um(u)}
<1>6. PICK h : h = [u \in SUBSET s |-> IF u = {} THEN 0 ELSE f[Um(u)] + G[V(u)][V(u)]]
  OBVIOUS
<1>7. ASSUME NEW u \in SUBSET s, u # {} PROVE h[V(u)] = G[V(u)][V(u)]
  <2>1. Um(u) \in u
    BY <1>7 DEF Um
  <2>2. PICK w : w = V(u)
    OBVIOUS
  <2>3. w \in SUBSET s /\ w # s
    BY <2>1, <2>2
  <2>4. TabelaSoma(G[w], f, w)
    BY <1>5, <2>3
  <2>5. CASE w = {}
    BY <1>6, <2>2, <2>3, <2>4, <2>5 DEF TabelaSoma
  <2>6. CASE w # {}
    <3>1. Um(w) \in w
      BY <2>6 DEF Um
    <3>2. PICK z : z = V(w)
      OBVIOUS
    <3>3. z \in SUBSET s /\ z # s /\ z \subseteq w
      BY <2>3, <3>1, <3>2
    <3>4. TabelaSoma(G[z], f, z)
      BY <1>5, <3>3
    <3>5. IsFiniteSet(w)
      BY <2>3, <1>3, FS_Subset
    <3>6. G[w][z] = G[z][z]
      BY <2>4, <3>3, <3>4, <3>5, TabelasIguais
    <3>7. w \in SUBSET w
      OBVIOUS
    <3>8. G[w][w] = f[Um(w)] + G[w][z]
      BY <2>4, <2>6, <3>2, <3>7 DEF TabelaSoma
    <3>9. h[w] = f[Um(w)] + G[z][z]
      BY <1>6, <2>3, <2>6, <3>2
    <3> QED BY <3>6, <3>8, <3>9, <2>2
  <2> QED BY <2>5, <2>6
<1>8. h = [u \in SUBSET s |-> IF u = {} THEN 0 ELSE f[Um(u)] + h[V(u)]]
  BY <1>6, <1>7
<1>9. TabelaSoma(h, f, s)
  BY <1>8 DEF TabelaSoma
<1> QED BY <1>9, <1>3

\* The sum is the last entry of any table.
LEMMA SomaTabela ==
  ASSUME NEW S, IsFiniteSet(S), NEW f
  PROVE  /\ \E g : TabelaSoma(g, f, S) /\ SumFunctionOnSet(f, S) = g[S]
         /\ \A g : TabelaSoma(g, f, S) => SumFunctionOnSet(f, S) = g[S]
<1>1. \E g : TabelaSoma(g, f, S)
  BY TabelaExiste
<1>2. \E g : TabelaSoma(g, f, S) /\ SumFunctionOnSet(f, S) = g[S]
  BY <1>1 DEF TabelaSoma, Um, SumFunctionOnSet, FoldFunctionOnSet, MapThenFoldSet
<1>3. \A g, h : TabelaSoma(g, f, S) /\ TabelaSoma(h, f, S) => g[S] = h[S]
  BY TabelasIguais
<1> QED BY <1>2, <1>3

LEMMA SomaVazia ==
  ASSUME NEW f PROVE SumFunctionOnSet(f, {}) = 0
<1>1. PICK g : TabelaSoma(g, f, {}) /\ SumFunctionOnSet(f, {}) = g[{}]
  BY SomaTabela, FS_EmptySet
<1>2. {} \in SUBSET {}
  OBVIOUS
<1> QED BY <1>1, <1>2 DEF TabelaSoma

\* The entries of a table are sums.
LEMMA SomaParte ==
  ASSUME NEW S, IsFiniteSet(S), NEW f, NEW g, TabelaSoma(g, f, S), NEW U \in SUBSET S
  PROVE  SumFunctionOnSet(f, U) = g[U]
<1>1. IsFiniteSet(U)
  BY FS_Subset
<1>2. PICK h : TabelaSoma(h, f, U) /\ SumFunctionOnSet(f, U) = h[U]
  BY <1>1, SomaTabela
<1> QED BY <1>2, TabelasIguais

LEMMA SomaUm ==
  ASSUME NEW S, IsFiniteSet(S), NEW f, S # {}
  PROVE  Um(S) \in S /\ SumFunctionOnSet(f, S) = f[Um(S)] + SumFunctionOnSet(f, S \ {Um(S)})
<1>1. PICK g : TabelaSoma(g, f, S) /\ SumFunctionOnSet(f, S) = g[S]
  BY SomaTabela
<1>2. S \in SUBSET S /\ S \ {Um(S)} \in SUBSET S
  OBVIOUS
<1>3. g[S] = f[Um(S)] + g[S \ {Um(S)}]
  BY <1>1, <1>2 DEF TabelaSoma
<1>4. SumFunctionOnSet(f, S \ {Um(S)}) = g[S \ {Um(S)}]
  BY <1>1, <1>2, SomaParte
<1> QED BY <1>1, <1>3, <1>4 DEF Um

-----------------------------------------------------------------------------
(* Induction over the subsets of a finite set, with the set P of those that  *)
(* are good                                                                  *)

LEMMA Inducao ==
  ASSUME NEW S, IsFiniteSet(S), NEW P, {} \in P,
         \A T \in SUBSET S, x \in S : T \in P /\ x \notin T => T \cup {x} \in P
  PROVE  S \in P
<1>1. SUFFICES ASSUME S \notin P PROVE FALSE
  OBVIOUS
<1> DEFINE D == {T \in SUBSET S : T \notin P}
<1>2. PICK s \in D : \A u \in D : ~(u \subseteq s /\ u # s)
  <2>1. D \subseteq SUBSET S /\ D # {}
    BY <1>1
  <2> HIDE DEF D
  <2> QED BY <2>1, MenorSubconjunto
<1>3. s \in SUBSET S /\ s \notin P /\ s # {}
  OBVIOUS
<1>4. PICK x \in s : TRUE
  BY <1>3
<1>5. PICK u : u = s \ {x}
  OBVIOUS
<1>6. u \in SUBSET S /\ x \in S /\ x \notin u /\ u \cup {x} = s /\ u # s /\ u \subseteq s
  BY <1>3, <1>5
<1>7. u \in P
  BY <1>2, <1>6
<1>8. u \cup {x} \in P
  BY <1>6, <1>7
<1> QED BY <1>3, <1>6, <1>8

LEMMA SomaTipo ==
  ASSUME NEW S, IsFiniteSet(S), NEW f, \A x \in S : f[x] \in Int
  PROVE  SumFunctionOnSet(f, S) \in Int
<1>1. SUFFICES ASSUME SumFunctionOnSet(f, S) \notin Int PROVE FALSE
  OBVIOUS
<1> DEFINE D == {T \in SUBSET S : SumFunctionOnSet(f, T) \notin Int}
<1>2. PICK s \in D : \A u \in D : ~(u \subseteq s /\ u # s)
  <2>1. D \subseteq SUBSET S /\ D # {}
    BY <1>1
  <2> HIDE DEF D
  <2> QED BY <2>1, MenorSubconjunto
<1>3. s # {}
  BY SomaVazia
<1>4. IsFiniteSet(s)
  BY FS_Subset
<1>5. PICK x : x = Um(s)
  OBVIOUS
<1>6. x \in s /\ SumFunctionOnSet(f, s) = f[x] + SumFunctionOnSet(f, s \ {x})
  BY <1>3, <1>4, <1>5, SomaUm
<1>7. SumFunctionOnSet(f, s \ {x}) \in Int
  BY <1>2, <1>6
<1>8. f[x] \in Int
  BY <1>6
<1> QED BY <1>6, <1>7, <1>8

\* The order does not matter: any element may be added last.
LEMMA SomaTira ==
  ASSUME NEW S, IsFiniteSet(S), NEW f, \A x \in S : f[x] \in Int, NEW x \in S
  PROVE  SumFunctionOnSet(f, S) = f[x] + SumFunctionOnSet(f, S \ {x})
<1>1. SUFFICES ASSUME ~\A y \in S : SumFunctionOnSet(f, S) = f[y] + SumFunctionOnSet(f, S \ {y}) PROVE FALSE
  OBVIOUS
<1> DEFINE D == {T \in SUBSET S : ~\A y \in T : SumFunctionOnSet(f, T) = f[y] + SumFunctionOnSet(f, T \ {y})}
<1>2. PICK s \in D : \A u \in D : ~(u \subseteq s /\ u # s)
  <2>1. D \subseteq SUBSET S /\ D # {}
    BY <1>1
  <2> HIDE DEF D
  <2> QED BY <2>1, MenorSubconjunto
<1>3. PICK y \in s : SumFunctionOnSet(f, s) # f[y] + SumFunctionOnSet(f, s \ {y})
  OBVIOUS
<1>4. PICK z : z = Um(s)
  OBVIOUS
<1>5. IsFiniteSet(s) /\ IsFiniteSet(s \ {y})
  BY FS_Subset, FS_RemoveElement
<1>6. z \in s /\ SumFunctionOnSet(f, s) = f[z] + SumFunctionOnSet(f, s \ {z})
  BY <1>3, <1>4, <1>5, SomaUm
<1>7. y # z
  BY <1>3, <1>6
<1>8. SumFunctionOnSet(f, s \ {z}) = f[y] + SumFunctionOnSet(f, (s \ {z}) \ {y})
  <2>1. s \ {z} \in SUBSET S /\ s \ {z} \subseteq s /\ s \ {z} # s /\ y \in s \ {z}
    BY <1>6, <1>7
  <2> QED BY <2>1, <1>2
<1>9. SumFunctionOnSet(f, s \ {y}) = f[z] + SumFunctionOnSet(f, (s \ {y}) \ {z})
  <2>1. s \ {y} \in SUBSET S /\ s \ {y} \subseteq s /\ s \ {y} # s /\ z \in s \ {y}
    BY <1>6, <1>7
  <2> QED BY <2>1, <1>2
<1>10. PICK w : w = (s \ {y}) \ {z}
  OBVIOUS
<1>11. w = (s \ {z}) \ {y} /\ w \in SUBSET S
  BY <1>10
<1>12. SumFunctionOnSet(f, w) \in Int
  <2>1. IsFiniteSet(w)
    BY <1>11, FS_Subset
  <2> QED BY <1>11, <2>1, SomaTipo
<1>13. f[y] \in Int /\ f[z] \in Int
  BY <1>6
<1>14. f[z] + (f[y] + SumFunctionOnSet(f, w)) = f[y] + (f[z] + SumFunctionOnSet(f, w))
  BY <1>12, <1>13
<1>15. SumFunctionOnSet(f, s) = f[z] + (f[y] + SumFunctionOnSet(f, w)) /\ SumFunctionOnSet(f, s \ {y}) = f[z] + SumFunctionOnSet(f, w)
  BY <1>6, <1>8, <1>9, <1>10, <1>11
<1> QED BY <1>3, <1>14, <1>15

LEMMA SomaPoe ==
  ASSUME NEW S, IsFiniteSet(S), NEW f, NEW x, x \notin S, \A y \in S \cup {x} : f[y] \in Int
  PROVE  SumFunctionOnSet(f, S \cup {x}) = f[x] + SumFunctionOnSet(f, S)
<1>1. IsFiniteSet(S \cup {x}) /\ x \in S \cup {x} /\ (S \cup {x}) \ {x} = S
  BY FS_AddElement
<1> QED BY <1>1, SomaTira

LEMMA SomaDeUm ==
  ASSUME NEW f, NEW x, f[x] \in Int
  PROVE  SumFunctionOnSet(f, {x}) = f[x]
<1>1. SumFunctionOnSet(f, {} \cup {x}) = f[x] + SumFunctionOnSet(f, {})
  BY SomaPoe, FS_EmptySet
<1>2. {} \cup {x} = {x}
  OBVIOUS
<1> QED BY <1>1, <1>2, SomaVazia

LEMMA SomaIgual ==
  ASSUME NEW S, IsFiniteSet(S), NEW f, NEW g, \A x \in S : f[x] \in Int /\ f[x] = g[x]
  PROVE  SumFunctionOnSet(f, S) = SumFunctionOnSet(g, S)
<1> DEFINE P == {T \in SUBSET S : SumFunctionOnSet(f, T) = SumFunctionOnSet(g, T)}
<1>1. {} \in P
  BY SomaVazia
<1>2. ASSUME NEW T \in SUBSET S, NEW x \in S, T \in P, x \notin T PROVE T \cup {x} \in P
  <2>1. IsFiniteSet(T)
    BY FS_Subset
  <2>2. SumFunctionOnSet(f, T \cup {x}) = f[x] + SumFunctionOnSet(f, T)
    BY <1>2, <2>1, SomaPoe
  <2>3. SumFunctionOnSet(g, T \cup {x}) = g[x] + SumFunctionOnSet(g, T)
    BY <1>2, <2>1, SomaPoe
  <2> QED BY <1>2, <2>2, <2>3
<1>3. S \in P
  <2> HIDE DEF P
  <2> QED BY <1>1, <1>2, Inducao
<1> QED BY <1>3

LEMMA SomaUniao ==
  ASSUME NEW S, IsFiniteSet(S), NEW T, IsFiniteSet(T), S \cap T = {}, NEW f,
         \A x \in S \cup T : f[x] \in Int
  PROVE  SumFunctionOnSet(f, S \cup T) = SumFunctionOnSet(f, S) + SumFunctionOnSet(f, T)
<1> DEFINE P == {U \in SUBSET T : SumFunctionOnSet(f, S \cup U) = SumFunctionOnSet(f, S) + SumFunctionOnSet(f, U)}
<1>0. SumFunctionOnSet(f, S) \in Int
  BY SomaTipo
<1>1. {} \in P
  <2>1. S \cup {} = S
    OBVIOUS
  <2> QED BY <1>0, <2>1, SomaVazia
<1>2. ASSUME NEW U \in SUBSET T, NEW x \in T, U \in P, x \notin U PROVE U \cup {x} \in P
  <2>1. IsFiniteSet(U) /\ IsFiniteSet(S \cup U)
    BY FS_Subset, FS_Union
  <2>2. SumFunctionOnSet(f, U \cup {x}) = f[x] + SumFunctionOnSet(f, U)
    BY <1>2, <2>1, SomaPoe
  <2>3. PICK W : W = S \cup U
    OBVIOUS
  <2>4. x \notin W /\ W \cup {x} = S \cup (U \cup {x}) /\ \A y \in W \cup {x} : f[y] \in Int
    BY <1>2, <2>3
  <2>5. SumFunctionOnSet(f, W \cup {x}) = f[x] + SumFunctionOnSet(f, W)
    BY <2>1, <2>3, <2>4, SomaPoe
  <2>6. SumFunctionOnSet(f, U) \in Int
    BY <2>1, SomaTipo
  <2>7. f[x] \in Int
    OBVIOUS
  <2>8. SumFunctionOnSet(f, W) = SumFunctionOnSet(f, S) + SumFunctionOnSet(f, U)
    BY <1>2, <2>3
  <2>9. f[x] + (SumFunctionOnSet(f, S) + SumFunctionOnSet(f, U)) = SumFunctionOnSet(f, S) + (f[x] + SumFunctionOnSet(f, U))
    BY <1>0, <2>6, <2>7
  <2>10. SumFunctionOnSet(f, S \cup (U \cup {x})) = SumFunctionOnSet(f, S) + SumFunctionOnSet(f, U \cup {x})
    BY <2>2, <2>4, <2>5, <2>8, <2>9
  <2> QED BY <2>10
<1>3. T \in P
  <2> HIDE DEF P
  <2> QED BY <1>1, <1>2, Inducao
<1> QED BY <1>3

\* Sums of functions: pointwise, and in each point at most
LEMMA SomaMais ==
  ASSUME NEW S, IsFiniteSet(S), NEW f, NEW g, NEW h,
         \A x \in S : f[x] \in Int /\ g[x] \in Int /\ h[x] = f[x] + g[x]
  PROVE  SumFunctionOnSet(h, S) = SumFunctionOnSet(f, S) + SumFunctionOnSet(g, S)
<1> DEFINE P == {T \in SUBSET S : SumFunctionOnSet(h, T) = SumFunctionOnSet(f, T) + SumFunctionOnSet(g, T)}
<1>1. {} \in P
  BY SomaVazia
<1>2. ASSUME NEW T \in SUBSET S, NEW x \in S, T \in P, x \notin T PROVE T \cup {x} \in P
  <2>1. IsFiniteSet(T) /\ \A y \in S : h[y] \in Int
    BY FS_Subset
  <2>2. SumFunctionOnSet(f, T \cup {x}) = f[x] + SumFunctionOnSet(f, T)
    BY <1>2, <2>1, SomaPoe
  <2>3. SumFunctionOnSet(g, T \cup {x}) = g[x] + SumFunctionOnSet(g, T)
    BY <1>2, <2>1, SomaPoe
  <2>4. SumFunctionOnSet(h, T \cup {x}) = h[x] + SumFunctionOnSet(h, T)
    BY <1>2, <2>1, SomaPoe
  <2>5. SumFunctionOnSet(f, T) \in Int /\ SumFunctionOnSet(g, T) \in Int
    BY <2>1, SomaTipo
  <2>6. f[x] \in Int /\ g[x] \in Int /\ h[x] = f[x] + g[x]
    OBVIOUS
  <2> QED BY <1>2, <2>2, <2>3, <2>4, <2>5, <2>6
<1>3. S \in P
  <2> HIDE DEF P
  <2> QED BY <1>1, <1>2, Inducao
<1> QED BY <1>3

LEMMA SomaMenor ==
  ASSUME NEW S, IsFiniteSet(S), NEW f, NEW g,
         \A x \in S : f[x] \in Int /\ g[x] \in Int /\ f[x] <= g[x]
  PROVE  SumFunctionOnSet(f, S) <= SumFunctionOnSet(g, S)
<1> DEFINE P == {T \in SUBSET S : SumFunctionOnSet(f, T) <= SumFunctionOnSet(g, T)}
<1>1. {} \in P
  BY SomaVazia
<1>2. ASSUME NEW T \in SUBSET S, NEW x \in S, T \in P, x \notin T PROVE T \cup {x} \in P
  <2>1. IsFiniteSet(T)
    BY FS_Subset
  <2>2. SumFunctionOnSet(f, T \cup {x}) = f[x] + SumFunctionOnSet(f, T)
    BY <1>2, <2>1, SomaPoe
  <2>3. SumFunctionOnSet(g, T \cup {x}) = g[x] + SumFunctionOnSet(g, T)
    BY <1>2, <2>1, SomaPoe
  <2>5. SumFunctionOnSet(f, T) \in Int /\ SumFunctionOnSet(g, T) \in Int
    BY <2>1, SomaTipo
  <2>6. f[x] \in Int /\ g[x] \in Int /\ f[x] <= g[x]
    OBVIOUS
  <2>7. SumFunctionOnSet(f, T) <= SumFunctionOnSet(g, T)
    BY <1>2
  <2>8. SumFunctionOnSet(f, T \cup {x}) <= SumFunctionOnSet(g, T \cup {x})
    BY <2>2, <2>3, <2>5, <2>6, <2>7
  <2> QED BY <2>8
<1>3. S \in P
  <2> HIDE DEF P
  <2> QED BY <1>1, <1>2, Inducao
<1> QED BY <1>3

LEMMA SomaZero ==
  ASSUME NEW S, IsFiniteSet(S), NEW f, \A x \in S : f[x] = 0
  PROVE  SumFunctionOnSet(f, S) = 0
<1>0. \A x \in S : f[x] \in Int
  OBVIOUS
<1> DEFINE P == {T \in SUBSET S : SumFunctionOnSet(f, T) = 0}
<1>1. {} \in P
  BY SomaVazia
<1>2. ASSUME NEW T \in SUBSET S, NEW x \in S, T \in P, x \notin T PROVE T \cup {x} \in P
  <2>1. IsFiniteSet(T)
    BY FS_Subset
  <2>2. SumFunctionOnSet(f, T \cup {x}) = f[x] + SumFunctionOnSet(f, T)
    BY <1>0, <1>2, <2>1, SomaPoe
  <2> QED BY <1>2, <2>2
<1>3. S \in P
  <2> HIDE DEF P
  <2> QED BY <1>1, <1>2, Inducao
<1> QED BY <1>3

LEMMA SomaPositiva ==
  ASSUME NEW S, IsFiniteSet(S), NEW f, \A x \in S : f[x] \in Nat
  PROVE  SumFunctionOnSet(f, S) \in Nat
<1>1. PICK z : z = [x \in S |-> 0]
  OBVIOUS
<1>2. SumFunctionOnSet(z, S) <= SumFunctionOnSet(f, S)
  BY <1>1, SomaMenor
<1>3. SumFunctionOnSet(z, S) = 0
  BY <1>1, SomaZero
<1>4. SumFunctionOnSet(f, S) \in Int
  BY SomaTipo
<1> QED BY <1>2, <1>3, <1>4

\* Of a part, what is left out being zero, or not negative
LEMMA SomaDoResto ==
  ASSUME NEW S, IsFiniteSet(S), NEW T, T \subseteq S, NEW f, \A x \in S : f[x] \in Int
  PROVE  SumFunctionOnSet(f, S) = SumFunctionOnSet(f, T) + SumFunctionOnSet(f, S \ T)
<1>1. IsFiniteSet(T) /\ IsFiniteSet(S \ T) /\ T \cap (S \ T) = {} /\ T \cup (S \ T) = S
  BY FS_Subset, FS_Difference
<1> QED BY <1>1, SomaUniao

LEMMA SomaDaParte ==
  ASSUME NEW S, IsFiniteSet(S), NEW T, T \subseteq S, NEW f, \A x \in S : f[x] \in Int
  PROVE  /\ (\A x \in S \ T : f[x] = 0) => SumFunctionOnSet(f, T) = SumFunctionOnSet(f, S)
         /\ (\A x \in S \ T : f[x] >= 0) => SumFunctionOnSet(f, T) <= SumFunctionOnSet(f, S)
<1>1. IsFiniteSet(T) /\ IsFiniteSet(S \ T)
  BY FS_Subset, FS_Difference
<1>2. SumFunctionOnSet(f, S) = SumFunctionOnSet(f, T) + SumFunctionOnSet(f, S \ T)
  BY SomaDoResto
<1>3. SumFunctionOnSet(f, T) \in Int /\ SumFunctionOnSet(f, S \ T) \in Int
  BY <1>1, SomaTipo
<1>4. ASSUME \A x \in S \ T : f[x] = 0 PROVE SumFunctionOnSet(f, T) = SumFunctionOnSet(f, S)
  BY <1>1, <1>2, <1>3, <1>4, SomaZero
<1>5. ASSUME \A x \in S \ T : f[x] >= 0 PROVE SumFunctionOnSet(f, T) <= SumFunctionOnSet(f, S)
  <2>1. \A x \in S \ T : f[x] \in Nat
    BY <1>5
  <2>2. SumFunctionOnSet(f, S \ T) \in Nat
    BY <1>1, <2>1, SomaPositiva
  <2> QED BY <1>2, <1>3, <2>2
<1> QED BY <1>4, <1>5

\* A function that changes in one point.
LEMMA SomaMuda ==
  ASSUME NEW S, IsFiniteSet(S), NEW f, NEW g, NEW x \in S,
         \A y \in S : f[y] \in Int /\ g[y] \in Int /\ (y # x => f[y] = g[y])
  PROVE  SumFunctionOnSet(g, S) = SumFunctionOnSet(f, S) - f[x] + g[x]
<1>1. IsFiniteSet(S \ {x})
  BY FS_RemoveElement
<1>2. SumFunctionOnSet(f, S) = f[x] + SumFunctionOnSet(f, S \ {x}) /\ SumFunctionOnSet(g, S) = g[x] + SumFunctionOnSet(g, S \ {x})
  BY SomaTira
<1>3. SumFunctionOnSet(f, S \ {x}) = SumFunctionOnSet(g, S \ {x})
  BY <1>1, SomaIgual
<1>4. SumFunctionOnSet(f, S \ {x}) \in Int
  BY <1>1, SomaTipo
<1>5. f[x] \in Int /\ g[x] \in Int
  OBVIOUS
<1> QED BY <1>2, <1>3, <1>4, <1>5

\* No part is more than the sum of parts that are not negative.
LEMMA SomaCabe ==
  ASSUME NEW S, IsFiniteSet(S), NEW f, \A y \in S : f[y] \in Nat, NEW x \in S
  PROVE  f[x] <= SumFunctionOnSet(f, S)
<1>1. SumFunctionOnSet(f, S) = f[x] + SumFunctionOnSet(f, S \ {x})
  BY SomaTira
<1>2. IsFiniteSet(S \ {x}) /\ \A y \in S \ {x} : f[y] \in Nat
  BY FS_RemoveElement
<1>3. SumFunctionOnSet(f, S \ {x}) \in Nat
  BY <1>2, SomaPositiva
<1>4. f[x] \in Nat
  OBVIOUS
<1> QED BY <1>1, <1>3, <1>4

LEMMA ImagemFinita ==
  ASSUME NEW S, IsFiniteSet(S), NEW c
  PROVE  IsFiniteSet({c[x] : x \in S})
<1> DEFINE P == {T \in SUBSET S : IsFiniteSet({c[x] : x \in T})}
<1>1. {} \in P
  <2>1. {c[x] : x \in {}} = {}
    OBVIOUS
  <2> QED BY <2>1, FS_EmptySet
<1>2. ASSUME NEW T \in SUBSET S, NEW x \in S, T \in P, x \notin T PROVE T \cup {x} \in P
  <2>1. PICK K, y : K = {c[z] : z \in T} /\ y = c[x]
    OBVIOUS
  <2>2. {c[z] : z \in T \cup {x}} = K \cup {y}
    BY <2>1
  <2>3. IsFiniteSet(K)
    BY <1>2, <2>1
  <2>4. IsFiniteSet(K \cup {y})
    BY <2>3, FS_AddElement
  <2> QED BY <2>2, <2>4
<1>3. S \in P
  <2> HIDE DEF P
  <2> QED BY <1>1, <1>2, Inducao
<1> QED BY <1>3

LEMMA SomaOposta ==
  ASSUME NEW S, IsFiniteSet(S), NEW f, NEW g, \A x \in S : f[x] \in Int /\ g[x] = -f[x]
  PROVE  SumFunctionOnSet(g, S) = -SumFunctionOnSet(f, S)
<1>1. PICK z : z = [x \in S |-> 0]
  OBVIOUS
<1>2. \A x \in S : f[x] \in Int /\ g[x] \in Int /\ z[x] = f[x] + g[x]
  BY <1>1
<1>3. SumFunctionOnSet(z, S) = SumFunctionOnSet(f, S) + SumFunctionOnSet(g, S)
  BY <1>2, SomaMais
<1>4. SumFunctionOnSet(z, S) = 0
  BY <1>1, SomaZero
<1>5. SumFunctionOnSet(f, S) \in Int /\ SumFunctionOnSet(g, S) \in Int
  BY <1>2, SomaTipo
<1> QED BY <1>3, <1>4, <1>5

\* The sum is that of the sums of the classes.
LEMMA SomaPorClasse ==
  ASSUME NEW S, IsFiniteSet(S), NEW K, IsFiniteSet(K), NEW f, NEW c,
         \A x \in S : f[x] \in Int /\ c[x] \in K
  PROVE  SumFunctionOnSet([k \in K |-> SumFunctionOnSet(f, {x \in S : c[x] = k})], K) = SumFunctionOnSet(f, S)
<1> DEFINE Das(T) == [k \in K |-> SumFunctionOnSet(f, {x \in T : c[x] = k})]
<1> DEFINE P == {T \in SUBSET S : SumFunctionOnSet(Das(T), K) = SumFunctionOnSet(f, T)}
<1>1. {} \in P
  <2>1. \A k \in K : Das({})[k] = 0
    <3>1. \A k \in K : {x \in {} : c[x] = k} = {}
      OBVIOUS
    <3> QED BY <3>1, SomaVazia
  <2>2. PICK g : g = Das({})
    OBVIOUS
  <2>3. SumFunctionOnSet(g, K) = 0
    BY <2>1, <2>2, SomaZero
  <2> QED BY <2>2, <2>3, SomaVazia
<1>2. ASSUME NEW T \in SUBSET S, NEW x \in S, T \in P, x \notin T PROVE T \cup {x} \in P
  <2>1. PICK g, h : g = Das(T) /\ h = Das(T \cup {x})
    OBVIOUS
  <2>2. \A k \in K : IsFiniteSet({y \in T : c[y] = k}) /\ \A y \in {z \in T : c[z] = k} : f[y] \in Int
    BY FS_Subset
  <2>3. \A k \in K : g[k] = SumFunctionOnSet(f, {y \in T : c[y] = k}) /\ g[k] \in Int
    BY <2>1, <2>2, SomaTipo
  <2>4. ASSUME NEW k \in K, k # c[x] PROVE h[k] = g[k]
    <3>1. {y \in T \cup {x} : c[y] = k} = {y \in T : c[y] = k}
      BY <2>4
    <3> QED BY <2>1, <3>1
  <2>5. h[c[x]] = f[x] + g[c[x]]
    <3>1. PICK U : U = {y \in T : c[y] = c[x]}
      OBVIOUS
    <3>2. {y \in T \cup {x} : c[y] = c[x]} = U \cup {x} /\ x \notin U
      BY <1>2, <3>1
    <3>3. IsFiniteSet(U) /\ \A y \in U \cup {x} : f[y] \in Int
      BY <2>2, <3>1
    <3>4. SumFunctionOnSet(f, U \cup {x}) = f[x] + SumFunctionOnSet(f, U)
      BY <3>2, <3>3, SomaPoe
    <3>5. c[x] \in K
      OBVIOUS
    <3>6. h[c[x]] = SumFunctionOnSet(f, U \cup {x})
      BY <2>1, <3>2, <3>5
    <3> QED BY <2>3, <3>1, <3>4, <3>5, <3>6
  <2>0. PICK z \in K : z = c[x]
    OBVIOUS
  <2>6. f[x] \in Int /\ g[z] \in Int /\ h[z] \in Int
    <3>1. f[x] \in Int
      OBVIOUS
    <3>2. g[z] \in Int
      BY <2>3
    <3>3. h[z] = f[x] + g[z]
      BY <2>0, <2>5
    <3> QED BY <3>1, <3>2, <3>3
  <2>7. \A k \in K : g[k] \in Int /\ h[k] \in Int /\ (k # z => g[k] = h[k])
    <3> SUFFICES ASSUME NEW k \in K PROVE g[k] \in Int /\ h[k] \in Int /\ (k # z => g[k] = h[k])
      OBVIOUS
    <3>1. CASE k = z
      BY <2>6, <3>1
    <3>2. CASE k # z
      BY <2>0, <2>3, <2>4, <3>2
    <3> QED BY <3>1, <3>2
  <2>8. SumFunctionOnSet(h, K) = SumFunctionOnSet(g, K) - g[z] + h[z]
    BY <2>7, SomaMuda
  <2>9. SumFunctionOnSet(g, K) \in Int
    BY <2>7, SomaTipo
  <2>10. SumFunctionOnSet(h, K) = f[x] + SumFunctionOnSet(g, K)
    BY <2>0, <2>5, <2>6, <2>8, <2>9
  <2>11. IsFiniteSet(T) /\ \A y \in T \cup {x} : f[y] \in Int
    BY FS_Subset
  <2>12. SumFunctionOnSet(f, T \cup {x}) = f[x] + SumFunctionOnSet(f, T)
    BY <1>2, <2>11, SomaPoe
  <2>13. SumFunctionOnSet(g, K) = SumFunctionOnSet(f, T)
    BY <1>2, <2>1
  <2> QED BY <2>1, <2>10, <2>12, <2>13
<1>3. S \in P
  <2> HIDE DEF P
  <2> QED BY <1>1, <1>2, Inducao
<1> QED BY <1>3

\* By rows or by columns
LEMMA SomaTroca ==
  ASSUME NEW S, IsFiniteSet(S), NEW T, IsFiniteSet(T), NEW m, \A x \in S, y \in T : m[x][y] \in Int
  PROVE  SumFunctionOnSet([x \in S |-> SumFunctionOnSet(m[x], T)], S)
         = SumFunctionOnSet([y \in T |-> SumFunctionOnSet([x \in S |-> m[x][y]], S)], T)
<1>1. PICK q : q = [y \in T |-> SumFunctionOnSet([x \in S |-> m[x][y]], S)]
  OBVIOUS
<1> DEFINE Linhas(U) == [x \in S |-> SumFunctionOnSet(m[x], U)]
<1> DEFINE P == {U \in SUBSET T : SumFunctionOnSet(Linhas(U), S) = SumFunctionOnSet(q, U)}
<1>2. \A y \in T : q[y] \in Int
  <2> SUFFICES ASSUME NEW y \in T PROVE q[y] \in Int
    OBVIOUS
  <2>1. PICK col : col = [x \in S |-> m[x][y]]
    OBVIOUS
  <2>2. SumFunctionOnSet(col, S) \in Int
    BY <2>1, SomaTipo
  <2> QED BY <1>1, <2>1, <2>2
<1>3. {} \in P
  <2>1. PICK g : g = Linhas({})
    OBVIOUS
  <2>2. SumFunctionOnSet(g, S) = 0
    BY <2>1, SomaVazia, SomaZero
  <2> QED BY <2>1, <2>2, SomaVazia
<1>4. ASSUME NEW U \in SUBSET T, NEW y \in T, U \in P, y \notin U PROVE U \cup {y} \in P
  <2>1. PICK g, h, col : g = Linhas(U) /\ h = Linhas(U \cup {y}) /\ col = [x \in S |-> m[x][y]]
    OBVIOUS
  <2>2. IsFiniteSet(U)
    BY FS_Subset
  <2>3. \A x \in S : SumFunctionOnSet(m[x], U \cup {y}) = m[x][y] + SumFunctionOnSet(m[x], U)
    BY <1>4, <2>2, SomaPoe
  <2>4. \A x \in S : SumFunctionOnSet(m[x], U) \in Int
    BY <2>2, SomaTipo
  <2>5. \A x \in S : g[x] \in Int /\ col[x] \in Int /\ h[x] = g[x] + col[x]
    <3> SUFFICES ASSUME NEW x \in S PROVE g[x] \in Int /\ col[x] \in Int /\ h[x] = g[x] + col[x]
      OBVIOUS
    <3>1. g[x] = SumFunctionOnSet(m[x], U) /\ h[x] = SumFunctionOnSet(m[x], U \cup {y}) /\ col[x] = m[x][y]
      BY <2>1
    <3>2. m[x][y] \in Int
      OBVIOUS
    <3>3. SumFunctionOnSet(m[x], U) \in Int
      BY <2>4
    <3>4. SumFunctionOnSet(m[x], U \cup {y}) = m[x][y] + SumFunctionOnSet(m[x], U)
      BY <2>3
    <3>5. m[x][y] + SumFunctionOnSet(m[x], U) = SumFunctionOnSet(m[x], U) + m[x][y]
      BY <3>2, <3>3
    <3> QED BY <3>1, <3>2, <3>3, <3>4, <3>5
  <2>6. SumFunctionOnSet(h, S) = SumFunctionOnSet(g, S) + SumFunctionOnSet(col, S)
    BY <2>5, SomaMais
  <2>7. SumFunctionOnSet(g, S) \in Int /\ SumFunctionOnSet(col, S) \in Int
    BY <2>5, SomaTipo
  <2>8. SumFunctionOnSet(q, U \cup {y}) = q[y] + SumFunctionOnSet(q, U)
    BY <1>2, <1>4, <2>2, SomaPoe
  <2>9. q[y] = SumFunctionOnSet(col, S)
    BY <1>1, <2>1
  <2>10. SumFunctionOnSet(g, S) = SumFunctionOnSet(q, U)
    BY <1>4, <2>1
  <2> QED BY <2>1, <2>6, <2>7, <2>8, <2>9, <2>10
<1>5. T \in P
  <2> HIDE DEF P
  <2> QED BY <1>3, <1>4, Inducao
<1> QED BY <1>1, <1>5

-----------------------------------------------------------------------------
(* Estoque *)

Quantidades == [x \in DocumentoEst |-> Quantidade(x)]

QuantidadesTipo ==
  /\ \A v \in VendaEst : Quantidades[v] = -vendaEst[v].qtd /\ vendaEst[v].qtd \in Nat
  /\ \A d \in DevolEst : Quantidades[d] = devolEst[d].qtd /\ devolEst[d].qtd \in Nat
  /\ \A r \in RecebEst : Quantidades[r] = QtdReceb

LEMMA QuantidadesDeTipo == TypeOKEstoque => QuantidadesTipo
<1> SUFFICES ASSUME TypeOKEstoque PROVE QuantidadesTipo
  OBVIOUS
<1>1. ASSUME NEW v \in VendaEst PROVE Quantidades[v] = -vendaEst[v].qtd /\ vendaEst[v].qtd \in Nat
  <2>1. vendaEst[v].qtd \in 0..MaxQtd
    BY DEF TypeOKEstoque, LinhaVendaEst
  <2> QED BY <2>1, ConstantesEstoque DEF Quantidades, Quantidade, DocumentoEst
<1>2. ASSUME NEW d \in DevolEst PROVE Quantidades[d] = devolEst[d].qtd /\ devolEst[d].qtd \in Nat
  <2>1. devolEst[d].qtd \in 0..MaxQtd
    BY DEF TypeOKEstoque, LinhaDevolEst
  <2>2. d \notin VendaEst /\ d \in DocumentoEst
    BY ConstantesEstoque DEF DocumentoEst
  <2> QED BY <2>1, <2>2, ConstantesEstoque DEF Quantidades, Quantidade
<1>3. ASSUME NEW r \in RecebEst PROVE Quantidades[r] = QtdReceb
  <2>1. r \notin VendaEst /\ r \notin DevolEst /\ r \in DocumentoEst
    BY ConstantesEstoque DEF DocumentoEst
  <2> QED BY <2>1 DEF Quantidades, Quantidade
<1> QED BY <1>1, <1>2, <1>3 DEF QuantidadesTipo

\* the total of the model is the sum of the quantities
LEMMA TotalSoma ==
  TypeOKEstoque =>
    \A D \in SUBSET DocumentoEst : IsFiniteSet(D) => Total(D) = SumFunctionOnSet(Quantidades, D)
<1> SUFFICES ASSUME TypeOKEstoque, NEW D \in SUBSET DocumentoEst, IsFiniteSet(D)
             PROVE  Total(D) = SumFunctionOnSet(Quantidades, D)
  OBVIOUS
<1>1. PICK q, f : q = Quantidades /\ f = [x \in D |-> Quantidade(x)]
  OBVIOUS
<1>2. \A x \in D : f[x] \in Int /\ f[x] = q[x]
  BY <1>1, QuantidadesDeTipo, ConstantesEstoque DEF Quantidades, QuantidadesTipo, DocumentoEst
<1>3. SumFunctionOnSet(f, D) = SumFunctionOnSet(q, D)
  BY <1>2, SomaIgual
<1>4. Total(D) = SumFunctionOnSet(f, D)
  BY <1>1 DEF Total, SumFunction
<1> QED BY <1>1, <1>3, <1>4

\* what came in to the store, and what will have when the import is written
Entradas(D) == D \cap (DevolEst \cup RecebEst)
Entrado == Total(entrada)
Previsto == Total(entrada \cup Entradas(carga.docs))

SomasEst ==
  /\ Entrado = SumFunctionOnSet(Quantidades, entrada)
  /\ carga # SemCarga =>
       /\ Previsto = SumFunctionOnSet(Quantidades, entrada \cup Entradas(carga.docs))
       /\ SaldoCom(carga.docs) = SaldoInicial + SumFunctionOnSet(Quantidades, carga.docs)
  /\ Movimento = -SumFunctionOnSet(Quantidades, Com("FINALIZADA"))
  /\ Reserva = -SumFunctionOnSet(Quantidades, Com("ABERTA"))
  /\ Fisico = SaldoInicial + SumFunctionOnSet(Quantidades, Com("FINALIZADA"))
              + SumFunctionOnSet(Quantidades, DevolEst) + SumFunctionOnSet(Quantidades, RecebEst)

LEMMA Finitos ==
  /\ IsFiniteSet(DocumentoEst)
  /\ \A D \in SUBSET DocumentoEst : IsFiniteSet(D)
<1>1. IsFiniteSet(DocumentoEst)
  <2>1. IsFiniteSet(VendaEst \cup DevolEst)
    BY ConstantesEstoque, FS_Union
  <2> QED BY <2>1, ConstantesEstoque, FS_Union DEF DocumentoEst
<1> QED BY <1>1, FS_Subset

\* an import in progress has the documents the Central had processed
LEMMA TiposDeCarga ==
  ASSUME NEW x \in Carga
  PROVE  /\ x # SemCarga <=> x.op \in {"resposta", "gravar"}
         /\ x # SemCarga => x.docs \in SUBSET DocumentoEst
         /\ x.op = "gravar" => x.valor \in Int
         /\ x.op \in {"nenhuma", "resposta", "gravar"}
  BY DEF Carga, SemCarga

LEMMA SomasDeTipo == TypeOKEstoque => SomasEst
<1> SUFFICES ASSUME TypeOKEstoque PROVE SomasEst
  OBVIOUS
<1>1. entrada \in SUBSET DocumentoEst
  BY DEF TypeOKEstoque, DocumentoEst
<1>2. Com("FINALIZADA") \in SUBSET DocumentoEst /\ Com("ABERTA") \in SUBSET DocumentoEst
  BY DEF Com, DocumentoEst
<1>3. DevolEst \in SUBSET DocumentoEst /\ RecebEst \in SUBSET DocumentoEst
  BY DEF DocumentoEst
<1>4. carga # SemCarga => carga.docs \in SUBSET DocumentoEst
  BY TiposDeCarga DEF TypeOKEstoque
<1>5. carga # SemCarga => entrada \cup Entradas(carga.docs) \in SUBSET DocumentoEst
  BY <1>1, <1>4 DEF Entradas
<1>6. Entrado = SumFunctionOnSet(Quantidades, entrada)
  BY <1>1, TotalSoma, Finitos DEF Entrado
<1>7. carga # SemCarga => /\ Previsto = SumFunctionOnSet(Quantidades, entrada \cup Entradas(carga.docs))
                          /\ SaldoCom(carga.docs) = SaldoInicial + SumFunctionOnSet(Quantidades, carga.docs)
  BY <1>4, <1>5, TotalSoma, Finitos DEF Previsto, SaldoCom
<1>8. Total(Com("FINALIZADA")) = SumFunctionOnSet(Quantidades, Com("FINALIZADA"))
      /\ Total(Com("ABERTA")) = SumFunctionOnSet(Quantidades, Com("ABERTA"))
  BY <1>2, TotalSoma, Finitos
<1>9. Total(DevolEst) = SumFunctionOnSet(Quantidades, DevolEst) /\ Total(RecebEst) = SumFunctionOnSet(Quantidades, RecebEst)
  BY <1>3, TotalSoma, Finitos
<1>10. SumFunctionOnSet(Quantidades, Com("FINALIZADA")) \in Int
  <2>1. \A x \in Com("FINALIZADA") : Quantidades[x] \in Int
    BY QuantidadesDeTipo DEF QuantidadesTipo, Com
  <2> QED BY <1>2, <2>1, Finitos, SomaTipo
<1>11. Fisico = SaldoInicial + SumFunctionOnSet(Quantidades, Com("FINALIZADA"))
                + SumFunctionOnSet(Quantidades, DevolEst) + SumFunctionOnSet(Quantidades, RecebEst)
  <2>1. Fisico = SaldoInicial - (-SumFunctionOnSet(Quantidades, Com("FINALIZADA")))
                 + SumFunctionOnSet(Quantidades, DevolEst) + SumFunctionOnSet(Quantidades, RecebEst)
    BY <1>8, <1>9 DEF Fisico, Movimento
  <2>2. SaldoInicial - (-SumFunctionOnSet(Quantidades, Com("FINALIZADA")))
        = SaldoInicial + SumFunctionOnSet(Quantidades, Com("FINALIZADA"))
    BY <1>10, ConstantesEstoque
  <2> QED BY <2>1, <2>2
<1> QED BY <1>6, <1>7, <1>8, <1>11 DEF SomasEst, Movimento, Reserva

LEMMA SomasDepois == (TypeOKEstoque => SomasEst /\ QuantidadesTipo)'
<1>1. TypeOKEstoque => SomasEst /\ QuantidadesTipo
  BY SomasDeTipo, QuantidadesDeTipo
<1> QED BY <1>1, PTL

-----------------------------------------------------------------------------
LEMMA TotalInteiro ==
  ASSUME TypeOKEstoque, NEW D \in SUBSET DocumentoEst
  PROVE  SumFunctionOnSet(Quantidades, D) \in Int /\ \A x \in D : Quantidades[x] \in Int
<1>1. \A x \in D : Quantidades[x] \in Int
  BY QuantidadesDeTipo, ConstantesEstoque DEF QuantidadesTipo, DocumentoEst
<1> QED BY <1>1, Finitos, SomaTipo

\* the steps of a sale keep the types
LEMMA TipoVendaEst ==
  ASSUME TypeOKEstoque, NEW v \in VendaEst, VendaStep(v)
  PROVE  TypeOKEstoque'
<1> USE ConstantesEstoque DEF TypeOKEstoque
<1>1. ASSUME NEW q \in Qtd, AdicionarItem(v, q) PROVE TypeOKEstoque'
  BY <1>1 DEF AdicionarItem, LinhaVendaEst, Qtd
<1>2. ASSUME NEW q \in Qtd, AlterarQuantidade(v, q) PROVE TypeOKEstoque'
  BY <1>2 DEF AlterarQuantidade, LinhaVendaEst, Qtd
<1>3. ASSUME RemoverItem(v) PROVE TypeOKEstoque'
  BY <1>3 DEF RemoverItem, LinhaVendaEst
<1>4. ASSUME CancelarVendaEst(v) PROVE TypeOKEstoque'
  BY <1>4 DEF CancelarVendaEst, LinhaVendaEst
<1>5. ASSUME FinalizarVendaEst(v) PROVE TypeOKEstoque'
  BY <1>5 DEF FinalizarVendaEst, LinhaVendaEst
<1> QED BY <1>1, <1>2, <1>3, <1>4, <1>5 DEF VendaStep

LEMMA TipoDevolEst ==
  ASSUME TypeOKEstoque, NEW d \in DevolEst, DevolStep(d)
  PROVE  TypeOKEstoque'
<1> USE ConstantesEstoque DEF TypeOKEstoque, DocumentoEst
<1>1. ASSUME NEW v \in VendaEst, NEW q \in Qtd, DevolverLocal(d, v, q) PROVE TypeOKEstoque'
  <2>1. [tipo |-> "LOCAL", venda |-> v, qtd |-> q] \in LinhaDevolEst /\ q \in Int
    BY DEF LinhaDevolEst, Qtd
  <2> QED BY <1>1, <2>1 DEF DevolverLocal
<1>2. ASSUME NEW v \in VendaEst, NEW q \in Qtd, DevolverOnline(d, v, q) PROVE TypeOKEstoque'
  <2>1. [tipo |-> "ONLINE", venda |-> v, qtd |-> q] \in LinhaDevolEst
    BY DEF LinhaDevolEst, Qtd
  <2> QED BY <1>2, <2>1 DEF DevolverOnline
<1>3. ASSUME EspelharOnline(d) PROVE TypeOKEstoque'
  <2>1. devolEst[d].qtd \in Int
    BY DEF LinhaDevolEst
  <2> QED BY <1>3, <2>1 DEF EspelharOnline
<1> QED BY <1>1, <1>2, <1>3 DEF DevolStep

LEMMA TipoEventoEst ==
  ASSUME TypeOKEstoque, NEW x \in DocumentoEst, EnfileirarEst(x) \/ Outbox(x)
  PROVE  TypeOKEstoque'
<1> USE ConstantesEstoque DEF TypeOKEstoque, StatusEventoEst
<1>1. ASSUME EnfileirarEst(x) PROVE TypeOKEstoque'
  BY <1>1 DEF EnfileirarEst
<1>2. ASSUME CentralProcessaEst(x) PROVE TypeOKEstoque'
  BY <1>2 DEF CentralProcessaEst
<1>3. ASSUME RecusarEst(x) PROVE TypeOKEstoque'
  BY <1>3 DEF RecusarEst
<1>4. ASSUME ConfirmarEst(x) PROVE TypeOKEstoque'
  <2>1. CASE x \in RecebEst
    <3>1. saldo' = saldo + QtdReceb /\ vendavel' = (saldo + QtdReceb > 0) /\ entrada' = entrada \cup {x}
      BY <1>4, <2>1 DEF ConfirmarEst
    <3>2. UNCHANGED <<vendaEst, devolEst, central, carga>> /\ eventoEst' = [eventoEst EXCEPT ![x] = "SINCRONIZADO"]
      BY <1>4 DEF ConfirmarEst
    <3> QED BY <2>1, <3>1, <3>2
  <2>2. CASE x \notin RecebEst
    BY <1>4, <2>2 DEF ConfirmarEst
  <2> QED BY <2>1, <2>2
<1> QED BY <1>1, <1>2, <1>3, <1>4 DEF Outbox

LEMMA TipoCatalogo ==
  ASSUME TypeOKEstoque, Catalogo
  PROVE  TypeOKEstoque'
<1> USE DEF TypeOKEstoque
<1>1. ASSUME PedirCatalogo PROVE TypeOKEstoque'
  <2>1. [op |-> "resposta", docs |-> central] \in Carga
    BY DEF Carga
  <2> QED BY <1>1, <2>1 DEF PedirCatalogo
<1>2. ASSUME LerCatalogo PROVE TypeOKEstoque'
  <2>1. carga # SemCarga /\ carga.docs \in SUBSET DocumentoEst
    BY <1>2, TiposDeCarga DEF LerCatalogo
  <2>2. SaldoCom(carga.docs) = SaldoInicial + SumFunctionOnSet(Quantidades, carga.docs)
    BY <2>1, SomasDeTipo DEF SomasEst
  <2>3. SaldoCom(carga.docs) \in Int
    BY <2>1, <2>2, TotalInteiro, ConstantesEstoque
  <2>4. PICK n : n = IF ExistePendente THEN saldo ELSE SaldoCom(carga.docs)
    OBVIOUS
  <2>5. n \in Int
    BY <2>3, <2>4
  <2>6. [op |-> "gravar", docs |-> carga.docs, valor |-> n] \in Carga
    BY <2>1, <2>5 DEF Carga
  <2> QED BY <1>2, <2>4, <2>6 DEF LerCatalogo
<1>3. ASSUME GravarCatalogo PROVE TypeOKEstoque'
  <2>1. carga.valor \in Int
    BY <1>3, TiposDeCarga DEF GravarCatalogo
  <2>2. SemCarga \in Carga
    BY DEF Carga
  <2> QED BY <1>3, <2>1, <2>2 DEF GravarCatalogo
<1> QED BY <1>1, <1>2, <1>3 DEF Catalogo

LEMMA TipoPassoEst == TypeOKEstoque /\ [NextEstoque]_varsEstoque => TypeOKEstoque'
<1> SUFFICES ASSUME TypeOKEstoque, [NextEstoque]_varsEstoque PROVE TypeOKEstoque'
  OBVIOUS
<1>1. CASE UNCHANGED varsEstoque
  BY <1>1 DEF varsEstoque, TypeOKEstoque
<1>2. CASE NextEstoque
  BY <1>2, TipoVendaEst, TipoDevolEst, TipoEventoEst, TipoCatalogo DEF NextEstoque
<1> QED BY <1>1, <1>2

LEMMA TipoInicialEst == InitEstoque => TypeOKEstoque
  BY ConstantesEstoque DEF InitEstoque, TypeOKEstoque, LinhaVendaEst, LinhaDevolEst, StatusEventoEst, Carga,
     DocumentoEst

\* The balance is a number, the import in progress has documents of the store,
\* and every row has the values of its type.
THEOREM TipoEstoque == SpecEstoque => []TypeOKEstoque
<1> QED BY TipoInicialEst, TipoPassoEst, PTL DEF SpecEstoque

-----------------------------------------------------------------------------
(* Nothing is sold that is not there *)

\* a return that was not made has no units and is nowhere, a receipt enters the
\* balance with the confirmation of its event, an import answers with what the
\* Central has processed
Registros ==
  /\ \A d \in DevolEst : devolEst[d].tipo = "NENHUMA" =>
       d \notin entrada \cup central /\ devolEst[d].qtd = 0 /\ eventoEst[d] = "NENHUM"
  /\ \A r \in RecebEst : r \in entrada => eventoEst[r] = "SINCRONIZADO"
  /\ carga # SemCarga => carga.docs \subseteq central

\* the balance is never above what came in, nor is the one that an import writes
SaldoCoberto == saldo <= SaldoInicial + Entrado
CargaCoberta == carga.op = "gravar" => carga.valor <= SaldoInicial + Previsto

InvEstoque == TypeOKEstoque /\ Registros /\ SaldoCoberto /\ CargaCoberta /\ SemVendaAlem

LEMMA EntradoFica ==
  ASSUME TypeOKEstoque, TypeOKEstoque', entrada' = entrada,
         \A x \in entrada : Quantidades'[x] = Quantidades[x]
  PROVE  Entrado' = Entrado
<1>1. Entrado = SumFunctionOnSet(Quantidades, entrada)
  BY SomasDeTipo DEF SomasEst
<1>2. Entrado' = SumFunctionOnSet(Quantidades', entrada)
  BY SomasDepois DEF SomasEst
<1>3. entrada \in SUBSET DocumentoEst
  BY DEF TypeOKEstoque, DocumentoEst
<1>4. \A x \in entrada : Quantidades[x] \in Int /\ Quantidades[x] = Quantidades'[x]
  BY <1>3, TotalInteiro
<1>5. PICK q, p : q = Quantidades /\ p = Quantidades'
  OBVIOUS
<1>6. IsFiniteSet(entrada) /\ \A x \in entrada : q[x] \in Int /\ q[x] = p[x]
  BY <1>3, <1>4, <1>5, Finitos
<1>7. SumFunctionOnSet(q, entrada) = SumFunctionOnSet(p, entrada)
  BY <1>6, SomaIgual
<1> QED BY <1>1, <1>2, <1>5, <1>7

LEMMA EntradoCresce ==
  ASSUME TypeOKEstoque, TypeOKEstoque', NEW x \in DevolEst \cup RecebEst, x \notin entrada,
         entrada' = entrada \cup {x}, \A y \in entrada : Quantidades'[y] = Quantidades[y]
  PROVE  Entrado' = Entrado + Quantidades'[x] /\ Entrado \in Int /\ Quantidades'[x] \in Nat
<1>1. Entrado = SumFunctionOnSet(Quantidades, entrada)
  BY SomasDeTipo DEF SomasEst
<1>2. Entrado' = SumFunctionOnSet(Quantidades', entrada \cup {x})
  BY SomasDepois DEF SomasEst
<1>3. entrada \in SUBSET DocumentoEst
  BY DEF TypeOKEstoque, DocumentoEst
<1>4. \A y \in entrada : Quantidades[y] \in Int /\ Quantidades[y] = Quantidades'[y]
  BY <1>3, TotalInteiro
<1>5. PICK q, p : q = Quantidades /\ p = Quantidades'
  OBVIOUS
<1>6. IsFiniteSet(entrada) /\ \A y \in entrada : q[y] \in Int /\ q[y] = p[y]
  BY <1>3, <1>4, <1>5, Finitos
<1>7. SumFunctionOnSet(q, entrada) = SumFunctionOnSet(p, entrada) /\ SumFunctionOnSet(q, entrada) \in Int
  BY <1>6, SomaIgual, SomaTipo
<1>8. p[x] \in Nat
  BY <1>5, SomasDepois, ConstantesEstoque DEF QuantidadesTipo
<1>9. PICK E : E = entrada
  OBVIOUS
<1>10. x \notin E /\ IsFiniteSet(E) /\ \A y \in E \cup {x} : p[y] \in Int
  <2>1. \A y \in E : p[y] \in Int
    BY <1>6, <1>9
  <2> QED BY <1>6, <1>8, <1>9, <2>1
<1>11. SumFunctionOnSet(p, E \cup {x}) = p[x] + SumFunctionOnSet(p, E)
  BY <1>10, SomaPoe
<1> QED BY <1>1, <1>2, <1>5, <1>7, <1>8, <1>9, <1>11

LEMMA PrevistoNaoDesce ==
  ASSUME TypeOKEstoque, TypeOKEstoque', carga' = carga, carga # SemCarga, entrada \subseteq entrada',
         \A x \in entrada \cup Entradas(carga.docs) : Quantidades'[x] = Quantidades[x]
  PROVE  Previsto <= Previsto' /\ Previsto \in Int /\ Previsto' \in Int
<1>1. PICK D : D = entrada \cup Entradas(carga.docs)
  OBVIOUS
<1>2. PICK E : E = entrada' \cup Entradas(carga.docs)
  OBVIOUS
<1>3. Previsto = SumFunctionOnSet(Quantidades, D)
  BY <1>1, SomasDeTipo DEF SomasEst
<1>4. Previsto' = SumFunctionOnSet(Quantidades', E)
  BY <1>2, SomasDepois DEF SomasEst, Entradas
<1>5. D \in SUBSET DocumentoEst /\ E \in SUBSET DocumentoEst /\ D \subseteq E
      /\ E \subseteq DevolEst \cup RecebEst
  BY <1>1, <1>2 DEF TypeOKEstoque, DocumentoEst, Entradas
<1>6. PICK q, p : q = Quantidades /\ p = Quantidades'
  OBVIOUS
<1>7. \A x \in D : q[x] \in Int /\ q[x] = p[x]
  BY <1>1, <1>5, <1>6, TotalInteiro
<1>8. \A x \in E : p[x] \in Nat
  BY <1>5, <1>6, SomasDepois, ConstantesEstoque DEF QuantidadesTipo
<1>9. IsFiniteSet(D) /\ IsFiniteSet(E)
  BY <1>5, Finitos
<1>10. SumFunctionOnSet(q, D) = SumFunctionOnSet(p, D)
  BY <1>7, <1>9, SomaIgual
<1>11. SumFunctionOnSet(p, D) <= SumFunctionOnSet(p, E)
  BY <1>5, <1>8, <1>9, SomaDaParte
<1>12. SumFunctionOnSet(q, D) \in Int /\ SumFunctionOnSet(p, E) \in Int
  BY <1>7, <1>8, <1>9, SomaTipo
<1> QED BY <1>3, <1>4, <1>6, <1>10, <1>11, <1>12

\* a step that leaves the sales alone and takes back no return
LEMMA FisicoNaoDesce ==
  ASSUME TypeOKEstoque, TypeOKEstoque', vendaEst' = vendaEst,
         \A d \in DevolEst : Quantidades[d] <= Quantidades'[d]
  PROVE  Fisico <= Fisico' /\ Fisico \in Int /\ Fisico' \in Int
<1>1. PICK F : F = Com("FINALIZADA")
  OBVIOUS
<1>2. Com("FINALIZADA")' = F
  BY <1>1 DEF Com
<1>3. PICK q, p : q = Quantidades /\ p = Quantidades'
  OBVIOUS
<1>4. Fisico = SaldoInicial + SumFunctionOnSet(q, F) + SumFunctionOnSet(q, DevolEst) + SumFunctionOnSet(q, RecebEst)
  BY <1>1, <1>3, SomasDeTipo DEF SomasEst
<1>5. Fisico' = SaldoInicial + SumFunctionOnSet(p, F) + SumFunctionOnSet(p, DevolEst) + SumFunctionOnSet(p, RecebEst)
  BY <1>2, <1>3, SomasDepois DEF SomasEst
<1>6. F \in SUBSET VendaEst /\ IsFiniteSet(F)
  BY <1>1, ConstantesEstoque, FS_Subset DEF Com
<1>7. /\ \A x \in F : q[x] \in Int /\ q[x] = p[x]
      /\ \A d \in DevolEst : q[d] \in Int /\ p[d] \in Int /\ q[d] <= p[d]
      /\ \A r \in RecebEst : q[r] \in Int /\ q[r] = p[r]
  BY <1>3, <1>6, QuantidadesDeTipo, SomasDepois, ConstantesEstoque DEF QuantidadesTipo
<1>8. SumFunctionOnSet(q, F) = SumFunctionOnSet(p, F) /\ SumFunctionOnSet(q, F) \in Int
  BY <1>6, <1>7, SomaIgual, SomaTipo
<1>9. SumFunctionOnSet(q, DevolEst) <= SumFunctionOnSet(p, DevolEst)
      /\ SumFunctionOnSet(q, DevolEst) \in Int /\ SumFunctionOnSet(p, DevolEst) \in Int
  BY <1>7, ConstantesEstoque, SomaMenor, SomaTipo
<1>10. SumFunctionOnSet(q, RecebEst) = SumFunctionOnSet(p, RecebEst) /\ SumFunctionOnSet(q, RecebEst) \in Int
  BY <1>7, ConstantesEstoque, SomaIgual, SomaTipo
<1>11. SaldoInicial \in Int
  BY ConstantesEstoque
<1> QED BY <1>4, <1>5, <1>8, <1>9, <1>10, <1>11

\* what came in is part of what all returns and receipts bring
LEMMA EntradoParte ==
  ASSUME TypeOKEstoque
  PROVE  /\ Fisico = SaldoInicial - Movimento + SumFunctionOnSet(Quantidades, DevolEst \cup RecebEst)
         /\ Entrado <= SumFunctionOnSet(Quantidades, DevolEst \cup RecebEst)
         /\ SumFunctionOnSet(Quantidades, DevolEst \cup RecebEst) \in Int /\ Movimento \in Int /\ Entrado \in Int
<1>1. PICK q : q = Quantidades
  OBVIOUS
<1>2. \A x \in DevolEst \cup RecebEst : q[x] \in Nat
  BY <1>1, QuantidadesDeTipo, ConstantesEstoque DEF QuantidadesTipo
<1>3. DevolEst \cap RecebEst = {} /\ IsFiniteSet(DevolEst \cup RecebEst)
  BY ConstantesEstoque, FS_Union
<1>4. SumFunctionOnSet(q, DevolEst \cup RecebEst) = SumFunctionOnSet(q, DevolEst) + SumFunctionOnSet(q, RecebEst)
  BY <1>2, <1>3, ConstantesEstoque, SomaUniao
<1>5. SumFunctionOnSet(q, DevolEst) \in Int /\ SumFunctionOnSet(q, RecebEst) \in Int
      /\ SumFunctionOnSet(q, DevolEst \cup RecebEst) \in Int
  BY <1>2, <1>3, ConstantesEstoque, SomaTipo
<1>6. PICK m : m = SumFunctionOnSet(q, Com("FINALIZADA"))
  OBVIOUS
<1>7. m \in Int
  <2>1. Com("FINALIZADA") \in SUBSET DocumentoEst
    BY DEF Com, DocumentoEst
  <2> QED BY <1>1, <1>6, <2>1, TotalInteiro
<1>8. Movimento = -m /\ Fisico = SaldoInicial + m + SumFunctionOnSet(q, DevolEst) + SumFunctionOnSet(q, RecebEst)
  BY <1>1, <1>6, SomasDeTipo DEF SomasEst
<1>9. entrada \subseteq DevolEst \cup RecebEst
  BY DEF TypeOKEstoque
<1>10. SumFunctionOnSet(q, entrada) <= SumFunctionOnSet(q, DevolEst \cup RecebEst)
  BY <1>2, <1>3, <1>9, SomaDaParte
<1>11. Entrado = SumFunctionOnSet(q, entrada)
  BY <1>1, SomasDeTipo DEF SomasEst
<1>12. Entrado \in Int
  BY <1>1, <1>9, <1>11, TotalInteiro DEF DocumentoEst
<1>13. SaldoInicial \in Int
  BY ConstantesEstoque
<1> QED BY <1>1, <1>4, <1>5, <1>7, <1>8, <1>10, <1>11, <1>12, <1>13

LEMMA SaldosFicam ==
  ASSUME InvEstoque, TypeOKEstoque', saldo' = saldo, devolEst' = devolEst, entrada' = entrada, carga' = carga
  PROVE  SaldoCoberto' /\ CargaCoberta'
<1>1. \A x \in DevolEst \cup RecebEst : Quantidades'[x] = Quantidades[x]
  BY QuantidadesDeTipo, SomasDepois DEF QuantidadesTipo, InvEstoque
<1>2. entrada \cup Entradas(carga.docs) \subseteq DevolEst \cup RecebEst
  BY DEF InvEstoque, TypeOKEstoque, Entradas
<1>3. Entrado' = Entrado
  BY <1>1, <1>2, EntradoFica DEF InvEstoque
<1>4. SaldoCoberto'
  BY <1>3 DEF InvEstoque, SaldoCoberto
<1>5. ASSUME carga.op = "gravar" PROVE carga.valor <= SaldoInicial + Previsto'
  <2>1. carga # SemCarga /\ carga.valor \in Int
    BY <1>5, TiposDeCarga DEF InvEstoque, TypeOKEstoque
  <2>2. Previsto <= Previsto' /\ Previsto \in Int /\ Previsto' \in Int
    BY <1>1, <1>2, <2>1, PrevistoNaoDesce DEF InvEstoque
  <2>3. carga.valor <= SaldoInicial + Previsto
    BY <1>5 DEF InvEstoque, CargaCoberta
  <2> QED BY <2>1, <2>2, <2>3, ConstantesEstoque
<1>6. CargaCoberta'
  BY <1>5 DEF CargaCoberta
<1> QED BY <1>4, <1>6

\* of the sales, only those concluded took anything away
LEMMA FisicoDeVenda ==
  ASSUME TypeOKEstoque, TypeOKEstoque', devolEst' = devolEst,
         \A v \in VendaEst : /\ vendaEst'[v].status = "FINALIZADA" <=> vendaEst[v].status = "FINALIZADA"
                             /\ vendaEst[v].status = "FINALIZADA" => vendaEst'[v].qtd = vendaEst[v].qtd
  PROVE  Fisico' = Fisico
<1>1. PICK F : F = Com("FINALIZADA")
  OBVIOUS
<1>2. Com("FINALIZADA")' = F
  BY <1>1 DEF Com
<1>3. PICK q, p : q = Quantidades /\ p = Quantidades'
  OBVIOUS
<1>4. Fisico = SaldoInicial + SumFunctionOnSet(q, F) + SumFunctionOnSet(q, DevolEst) + SumFunctionOnSet(q, RecebEst)
  BY <1>1, <1>3, SomasDeTipo DEF SomasEst
<1>5. Fisico' = SaldoInicial + SumFunctionOnSet(p, F) + SumFunctionOnSet(p, DevolEst) + SumFunctionOnSet(p, RecebEst)
  BY <1>2, <1>3, SomasDepois DEF SomasEst
<1>6. F \in SUBSET VendaEst /\ IsFiniteSet(F)
  BY <1>1, ConstantesEstoque, FS_Subset DEF Com
<1>7. \A x \in F \cup DevolEst \cup RecebEst : q[x] \in Int /\ q[x] = p[x]
  <2>1. \A x \in F : vendaEst'[x].qtd = vendaEst[x].qtd
    BY <1>1 DEF Com
  <2> QED BY <1>3, <1>6, <2>1, QuantidadesDeTipo, SomasDepois, ConstantesEstoque DEF QuantidadesTipo
<1>8. /\ SumFunctionOnSet(q, F) = SumFunctionOnSet(p, F)
      /\ SumFunctionOnSet(q, DevolEst) = SumFunctionOnSet(p, DevolEst)
      /\ SumFunctionOnSet(q, RecebEst) = SumFunctionOnSet(p, RecebEst)
  BY <1>6, <1>7, ConstantesEstoque, SomaIgual
<1> QED BY <1>4, <1>5, <1>8

\* what the other open sales reserve is not negative
LEMMA ReservaDosOutros ==
  ASSUME TypeOKEstoque, NEW v \in Com("ABERTA")
  PROVE  vendaEst[v].qtd <= Reserva /\ Reserva \in Int
<1>1. PICK A : A = Com("ABERTA")
  OBVIOUS
<1>2. PICK q : q = Quantidades
  OBVIOUS
<1>3. A \in SUBSET VendaEst /\ IsFiniteSet(A) /\ v \in A /\ A \ {v} \subseteq A
  BY <1>1, ConstantesEstoque, FS_Subset DEF Com
<1>4. \A x \in A : q[x] \in Int /\ q[x] <= 0
  BY <1>2, <1>3, QuantidadesDeTipo DEF QuantidadesTipo
<1>5. PICK z : z = [x \in A |-> 0]
  OBVIOUS
<1>6. IsFiniteSet(A \ {v})
  BY <1>3, FS_Subset
<1>7. SumFunctionOnSet(q, A \ {v}) <= SumFunctionOnSet(z, A \ {v}) /\ SumFunctionOnSet(z, A \ {v}) = 0
  BY <1>4, <1>5, <1>6, SomaMenor, SomaZero
<1>8. SumFunctionOnSet(q, A) = q[v] + SumFunctionOnSet(q, A \ {v})
  BY <1>3, <1>4, SomaTira
<1>9. SumFunctionOnSet(q, A \ {v}) \in Int
  BY <1>4, <1>6, SomaTipo
<1>10. Reserva = -SumFunctionOnSet(q, A)
  BY <1>1, <1>2, SomasDeTipo DEF SomasEst
<1>11. q[v] = -vendaEst[v].qtd /\ vendaEst[v].qtd \in Int
  BY <1>2, <1>3, QuantidadesDeTipo DEF QuantidadesTipo
<1> QED BY <1>7, <1>8, <1>9, <1>10, <1>11

LEMMA FisicoFinaliza ==
  ASSUME InvEstoque, TypeOKEstoque', NEW v \in VendaEst, FinalizarVendaEst(v)
  PROVE  SemVendaAlem'
<1> USE DEF FinalizarVendaEst
<1>1. PICK F : F = Com("FINALIZADA")
  OBVIOUS
<1>2. Com("FINALIZADA")' = F \cup {v} /\ v \notin F
  BY <1>1 DEF Com, InvEstoque, TypeOKEstoque
<1>3. PICK q, p : q = Quantidades /\ p = Quantidades'
  OBVIOUS
<1>4. Fisico = SaldoInicial + SumFunctionOnSet(q, F) + SumFunctionOnSet(q, DevolEst) + SumFunctionOnSet(q, RecebEst)
  BY <1>1, <1>3, SomasDeTipo DEF SomasEst, InvEstoque
<1>5. Fisico' = SaldoInicial + SumFunctionOnSet(p, F \cup {v}) + SumFunctionOnSet(p, DevolEst) + SumFunctionOnSet(p, RecebEst)
  BY <1>2, <1>3, SomasDepois DEF SomasEst
<1>6. F \in SUBSET VendaEst /\ IsFiniteSet(F)
  BY <1>1, ConstantesEstoque, FS_Subset DEF Com
<1>7. \A x \in VendaEst \cup DevolEst \cup RecebEst : q[x] \in Int /\ q[x] = p[x]
  <2>1. \A x \in VendaEst : vendaEst'[x].qtd = vendaEst[x].qtd
    BY DEF InvEstoque, TypeOKEstoque
  <2> QED BY <1>3, <2>1, QuantidadesDeTipo, SomasDepois, ConstantesEstoque DEF QuantidadesTipo, InvEstoque
<1>8. /\ SumFunctionOnSet(q, F) = SumFunctionOnSet(p, F)
      /\ SumFunctionOnSet(q, DevolEst) = SumFunctionOnSet(p, DevolEst)
      /\ SumFunctionOnSet(q, RecebEst) = SumFunctionOnSet(p, RecebEst)
  BY <1>6, <1>7, ConstantesEstoque, SomaIgual
<1>9. SumFunctionOnSet(p, F \cup {v}) = p[v] + SumFunctionOnSet(p, F)
  BY <1>2, <1>6, <1>7, SomaPoe
<1>10. SumFunctionOnSet(q, F) \in Int /\ SumFunctionOnSet(q, DevolEst) \in Int /\ SumFunctionOnSet(q, RecebEst) \in Int
  BY <1>6, <1>7, ConstantesEstoque, SomaTipo
<1>11. PICK n : n = vendaEst[v].qtd
  OBVIOUS
<1>12. p[v] = -n /\ n \in Nat
  BY <1>3, <1>7, <1>11, QuantidadesDeTipo DEF QuantidadesTipo, InvEstoque
<1>13. n <= Reserva /\ Reserva \in Int
  BY <1>11, ReservaDosOutros DEF Com, InvEstoque
<1>14. n <= saldo - Movimento - (Reserva - n)
  BY <1>11 DEF DisponivelSem
<1>15. PICK T : T = SumFunctionOnSet(q, DevolEst \cup RecebEst)
  OBVIOUS
<1>16. /\ Fisico = SaldoInicial - Movimento + T
       /\ Entrado <= T
       /\ T \in Int /\ Movimento \in Int /\ Entrado \in Int
  BY <1>3, <1>15, EntradoParte DEF InvEstoque
<1>17. saldo <= SaldoInicial + Entrado /\ saldo \in Int /\ SaldoInicial \in Int
  BY ConstantesEstoque DEF InvEstoque, SaldoCoberto, TypeOKEstoque
<1>18. Fisico' = Fisico - n
  BY <1>4, <1>5, <1>8, <1>9, <1>10, <1>12, <1>17
<1>19. Movimento + n <= saldo
  BY <1>12, <1>13, <1>14, <1>16, <1>17
<1> QED BY <1>12, <1>16, <1>17, <1>18, <1>19 DEF SemVendaAlem

-----------------------------------------------------------------------------
LEMMA PassoVendaEst ==
  ASSUME InvEstoque, TypeOKEstoque', NEW v \in VendaEst, VendaStep(v)
  PROVE  InvEstoque'
<1>1. /\ UNCHANGED <<saldo, devolEst, eventoEst, entrada, central, carga>>
      /\ vendaEst[v].status = "ABERTA"
      /\ \A w \in VendaEst \ {v} : vendaEst'[w] = vendaEst[w]
  BY DEF VendaStep, AdicionarItem, AlterarQuantidade, RemoverItem, CancelarVendaEst, FinalizarVendaEst,
     InvEstoque, TypeOKEstoque
<1>2. SaldoCoberto' /\ CargaCoberta'
  BY <1>1, SaldosFicam
<1>3. Registros'
  BY <1>1 DEF InvEstoque, Registros
<1>4. CASE FinalizarVendaEst(v)
  BY <1>2, <1>3, <1>4, FisicoFinaliza DEF InvEstoque
<1>5. CASE ~FinalizarVendaEst(v)
  <2>1. vendaEst'[v].status # "FINALIZADA"
    BY <1>5 DEF VendaStep, AdicionarItem, AlterarQuantidade, RemoverItem, CancelarVendaEst, InvEstoque,
       TypeOKEstoque, LinhaVendaEst
  <2>2. Fisico' = Fisico
    BY <1>1, <2>1, FisicoDeVenda DEF InvEstoque
  <2> QED BY <1>2, <1>3, <2>2 DEF InvEstoque, SemVendaAlem
<1> QED BY <1>4, <1>5

LEMMA PassoDevolEst ==
  ASSUME InvEstoque, TypeOKEstoque', NEW d \in DevolEst, DevolStep(d)
  PROVE  InvEstoque'
<1>0. d \in DevolEst \cup RecebEst /\ saldo \in Int /\ SaldoInicial \in Int
  BY ConstantesEstoque DEF InvEstoque, TypeOKEstoque
<1>c. carga.op = "gravar" => carga # SemCarga /\ carga.valor \in Int
  BY TiposDeCarga DEF InvEstoque, TypeOKEstoque
<1>e. entrada \cup Entradas(carga.docs) \subseteq DevolEst \cup RecebEst
  BY DEF InvEstoque, TypeOKEstoque, Entradas
<1>1. ASSUME NEW v \in VendaEst, NEW n \in Qtd, DevolverLocal(d, v, n) \/ DevolverOnline(d, v, n)
      PROVE  InvEstoque'
  <2>1. /\ d \notin entrada \cup central /\ devolEst[d].qtd = 0 /\ n \in Nat
        /\ vendaEst' = vendaEst /\ carga' = carga
        /\ devolEst'[d].qtd = n /\ devolEst'[d].tipo \in {"LOCAL", "ONLINE"}
        /\ \A x \in DevolEst \ {d} : devolEst'[x] = devolEst[x]
        /\ eventoEst' = eventoEst /\ central' \subseteq central \cup {d} /\ central \subseteq central'
    BY <1>1 DEF DevolverLocal, DevolverOnline, InvEstoque, Registros, TypeOKEstoque, Qtd
  <2>2. /\ \A x \in (DevolEst \cup RecebEst) \ {d} : Quantidades'[x] = Quantidades[x]
        /\ Quantidades[d] = 0 /\ Quantidades'[d] = n
        /\ \A x \in DevolEst : Quantidades[x] \in Int
    BY <2>1, QuantidadesDeTipo, SomasDepois DEF QuantidadesTipo, InvEstoque
  <2>3. \A x \in DevolEst : Quantidades[x] <= Quantidades'[x]
    BY <2>1, <2>2
  <2>4. SemVendaAlem'
    <3>1. Fisico <= Fisico' /\ Fisico \in Int /\ Fisico' \in Int
      BY <2>1, <2>3, FisicoNaoDesce DEF InvEstoque
    <3> QED BY <3>1 DEF InvEstoque, SemVendaAlem
  <2>5. carga.op = "gravar" => d \notin Entradas(carga.docs)
    BY <1>c, <2>1 DEF InvEstoque, Registros, Entradas
  <2>6. entrada \subseteq entrada' /\ entrada' \subseteq entrada \cup {d}
    BY <1>1 DEF DevolverLocal, DevolverOnline
  <2>7. CargaCoberta'
    <3>1. SUFFICES ASSUME carga.op = "gravar" PROVE carga.valor <= SaldoInicial + Previsto'
      BY <2>1 DEF CargaCoberta
    <3>2. \A x \in entrada \cup Entradas(carga.docs) : Quantidades'[x] = Quantidades[x]
      BY <1>e, <2>1, <2>2, <2>5, <3>1
    <3>3. Previsto <= Previsto' /\ Previsto \in Int /\ Previsto' \in Int
      BY <1>c, <2>1, <2>6, <3>1, <3>2, PrevistoNaoDesce DEF InvEstoque
    <3>4. carga.valor <= SaldoInicial + Previsto
      BY <3>1 DEF InvEstoque, CargaCoberta
    <3> QED BY <1>0, <1>c, <3>1, <3>3, <3>4
  <2>8. \A x \in entrada : Quantidades'[x] = Quantidades[x]
    BY <1>e, <2>1, <2>2
  <2>9. SaldoCoberto'
    <3>1. saldo <= SaldoInicial + Entrado
      BY DEF InvEstoque, SaldoCoberto
    <3>2. CASE DevolverLocal(d, v, n)
      <4>1. saldo' = saldo + n /\ entrada' = entrada \cup {d}
        BY <3>2 DEF DevolverLocal
      <4>2. Entrado' = Entrado + Quantidades'[d] /\ Entrado \in Int
        BY <1>0, <2>1, <2>8, <4>1, EntradoCresce DEF InvEstoque
      <4>3. saldo + n <= SaldoInicial + (Entrado + n)
        BY <1>0, <2>1, <3>1, <4>2
      <4> QED BY <2>2, <4>1, <4>2, <4>3 DEF SaldoCoberto
    <3>3. CASE DevolverOnline(d, v, n)
      <4>1. saldo' = saldo /\ entrada' = entrada
        BY <3>3 DEF DevolverOnline
      <4>2. Entrado' = Entrado
        BY <2>8, <4>1, EntradoFica DEF InvEstoque
      <4> QED BY <3>1, <4>1, <4>2 DEF SaldoCoberto
    <3> QED BY <1>1, <3>2, <3>3
  <2>10. Registros'
    BY <2>1, <2>6, ConstantesEstoque DEF InvEstoque, Registros
  <2> QED BY <2>4, <2>7, <2>9, <2>10 DEF InvEstoque
<1>2. ASSUME EspelharOnline(d) PROVE InvEstoque'
  <2>1. /\ devolEst[d].tipo = "ONLINE" /\ d \notin entrada
        /\ saldo' = saldo + devolEst[d].qtd /\ entrada' = entrada \cup {d}
        /\ UNCHANGED <<vendaEst, devolEst, eventoEst, central, carga>>
    BY <1>2 DEF EspelharOnline, NaoEspelhada
  <2>2. /\ \A x \in DevolEst \cup RecebEst : Quantidades'[x] = Quantidades[x]
        /\ Quantidades'[d] = devolEst[d].qtd /\ devolEst[d].qtd \in Nat
        /\ \A x \in DevolEst : Quantidades[x] \in Int
    BY <2>1, QuantidadesDeTipo, SomasDepois DEF QuantidadesTipo, InvEstoque
  <2>4. SemVendaAlem'
    <3>1. Fisico <= Fisico' /\ Fisico \in Int /\ Fisico' \in Int
      BY <2>1, <2>2, FisicoNaoDesce DEF InvEstoque
    <3> QED BY <3>1 DEF InvEstoque, SemVendaAlem
  <2>7. CargaCoberta'
    <3>1. SUFFICES ASSUME carga.op = "gravar" PROVE carga.valor <= SaldoInicial + Previsto'
      BY <2>1 DEF CargaCoberta
    <3>2. \A x \in entrada \cup Entradas(carga.docs) : Quantidades'[x] = Quantidades[x]
      BY <1>e, <2>2
    <3>3. Previsto <= Previsto' /\ Previsto \in Int /\ Previsto' \in Int
      BY <1>c, <2>1, <3>1, <3>2, PrevistoNaoDesce DEF InvEstoque
    <3>4. carga.valor <= SaldoInicial + Previsto
      BY <3>1 DEF InvEstoque, CargaCoberta
    <3> QED BY <1>0, <1>c, <3>1, <3>3, <3>4
  <2>9. SaldoCoberto'
    <3>1. saldo <= SaldoInicial + Entrado
      BY DEF InvEstoque, SaldoCoberto
    <3>2. \A x \in entrada : Quantidades'[x] = Quantidades[x]
      BY <1>e, <2>2
    <3>3. Entrado' = Entrado + Quantidades'[d] /\ Entrado \in Int
      BY <1>0, <2>1, <3>2, EntradoCresce DEF InvEstoque
    <3>4. saldo + devolEst[d].qtd <= SaldoInicial + (Entrado + devolEst[d].qtd)
      BY <1>0, <2>2, <3>1, <3>3
    <3> QED BY <2>1, <2>2, <3>3, <3>4 DEF SaldoCoberto
  <2>10. Registros'
    BY <2>1, ConstantesEstoque DEF InvEstoque, Registros
  <2> QED BY <2>4, <2>7, <2>9, <2>10 DEF InvEstoque
<1> QED BY <1>1, <1>2 DEF DevolStep

LEMMA PassoEventoEst ==
  ASSUME InvEstoque, TypeOKEstoque', NEW x \in DocumentoEst, EnfileirarEst(x) \/ Outbox(x)
  PROVE  InvEstoque'
<1>0. vendaEst' = vendaEst /\ devolEst' = devolEst /\ carga' = carga
  BY DEF Outbox, EnfileirarEst, CentralProcessaEst, RecusarEst, ConfirmarEst
<1>q. /\ \A y \in DevolEst \cup RecebEst : Quantidades'[y] = Quantidades[y]
      /\ \A y \in DevolEst : Quantidades[y] \in Int
      /\ \A y \in RecebEst : Quantidades'[y] = QtdReceb
  BY <1>0, QuantidadesDeTipo, SomasDepois DEF QuantidadesTipo, InvEstoque
<1>1. SemVendaAlem'
  <2>1. Fisico <= Fisico' /\ Fisico \in Int /\ Fisico' \in Int
    BY <1>0, <1>q, FisicoNaoDesce DEF InvEstoque
  <2> QED BY <2>1 DEF InvEstoque, SemVendaAlem
<1>2. CASE saldo' = saldo /\ entrada' = entrada
  <2>1. SaldoCoberto' /\ CargaCoberta'
    BY <1>0, <1>2, SaldosFicam
  <2>2. central \subseteq central'
    BY DEF Outbox, EnfileirarEst, CentralProcessaEst, RecusarEst, ConfirmarEst
  <2>3. \A d \in DevolEst : devolEst[d].tipo = "NENHUMA" => d \notin central'
    <3>1. ASSUME CentralProcessaEst(x), x \in DevolEst PROVE devolEst[x].tipo # "NENHUMA"
      BY <3>1 DEF CentralProcessaEst, Enviavel, InvEstoque, Registros
    <3> QED BY <3>1 DEF Outbox, EnfileirarEst, CentralProcessaEst, RecusarEst, ConfirmarEst, InvEstoque, Registros
  <2>t. eventoEst \in [DocumentoEst -> StatusEventoEst] /\ \A y \in DocumentoEst : y # x => eventoEst'[y] = eventoEst[y]
    BY DEF Outbox, EnfileirarEst, CentralProcessaEst, RecusarEst, ConfirmarEst, InvEstoque, TypeOKEstoque
  <2>x. \/ eventoEst'[x] = eventoEst[x]
        \/ eventoEst[x] = "NENHUM" /\ (x \in DevolEst => devolEst[x].tipo = "LOCAL")
        \/ eventoEst[x] = "PENDENTE"
    <3>1. ASSUME EnfileirarEst(x) PROVE x \in DevolEst => devolEst[x].tipo = "LOCAL"
      BY <3>1, ConstantesEstoque DEF EnfileirarEst, Com
    <3> QED BY <3>1 DEF Outbox, EnfileirarEst, CentralProcessaEst, RecusarEst, ConfirmarEst, Enviavel
  <2>4. \A r \in RecebEst : r \in entrada => eventoEst'[r] = "SINCRONIZADO"
    <3>1. SUFFICES ASSUME NEW r \in RecebEst, r \in entrada PROVE eventoEst'[r] = "SINCRONIZADO"
      OBVIOUS
    <3>2. eventoEst[r] = "SINCRONIZADO" /\ r \in DocumentoEst
      BY <3>1 DEF InvEstoque, Registros, DocumentoEst
    <3>3. r = x => eventoEst'[x] = eventoEst[x]
      BY <2>x, <3>2
    <3> QED BY <2>t, <3>2, <3>3
  <2>e. \A d \in DevolEst : devolEst[d].tipo = "NENHUMA" => eventoEst'[d] = "NENHUM"
    <3>1. SUFFICES ASSUME NEW d \in DevolEst, devolEst[d].tipo = "NENHUMA" PROVE eventoEst'[d] = "NENHUM"
      OBVIOUS
    <3>2. eventoEst[d] = "NENHUM" /\ d \in DocumentoEst
      BY <3>1 DEF InvEstoque, Registros, DocumentoEst
    <3>3. d = x => eventoEst'[x] = eventoEst[x]
      BY <2>x, <3>1, <3>2
    <3> QED BY <2>t, <3>2, <3>3
  <2>5. Registros'
    BY <1>0, <1>2, <2>2, <2>3, <2>4, <2>e DEF InvEstoque, Registros
  <2> QED BY <1>1, <2>1, <2>5 DEF InvEstoque
<1>3. CASE ConfirmarEst(x) /\ x \in RecebEst
  <2>1. /\ saldo' = saldo + QtdReceb /\ entrada' = entrada \cup {x} /\ central' = central
        /\ eventoEst[x] = "PENDENTE" /\ eventoEst' = [eventoEst EXCEPT ![x] = "SINCRONIZADO"]
    BY <1>3 DEF ConfirmarEst
  <2>2. x \notin entrada
    BY <1>3, <2>1 DEF InvEstoque, Registros
  <2>3. entrada \cup Entradas(carga.docs) \subseteq DevolEst \cup RecebEst
    BY DEF InvEstoque, TypeOKEstoque, Entradas
  <2>4. SaldoCoberto'
    <3>1. saldo <= SaldoInicial + Entrado /\ saldo \in Int
      BY DEF InvEstoque, SaldoCoberto, TypeOKEstoque
    <3>2. \A y \in entrada : Quantidades'[y] = Quantidades[y]
      BY <1>q, <2>3
    <3>3. Entrado' = Entrado + QtdReceb /\ Entrado \in Int
      BY <1>3, <1>q, <2>1, <2>2, <3>2, EntradoCresce DEF InvEstoque
    <3>4. saldo + QtdReceb <= SaldoInicial + (Entrado + QtdReceb)
      BY <3>1, <3>3, ConstantesEstoque
    <3> QED BY <2>1, <3>3, <3>4 DEF SaldoCoberto
  <2>5. CargaCoberta'
    <3>1. SUFFICES ASSUME carga.op = "gravar" PROVE carga.valor <= SaldoInicial + Previsto'
      BY <1>0 DEF CargaCoberta
    <3>2. carga # SemCarga /\ carga.valor \in Int
      BY <3>1, TiposDeCarga DEF InvEstoque, TypeOKEstoque
    <3>3. Previsto <= Previsto' /\ Previsto \in Int /\ Previsto' \in Int
      BY <1>0, <1>q, <2>1, <2>3, <3>2, PrevistoNaoDesce DEF InvEstoque
    <3>4. carga.valor <= SaldoInicial + Previsto
      BY <3>1 DEF InvEstoque, CargaCoberta
    <3> QED BY <3>2, <3>3, <3>4, ConstantesEstoque
  <2>6. Registros'
    BY <1>0, <1>3, <2>1, ConstantesEstoque DEF InvEstoque, Registros, TypeOKEstoque
  <2> QED BY <1>1, <2>4, <2>5, <2>6 DEF InvEstoque
<1> QED BY <1>2, <1>3 DEF Outbox, EnfileirarEst, CentralProcessaEst, RecusarEst, ConfirmarEst

\* what the Central knows is never above what came in, once it came in: the sales
\* only take away
LEMMA SaldoDaCentral ==
  ASSUME TypeOKEstoque, carga # SemCarga
  PROVE  SaldoCom(carga.docs) <= SaldoInicial + Previsto /\ Entrado <= Previsto /\ Previsto \in Int /\ Entrado \in Int
<1>1. PICK q : q = Quantidades
  OBVIOUS
<1>2. PICK D : D = carga.docs
  OBVIOUS
<1>3. D \in SUBSET DocumentoEst
  BY <1>2, TiposDeCarga DEF TypeOKEstoque
<1>4. PICK E : E = entrada \cup Entradas(D)
  OBVIOUS
<1>5. E \in SUBSET DocumentoEst /\ E \subseteq DevolEst \cup RecebEst /\ Entradas(D) \subseteq E /\ entrada \subseteq E
  BY <1>3, <1>4 DEF Entradas, DocumentoEst, TypeOKEstoque
<1>6. /\ \A x \in DocumentoEst : q[x] \in Int
      /\ \A x \in E : q[x] >= 0
      /\ \A x \in D \ Entradas(D) : q[x] <= 0
  <2>1. \A x \in DocumentoEst : q[x] \in Int
    BY <1>1, TotalInteiro
  <2>2. \A x \in E : q[x] >= 0
    BY <1>1, <1>5, QuantidadesDeTipo, ConstantesEstoque DEF QuantidadesTipo
  <2>3. \A x \in D \ Entradas(D) : x \in VendaEst
    BY <1>3 DEF Entradas, DocumentoEst
  <2>4. \A x \in VendaEst : q[x] <= 0
    BY <1>1, QuantidadesDeTipo DEF QuantidadesTipo
  <2> QED BY <2>1, <2>2, <2>3, <2>4
<1>7. IsFiniteSet(D) /\ IsFiniteSet(E) /\ Entradas(D) \subseteq D /\ IsFiniteSet(D \ Entradas(D))
  BY <1>3, <1>5, Finitos, FS_Subset DEF Entradas
<1>8. SumFunctionOnSet(q, D) = SumFunctionOnSet(q, Entradas(D)) + SumFunctionOnSet(q, D \ Entradas(D))
  BY <1>3, <1>6, <1>7, SomaDoResto
<1>9. SumFunctionOnSet(q, D \ Entradas(D)) <= 0 /\ SumFunctionOnSet(q, D \ Entradas(D)) \in Int
  <2>1. PICK z : z = [x \in D |-> 0]
    OBVIOUS
  <2>2. PICK R : R = D \ Entradas(D)
    OBVIOUS
  <2>3. \A x \in R : q[x] \in Int /\ z[x] \in Int /\ q[x] <= z[x] /\ z[x] = 0
    BY <1>3, <1>6, <2>1, <2>2
  <2>4. SumFunctionOnSet(q, R) <= SumFunctionOnSet(z, R) /\ SumFunctionOnSet(z, R) = 0 /\ SumFunctionOnSet(q, R) \in Int
    BY <1>7, <2>2, <2>3, SomaMenor, SomaZero, SomaTipo
  <2> QED BY <2>2, <2>4
<1>10. \A x \in E : q[x] \in Int
  BY <1>5, <1>6
<1>11. SumFunctionOnSet(q, Entradas(D)) <= SumFunctionOnSet(q, E) /\ SumFunctionOnSet(q, entrada) <= SumFunctionOnSet(q, E)
  BY <1>5, <1>6, <1>7, <1>10, SomaDaParte
<1>12. SumFunctionOnSet(q, E) \in Int /\ SumFunctionOnSet(q, Entradas(D)) \in Int /\ SumFunctionOnSet(q, entrada) \in Int
  <2>1. IsFiniteSet(entrada) /\ IsFiniteSet(Entradas(D))
    BY <1>5, <1>7, FS_Subset
  <2> QED BY <1>5, <1>7, <1>10, <2>1, SomaTipo
<1>13. /\ Previsto = SumFunctionOnSet(q, E) /\ Entrado = SumFunctionOnSet(q, entrada)
       /\ SaldoCom(carga.docs) = SaldoInicial + SumFunctionOnSet(q, D)
  BY <1>1, <1>2, <1>4, SomasDeTipo DEF SomasEst
<1>14. SaldoInicial \in Int
  BY ConstantesEstoque
<1> QED BY <1>8, <1>9, <1>11, <1>12, <1>13, <1>14

LEMMA PassoCatalogo ==
  ASSUME ~CargaDurante, InvEstoque, TypeOKEstoque', Catalogo
  PROVE  InvEstoque'
<1>0. vendaEst' = vendaEst /\ devolEst' = devolEst /\ eventoEst' = eventoEst /\ entrada' = entrada /\ central' = central
  BY DEF Catalogo, PedirCatalogo, LerCatalogo, GravarCatalogo
<1>q. /\ \A y \in DevolEst \cup RecebEst : Quantidades'[y] = Quantidades[y]
      /\ \A y \in DevolEst : Quantidades[y] \in Int
  BY <1>0, QuantidadesDeTipo, SomasDepois DEF QuantidadesTipo, InvEstoque
<1>e. entrada \cup Entradas(carga.docs) \subseteq DevolEst \cup RecebEst
  BY DEF InvEstoque, TypeOKEstoque, Entradas
<1>1. SemVendaAlem'
  <2>1. Fisico <= Fisico' /\ Fisico \in Int /\ Fisico' \in Int
    BY <1>0, <1>q, FisicoNaoDesce DEF InvEstoque
  <2> QED BY <2>1 DEF InvEstoque, SemVendaAlem
<1>2. Entrado' = Entrado
  BY <1>0, <1>q, <1>e, EntradoFica DEF InvEstoque
<1>3. CASE PedirCatalogo
  <2>1. saldo' = saldo /\ carga'.op = "resposta" /\ carga'.docs = central
    BY <1>3 DEF PedirCatalogo
  <2> QED BY <1>0, <1>1, <1>2, <2>1 DEF InvEstoque, Registros, SaldoCoberto, CargaCoberta
<1>4. CASE LerCatalogo
  <2>1. /\ saldo' = saldo /\ carga # SemCarga /\ carga'.op = "gravar" /\ carga'.docs = carga.docs
        /\ carga'.valor \in {saldo, SaldoCom(carga.docs)}
    BY <1>4, TiposDeCarga DEF LerCatalogo, InvEstoque, TypeOKEstoque
  <2>2. carga' # SemCarga
    BY <2>1, TiposDeCarga DEF TypeOKEstoque
  <2>3. Previsto' = Previsto
    <3>1. PICK E : E = entrada \cup Entradas(carga.docs)
      OBVIOUS
    <3>2. PICK q, p : q = Quantidades /\ p = Quantidades'
      OBVIOUS
    <3>3. Previsto = SumFunctionOnSet(q, E)
      BY <2>1, <3>1, <3>2, SomasDeTipo DEF SomasEst, InvEstoque
    <3>4. Previsto' = SumFunctionOnSet(p, E)
      BY <1>0, <2>1, <2>2, <3>1, <3>2, SomasDepois DEF SomasEst, Entradas
    <3>5. IsFiniteSet(E) /\ \A x \in E : q[x] \in Int /\ q[x] = p[x]
      BY <1>e, <1>q, <3>1, <3>2, TotalInteiro, Finitos DEF InvEstoque, DocumentoEst
    <3> QED BY <3>3, <3>4, <3>5, SomaIgual
  <2>4. /\ SaldoCom(carga.docs) <= SaldoInicial + Previsto
        /\ Entrado <= Previsto /\ Previsto \in Int /\ Entrado \in Int
    BY <2>1, SaldoDaCentral DEF InvEstoque
  <2>5. saldo <= SaldoInicial + Entrado /\ saldo \in Int
    BY DEF InvEstoque, SaldoCoberto, TypeOKEstoque
  <2>6. carga'.valor <= SaldoInicial + Previsto
    BY <2>1, <2>4, <2>5, ConstantesEstoque
  <2>7. Registros'
    BY <1>0, <2>1 DEF InvEstoque, Registros
  <2> QED BY <1>0, <1>1, <1>2, <2>1, <2>3, <2>6, <2>7 DEF InvEstoque, SaldoCoberto, CargaCoberta
<1>5. CASE GravarCatalogo
  <2>1. /\ carga.op = "gravar" /\ saldo' = carga.valor /\ carga' = SemCarga
        /\ Entradas(carga.docs) \subseteq entrada
    BY <1>5 DEF GravarCatalogo, Entradas
  <2>2. carga # SemCarga
    BY <2>1 DEF SemCarga
  <2>3. Previsto = Entrado
    <3>1. entrada \cup Entradas(carga.docs) = entrada
      BY <2>1
    <3> QED BY <3>1 DEF Previsto, Entrado
  <2>4. carga.valor <= SaldoInicial + Previsto
    BY <2>1 DEF InvEstoque, CargaCoberta
  <2>5. SaldoCoberto'
    BY <1>2, <2>1, <2>3, <2>4 DEF SaldoCoberto
  <2>6. carga'.op # "gravar"
    BY <2>1 DEF SemCarga
  <2> QED BY <1>0, <1>1, <2>1, <2>5, <2>6 DEF InvEstoque, Registros, CargaCoberta
<1> QED BY <1>3, <1>4, <1>5 DEF Catalogo

LEMMA InvInicialEst == InitEstoque => InvEstoque
<1> SUFFICES ASSUME InitEstoque PROVE InvEstoque
  OBVIOUS
<1>1. TypeOKEstoque
  BY TipoInicialEst
<1>2. Registros /\ carga = SemCarga /\ carga.op # "gravar" /\ entrada = {} /\ saldo = SaldoInicial
  <2>1. \A d \in DevolEst : d \in DocumentoEst /\ d \notin RecebEst
    BY ConstantesEstoque DEF DocumentoEst
  <2> QED BY <2>1 DEF InitEstoque, Registros, SemCarga
<1>3. PICK q : q = Quantidades
  OBVIOUS
<1>4. Entrado = 0
  <2>1. Entrado = SumFunctionOnSet(q, {})
    BY <1>1, <1>2, <1>3, SomasDeTipo DEF SomasEst
  <2> QED BY <2>1, SomaVazia
<1>5. SaldoCoberto /\ CargaCoberta
  BY <1>2, <1>4, ConstantesEstoque DEF SaldoCoberto, CargaCoberta
<1>6. Com("FINALIZADA") = {}
  BY DEF Com, InitEstoque
<1>7. Movimento = 0
  <2>1. Movimento = -SumFunctionOnSet(q, {})
    BY <1>1, <1>3, <1>6, SomasDeTipo DEF SomasEst
  <2> QED BY <2>1, SomaVazia
<1>8. Fisico >= 0
  <2>1. PICK t : t = SumFunctionOnSet(Quantidades, DevolEst \cup RecebEst)
    OBVIOUS
  <2>2. Fisico = SaldoInicial - 0 + t /\ Entrado <= t /\ t \in Int
    BY <1>1, <1>7, <2>1, EntradoParte
  <2> QED BY <1>4, <2>2, ConstantesEstoque
<1> QED BY <1>1, <1>2, <1>5, <1>8 DEF InvEstoque, SemVendaAlem

LEMMA InvPassoEst ==
  ASSUME ~CargaDurante, InvEstoque, [NextEstoque]_varsEstoque PROVE InvEstoque'
<1>0. TypeOKEstoque'
  BY TipoPassoEst DEF InvEstoque
<1>1. CASE UNCHANGED varsEstoque
  <2>1. /\ saldo' = saldo /\ vendaEst' = vendaEst /\ devolEst' = devolEst /\ eventoEst' = eventoEst
        /\ entrada' = entrada /\ central' = central /\ carga' = carga
    BY <1>1 DEF varsEstoque
  <2>2. SaldoCoberto' /\ CargaCoberta'
    BY <1>0, <2>1, SaldosFicam
  <2>3. Fisico' = Fisico
    BY <1>0, <2>1, FisicoDeVenda DEF InvEstoque
  <2>4. Registros'
    BY <2>1 DEF InvEstoque, Registros
  <2> QED BY <1>0, <2>2, <2>3, <2>4 DEF InvEstoque, SemVendaAlem
<1>2. CASE NextEstoque
  BY <1>0, <1>2, PassoVendaEst, PassoDevolEst, PassoEventoEst, PassoCatalogo DEF NextEstoque
<1> QED BY <1>1, <1>2

\* The store never sells what it does not have, when no document enters the
\* balance twice: an import is not written while a return or a receipt it has is
\* still to be added (catalogo.py, sincronizar_catalogo).  Without the hypothesis the
\* run estoque_carga sells what is not there.
THEOREM SemVendaAlemSempre ==
  ASSUME ~CargaDurante PROVE SpecEstoque => []SemVendaAlem
<1>1. InvEstoque /\ [NextEstoque]_varsEstoque => InvEstoque'
  BY InvPassoEst
<1>2. InvEstoque => SemVendaAlem
  BY DEF InvEstoque
<1> QED BY InvInicialEst, <1>1, <1>2, PTL DEF SpecEstoque

-----------------------------------------------------------------------------
(* Conferencia *)

\* What a sale leaves in the drawer, and what its sales and its movements left in
\* the drawer of a session.
FormasDinheiro == FormasDoTipo(DINHEIRO)
Deixa == [v \in VendaCf |-> PagoCf(v, FormasDinheiro) - vendaCf[v].troco]
Deixas == [s \in SessaoCf |-> [v \in VendaCf |-> IF vendaCf[v].sessao = s THEN Deixa[v] ELSE 0]]
Recebido == [s \in SessaoCf |-> SumFunctionOnSet(Deixas[s], VendaCf)]
Entrou == [x \in Movimentacao |-> IF x.tipo = "SUPRIMENTO" THEN x.valor ELSE -x.valor]
MovimentosDa(s) == {x \in movCf : x.sessao = s}
Movidos == [s \in SessaoCf |-> SumFunctionOnSet(Entrou, MovimentosDa(s))]

\* The money of a drawer is that of the rows of its session.
GavetaCerta(s) ==
  sessaoCf[s].status # "NENHUMA" =>
    gaveta[s] = sessaoCf[s].abertura + Recebido[s] + Movidos[s]

\* a date of the session, which is over if it is closed
NoTempo(s, d) ==
  /\ s \in SessaoCf /\ sessaoCf[s].status # "NENHUMA"
  /\ sessaoCf[s].aberto <= d /\ d <= hojeCf
  /\ sessaoCf[s].status = "FECHADO" => d <= sessaoCf[s].fechado

\* A sale is of a session, which is open while the sale is; what is not finished
\* has no change, and what is not a sale any more has no payment.
VendaCerta(v) ==
  /\ vendaCf[v].status = "NENHUMA" => vendaCf[v] = SemVendaCf
  /\ vendaCf[v].status = "ABERTA" =>
       vendaCf[v].sessao \in SessaoCf /\ sessaoCf[vendaCf[v].sessao].status = "ABERTO"
  /\ vendaCf[v].status \in {"NENHUMA", "CANCELADA"} => \A f \in LinhaForma : pagosCf[v][f] = 0
  /\ vendaCf[v].status # "FINALIZADA" => vendaCf[v].troco = 0
  /\ vendaCf[v].status = "FINALIZADA" =>
       /\ vendaCf[v].troco = PagoCf(v, LinhaForma) - TotalVenda[v]
       /\ vendaCf[v].troco > 0 => PagoCf(v, FormasDinheiro) > 0
       /\ NoTempo(vendaCf[v].sessao, vendaCf[v].dia)
  /\ vendaCf[v].sessao \in SessaoCf => sessaoCf[vendaCf[v].sessao].status # "NENHUMA"

MovimentosCertos ==
  /\ IsFiniteSet(movCf)
  /\ \A x \in movCf : x.id <= Cardinality(movCf) /\ NoTempo(x.sessao, x.dia)

\* A session that was closed expected the money that was, and is, in its drawer.
SessaoCerta(s) ==
  /\ sessaoCf[s].status = "NENHUMA" => sessaoCf[s] = SemSessaoCf
  /\ sessaoCf[s].status # "NENHUMA" => 1 <= sessaoCf[s].aberto /\ sessaoCf[s].aberto <= hojeCf
  /\ sessaoCf[s].status = "FECHADO" =>
       /\ sessaoCf[s].fechado <= hojeCf
       /\ sessaoCf[s].esperado = gaveta[s]
       /\ sessaoCf[s].diferenca = sessaoCf[s].contado - gaveta[s]
       /\ sessaoCf[s].situacao = SituacaoDe(sessaoCf[s].diferenca)

InvCaixaCf ==
  /\ \A s \in SessaoCf : GavetaCerta(s) /\ SessaoCerta(s)
  /\ \A v \in VendaCf : VendaCerta(v)
  /\ MovimentosCertos

\* Sums of payments
LEMMA FormasFinitas ==
  /\ IsFiniteSet(SessaoCf) /\ IsFiniteSet(VendaCf) /\ IsFiniteSet(LinhaForma)
  /\ \A V \in SUBSET VendaCf : IsFiniteSet(V)
  /\ \A F \in SUBSET LinhaForma : IsFiniteSet(F)
  /\ \A t : FormasDoTipo(t) \in SUBSET LinhaForma
  /\ FormasDinheiro \in SUBSET LinhaForma
  BY ConstantesConferencia, FS_Subset DEF FormasDoTipo, FormasDinheiro

LEMMA PagoTipo ==
  TypeOKConferencia =>
    \A v \in VendaCf, F \in SUBSET LinhaForma :
      /\ PagoCf(v, F) \in Nat
      /\ \A f \in F : pagosCf[v][f] \in Nat /\ pagosCf[v][f] <= PagoCf(v, F)
      /\ (\A f \in F : pagosCf[v][f] = 0) => PagoCf(v, F) = 0
<1> SUFFICES ASSUME TypeOKConferencia, NEW v \in VendaCf, NEW F \in SUBSET LinhaForma
             PROVE  /\ PagoCf(v, F) \in Nat
                    /\ \A f \in F : pagosCf[v][f] \in Nat /\ pagosCf[v][f] <= PagoCf(v, F)
                    /\ (\A f \in F : pagosCf[v][f] = 0) => PagoCf(v, F) = 0
  OBVIOUS
<1>1. PICK p : p = pagosCf[v]
  OBVIOUS
<1>2. \A f \in F : p[f] \in Nat
  <2>1. \A y \in Entregas \cup {0} : y \in Nat
    BY ConstantesConferencia
  <2>2. p \in [LinhaForma -> Entregas \cup {0}]
    BY <1>1 DEF TypeOKConferencia
  <2> QED BY <2>1, <2>2
<1>3. IsFiniteSet(F)
  BY FormasFinitas
<1>4. PagoCf(v, F) = SumFunctionOnSet(p, F)
  BY <1>1 DEF PagoCf
<1>5. SumFunctionOnSet(p, F) \in Nat
  BY <1>2, <1>3, SomaPositiva
<1>6. \A f \in F : p[f] <= SumFunctionOnSet(p, F)
  BY <1>2, <1>3, SomaCabe
<1>7. (\A f \in F : p[f] = 0) => SumFunctionOnSet(p, F) = 0
  BY <1>3, SomaZero
<1> QED BY <1>1, <1>2, <1>4, <1>5, <1>6, <1>7

\* what the types say of each row
TiposCf ==
  /\ \A s \in SessaoCf : /\ sessaoCf[s] \in SessaoHub
                         /\ sessaoCf[s].status \in {"NENHUMA", "ABERTO", "FECHADO"}
                         /\ sessaoCf[s].abertura \in Nat /\ sessaoCf[s].esperado \in Nat
                         /\ sessaoCf[s].contado \in Nat /\ sessaoCf[s].diferenca \in Int
                         /\ sessaoCf[s].aberto \in Nat /\ sessaoCf[s].fechado \in Nat
                         /\ gaveta[s] \in Nat
  /\ \A v \in VendaCf : /\ vendaCf[v] \in VendaHub
                        /\ vendaCf[v].status \in {"NENHUMA", "ABERTA", "FINALIZADA", "CANCELADA"}
                        /\ vendaCf[v].sessao \in SessaoCf \cup {NuloCf}
                        /\ vendaCf[v].troco \in Nat /\ vendaCf[v].dia \in Nat
  /\ \A x \in movCf : /\ x \in Movimentacao /\ x.sessao \in SessaoCf /\ x.tipo \in TipoMov
                      /\ x.valor \in Nat /\ x.dia \in Nat /\ x.id \in Nat
  /\ hojeCf \in Nat /\ hojeCf \in 1..MaxDiaCf

LEMMA LinhasDeTipo == TypeOKConferencia => TiposCf
<1> SUFFICES ASSUME TypeOKConferencia PROVE TiposCf
  OBVIOUS
<1>0. \A y \in Aberturas \cup {0} : y \in Nat
  BY ConstantesConferencia
<1>1. ASSUME NEW s \in SessaoCf
      PROVE  /\ sessaoCf[s] \in SessaoHub
             /\ sessaoCf[s].status \in {"NENHUMA", "ABERTO", "FECHADO"}
             /\ sessaoCf[s].abertura \in Nat /\ sessaoCf[s].esperado \in Nat
             /\ sessaoCf[s].contado \in Nat /\ sessaoCf[s].diferenca \in Int
             /\ sessaoCf[s].aberto \in Nat /\ sessaoCf[s].fechado \in Nat
             /\ gaveta[s] \in Nat
  <2>1. sessaoCf[s] \in SessaoHub /\ gaveta[s] \in Nat
    BY DEF TypeOKConferencia
  <2>2. sessaoCf[s].abertura \in Aberturas \cup {0}
    BY <2>1 DEF SessaoHub
  <2>3. sessaoCf[s].abertura \in Nat
    BY <1>0, <2>2
  <2>4. sessaoCf[s].aberto \in 0..MaxDiaCf /\ sessaoCf[s].fechado \in 0..MaxDiaCf
    BY <2>1 DEF SessaoHub
  <2>5. /\ sessaoCf[s].status \in {"NENHUMA", "ABERTO", "FECHADO"}
        /\ sessaoCf[s].esperado \in Nat /\ sessaoCf[s].contado \in Nat /\ sessaoCf[s].diferenca \in Int
    BY <2>1 DEF SessaoHub
  <2> QED BY <2>1, <2>3, <2>4, <2>5
<1>2. ASSUME NEW v \in VendaCf
      PROVE  /\ vendaCf[v] \in VendaHub
             /\ vendaCf[v].status \in {"NENHUMA", "ABERTA", "FINALIZADA", "CANCELADA"}
             /\ vendaCf[v].sessao \in SessaoCf \cup {NuloCf}
             /\ vendaCf[v].troco \in Nat /\ vendaCf[v].dia \in Nat
  <2>1. vendaCf[v] \in VendaHub
    BY DEF TypeOKConferencia
  <2> QED BY <2>1 DEF VendaHub
<1>3. ASSUME NEW x \in movCf
      PROVE  /\ x \in Movimentacao /\ x.sessao \in SessaoCf /\ x.tipo \in TipoMov
             /\ x.valor \in Nat /\ x.dia \in Nat /\ x.id \in Nat
  <2>1. x \in Movimentacao
    BY DEF TypeOKConferencia
  <2> QED BY <2>1 DEF Movimentacao, DiaCf
<1>4. hojeCf \in Nat /\ hojeCf \in 1..MaxDiaCf
  BY DEF TypeOKConferencia, DiaCf
<1> QED BY <1>1, <1>2, <1>3, <1>4 DEF TiposCf

DeixasCf ==
  /\ \A v \in VendaCf : Deixa[v] \in Int /\ Deixa[v] = PagoCf(v, FormasDinheiro) - vendaCf[v].troco
  /\ \A s \in SessaoCf, v \in VendaCf :
       /\ Deixas[s][v] \in Int
       /\ Deixas[s][v] = IF vendaCf[v].sessao = s THEN Deixa[v] ELSE 0
  /\ \A s \in SessaoCf : Recebido[s] \in Int /\ Recebido[s] = SumFunctionOnSet(Deixas[s], VendaCf)

LEMMA DeixaTipo == TypeOKConferencia => DeixasCf
<1> SUFFICES ASSUME TypeOKConferencia PROVE DeixasCf
  OBVIOUS
<1>1. ASSUME NEW v \in VendaCf
      PROVE  Deixa[v] \in Int /\ Deixa[v] = PagoCf(v, FormasDinheiro) - vendaCf[v].troco
  <2>1. PagoCf(v, FormasDinheiro) \in Nat /\ vendaCf[v].troco \in Nat
    BY PagoTipo, FormasFinitas, LinhasDeTipo DEF TiposCf
  <2>2. Deixa[v] = PagoCf(v, FormasDinheiro) - vendaCf[v].troco
    BY DEF Deixa
  <2> QED BY <2>1, <2>2
<1>2. ASSUME NEW s \in SessaoCf, NEW v \in VendaCf
      PROVE  Deixas[s][v] \in Int /\ Deixas[s][v] = IF vendaCf[v].sessao = s THEN Deixa[v] ELSE 0
  <2>1. Deixas[s][v] = IF vendaCf[v].sessao = s THEN Deixa[v] ELSE 0
    BY DEF Deixas
  <2> QED BY <1>1, <2>1
<1>3. ASSUME NEW s \in SessaoCf
      PROVE  Recebido[s] \in Int /\ Recebido[s] = SumFunctionOnSet(Deixas[s], VendaCf)
  <2>1. PICK f : f = Deixas[s]
    OBVIOUS
  <2>2. SumFunctionOnSet(f, VendaCf) \in Int
    BY <1>2, <2>1, FormasFinitas, SomaTipo
  <2> QED BY <2>1, <2>2 DEF Recebido
<1> QED BY <1>1, <1>2, <1>3 DEF DeixasCf

\* what sales left in cash is the sum of what each one left
LEMMA LiquidoSoma ==
  TypeOKConferencia =>
    \A V \in SUBSET VendaCf : /\ DinheiroLiquido(V) = SumFunctionOnSet(Deixa, V)
                              /\ SumFunctionOnSet(Deixa, V) \in Int
<1> SUFFICES ASSUME TypeOKConferencia, NEW V \in SUBSET VendaCf
             PROVE  /\ DinheiroLiquido(V) = SumFunctionOnSet(Deixa, V)
                    /\ SumFunctionOnSet(Deixa, V) \in Int
  OBVIOUS
<1>1. PICK d, p, t : d = Deixa /\ p = [v \in V |-> PagoCf(v, FormasDinheiro)]
                     /\ t = [v \in V |-> vendaCf[v].troco]
  OBVIOUS
<1>2. ASSUME NEW v \in V PROVE d[v] \in Int /\ t[v] \in Int /\ p[v] = d[v] + t[v]
  <2>1. PagoCf(v, FormasDinheiro) \in Nat /\ vendaCf[v].troco \in Nat
    BY PagoTipo, FormasFinitas, LinhasDeTipo DEF TiposCf
  <2>2. d[v] = PagoCf(v, FormasDinheiro) - vendaCf[v].troco /\ d[v] \in Int
    BY <1>1, DeixaTipo DEF DeixasCf
  <2>3. p[v] = PagoCf(v, FormasDinheiro) /\ t[v] = vendaCf[v].troco
    BY <1>1
  <2> QED BY <2>1, <2>2, <2>3
<1>3. IsFiniteSet(V)
  BY FormasFinitas
<1>4. SumFunctionOnSet(p, V) = SumFunctionOnSet(d, V) + SumFunctionOnSet(t, V)
  BY <1>2, <1>3, SomaMais
<1>5. SumFunctionOnSet(d, V) \in Int /\ SumFunctionOnSet(t, V) \in Int
  BY <1>2, <1>3, SomaTipo
<1>6. PagoNas(V, FormasDinheiro) = SumFunctionOnSet(p, V)
  BY <1>1 DEF PagoNas, SumFunction
<1>7. TrocoDas(V) = SumFunctionOnSet(t, V)
  BY <1>1 DEF TrocoDas, SumFunction
<1>8. DinheiroLiquido(V) = PagoNas(V, FormasDinheiro) - TrocoDas(V)
  BY DEF DinheiroLiquido, FormasDinheiro
<1> QED BY <1>1, <1>4, <1>5, <1>6, <1>7, <1>8

\* what movements brought in
LEMMA MovimentoSoma ==
  ASSUME NEW M \in SUBSET Movimentacao, IsFiniteSet(M)
  PROVE  /\ Movido(M, "SUPRIMENTO") - Movido(M, "SANGRIA") - Movido(M, "DESPESA") = SumFunctionOnSet(Entrou, M)
         /\ SumFunctionOnSet(Entrou, M) \in Int
         /\ \A t \in TipoMov : Movido(M, t) \in Nat
<1>1. PICK e, w : e = Entrou /\ w = [x \in Movimentacao |-> x.valor]
  OBVIOUS
<1>2. \A x \in Movimentacao : /\ w[x] = x.valor /\ w[x] \in Nat
                              /\ e[x] = IF x.tipo = "SUPRIMENTO" THEN w[x] ELSE -w[x]
                              /\ x.tipo \in TipoMov
  BY <1>1 DEF Entrou, Movimentacao
<1> DEFINE Do(t) == {x \in M : x.tipo = t}
<1>3. ASSUME NEW t PROVE /\ Do(t) \in SUBSET Movimentacao /\ IsFiniteSet(Do(t))
                         /\ Movido(M, t) = SumFunctionOnSet(w, Do(t)) /\ Movido(M, t) \in Nat
  <2>1. PICK D : D = Do(t)
    OBVIOUS
  <2>2. D \in SUBSET Movimentacao /\ D \subseteq M
    BY <2>1
  <2>3. IsFiniteSet(D)
    BY <2>2, FS_Subset
  <2>4. PICK u : u = [x \in D |-> x.valor]
    OBVIOUS
  <2>5. \A x \in D : w[x] \in Int /\ w[x] = u[x]
    BY <1>2, <2>2, <2>4
  <2>6. SumFunctionOnSet(w, D) = SumFunctionOnSet(u, D)
    BY <2>3, <2>5, SomaIgual
  <2>7. Movido(M, t) = SumFunctionOnSet(u, D)
    BY <2>1, <2>4 DEF Movido, SumFunction
  <2>8. SumFunctionOnSet(w, D) \in Nat
    BY <1>2, <2>2, <2>3, SomaPositiva
  <2> QED BY <2>1, <2>2, <2>3, <2>6, <2>7, <2>8
<1>4. PICK A, B, C : A = Do("SUPRIMENTO") /\ B = Do("SANGRIA") /\ C = Do("DESPESA")
  OBVIOUS
<1>5. /\ A \cap B = {} /\ A \cap C = {} /\ B \cap C = {} /\ (A \cup B) \cup C = M
  BY <1>2, <1>4 DEF TipoMov
<1>6. IsFiniteSet(A) /\ IsFiniteSet(B) /\ IsFiniteSet(C) /\ IsFiniteSet(A \cup B)
  <2>1. IsFiniteSet(A) /\ IsFiniteSet(B) /\ IsFiniteSet(C)
    BY <1>3, <1>4
  <2> QED BY <2>1, FS_Union
<1>7. \A x \in M : e[x] \in Int /\ w[x] \in Int
  BY <1>2
<1>8. SumFunctionOnSet(e, M) = SumFunctionOnSet(e, A \cup B) + SumFunctionOnSet(e, C)
  <2>1. (A \cup B) \cap C = {} /\ \A x \in (A \cup B) \cup C : e[x] \in Int
    BY <1>5, <1>7
  <2>2. SumFunctionOnSet(e, (A \cup B) \cup C) = SumFunctionOnSet(e, A \cup B) + SumFunctionOnSet(e, C)
    BY <1>6, <2>1, SomaUniao
  <2> QED BY <1>5, <2>2
<1>9. SumFunctionOnSet(e, A \cup B) = SumFunctionOnSet(e, A) + SumFunctionOnSet(e, B)
  <2>1. \A x \in A \cup B : e[x] \in Int
    BY <1>5, <1>7
  <2> QED BY <1>5, <1>6, <2>1, SomaUniao
<1>10. SumFunctionOnSet(e, A) = SumFunctionOnSet(w, A)
  <2>1. \A x \in A : e[x] \in Int /\ e[x] = w[x]
    BY <1>2, <1>4
  <2> QED BY <1>6, <2>1, SomaIgual
<1>11. SumFunctionOnSet(e, B) = -SumFunctionOnSet(w, B) /\ SumFunctionOnSet(e, C) = -SumFunctionOnSet(w, C)
  <2>1. /\ \A x \in B : w[x] \in Int /\ e[x] = -w[x]
        /\ \A x \in C : w[x] \in Int /\ e[x] = -w[x]
    BY <1>2, <1>4
  <2> QED BY <1>6, <2>1, SomaOposta
<1>12. /\ Movido(M, "SUPRIMENTO") = SumFunctionOnSet(w, A) /\ Movido(M, "SUPRIMENTO") \in Nat
       /\ Movido(M, "SANGRIA") = SumFunctionOnSet(w, B) /\ Movido(M, "SANGRIA") \in Nat
       /\ Movido(M, "DESPESA") = SumFunctionOnSet(w, C) /\ Movido(M, "DESPESA") \in Nat
  BY <1>3, <1>4
<1>13. SumFunctionOnSet(e, M) \in Int
  BY <1>7, SomaTipo
<1> QED BY <1>1, <1>3, <1>8, <1>9, <1>10, <1>11, <1>12, <1>13

LEMMA TiposDepois == (TypeOKConferencia => DeixasCf /\ TiposCf)'
<1>1. TypeOKConferencia => DeixasCf /\ TiposCf
  BY DeixaTipo, LinhasDeTipo
<1> QED BY <1>1, PTL

\* without an open sale, the session has what the finished ones left
LEMMA SessaoSemAberta ==
  ASSUME TypeOKConferencia, \A v \in VendaCf : VendaCerta(v),
         NEW s \in SessaoCf, \A v \in VendaCf : ~AbertaNa(v, s)
  PROVE  Recebido[s] = SumFunctionOnSet(Deixa, VendasDa(s))
<1>1. PICK g, f, V : g = Deixas[s] /\ f = Deixa /\ V = VendasDa(s)
  OBVIOUS
<1>2. V \subseteq VendaCf
  BY <1>1 DEF VendasDa
<1>3. ASSUME NEW v \in V PROVE g[v] \in Int /\ g[v] = f[v]
  <2>1. vendaCf[v].sessao = s
    BY <1>1 DEF VendasDa
  <2> QED BY <1>1, <1>2, <2>1, DeixaTipo DEF DeixasCf
<1>4. ASSUME NEW v \in VendaCf \ V PROVE g[v] = 0
  <2>1. CASE vendaCf[v].sessao # s
    BY <1>1, <2>1, DeixaTipo DEF DeixasCf
  <2>2. CASE vendaCf[v].sessao = s
    <3>1. vendaCf[v].status \in {"NENHUMA", "CANCELADA"}
      BY <1>1, <2>2, LinhasDeTipo DEF TiposCf, VendasDa, AbertaNa
    <3>2. \A h \in FormasDinheiro : pagosCf[v][h] = 0
      BY <3>1, FormasFinitas DEF VendaCerta
    <3>3. PagoCf(v, FormasDinheiro) = 0
      BY <3>2, PagoTipo, FormasFinitas
    <3>4. vendaCf[v].troco = 0
      BY <3>1 DEF VendaCerta
    <3>5. Deixa[v] = 0
      BY <3>3, <3>4, DeixaTipo DEF DeixasCf
    <3> QED BY <1>1, <3>5, DeixaTipo DEF DeixasCf
  <2> QED BY <2>1, <2>2
<1>5. \A v \in VendaCf : g[v] \in Int
  BY <1>3, <1>4
<1>6. SumFunctionOnSet(g, V) = SumFunctionOnSet(g, VendaCf)
  BY <1>2, <1>4, <1>5, FormasFinitas, SomaDaParte
<1>7. SumFunctionOnSet(g, V) = SumFunctionOnSet(f, V)
  <2>1. IsFiniteSet(V)
    BY <1>2, FormasFinitas
  <2> QED BY <1>3, <2>1, SomaIgual
<1>8. Recebido[s] = SumFunctionOnSet(g, VendaCf)
  BY <1>1, DeixaTipo DEF DeixasCf
<1> QED BY <1>1, <1>6, <1>7, <1>8

\* The hub expects what is in the drawer.
LEMMA EsperadoCerto ==
  ASSUME TypeOKConferencia, InvCaixaCf, NEW s \in SessaoCf, sessaoCf[s].status # "NENHUMA",
         \A v \in VendaCf : ~AbertaNa(v, s)
  PROVE  Esperado(s) = gaveta[s]
<1>1. DinheiroLiquido(VendasDa(s)) = Recebido[s]
  <2>1. VendasDa(s) \in SUBSET VendaCf
    BY DEF VendasDa
  <2>2. Recebido[s] = SumFunctionOnSet(Deixa, VendasDa(s))
    BY SessaoSemAberta DEF InvCaixaCf
  <2> QED BY <2>1, <2>2, LiquidoSoma
<1>2. PICK M : M = MovimentosDa(s)
  OBVIOUS
<1>3. M \in SUBSET Movimentacao /\ IsFiniteSet(M)
  <2>1. M \in SUBSET movCf /\ movCf \subseteq Movimentacao /\ IsFiniteSet(movCf)
    BY <1>2 DEF MovimentosDa, InvCaixaCf, MovimentosCertos, TypeOKConferencia
  <2> QED BY <2>1, FS_Subset
<1>4. /\ Movido(M, "SUPRIMENTO") - Movido(M, "SANGRIA") - Movido(M, "DESPESA") = SumFunctionOnSet(Entrou, M)
      /\ SumFunctionOnSet(Entrou, M) \in Int
      /\ Movido(M, "SUPRIMENTO") \in Nat /\ Movido(M, "SANGRIA") \in Nat /\ Movido(M, "DESPESA") \in Nat
  BY <1>3, MovimentoSoma DEF TipoMov
<1>5. Movidos[s] = SumFunctionOnSet(Entrou, M)
  BY <1>2 DEF Movidos
<1>6. Esperado(s) = sessaoCf[s].abertura + DinheiroLiquido(VendasDa(s))
                    + Movido(M, "SUPRIMENTO") - Movido(M, "SANGRIA") - Movido(M, "DESPESA")
  BY <1>2 DEF Esperado, MovimentosDa
<1>7. gaveta[s] = sessaoCf[s].abertura + Recebido[s] + Movidos[s]
  BY DEF InvCaixaCf, GavetaCerta
<1>8. Recebido[s] \in Int /\ sessaoCf[s].abertura \in Int
  BY DeixaTipo, LinhasDeTipo DEF DeixasCf, TiposCf
<1>9. Esperado(s) = (sessaoCf[s].abertura + Recebido[s])
                    + (Movido(M, "SUPRIMENTO") - Movido(M, "SANGRIA") - Movido(M, "DESPESA"))
  BY <1>1, <1>4, <1>6, <1>8
<1> QED BY <1>4, <1>5, <1>7, <1>9

\* a change of one sale
LEMMA VendaMuda ==
  ASSUME TypeOKConferencia, TypeOKConferencia', NEW v \in VendaCf,
         \A w \in VendaCf \ {v} : vendaCf'[w] = vendaCf[w] /\ pagosCf'[w] = pagosCf[w]
  PROVE  \A s \in SessaoCf : Recebido'[s] = Recebido[s] - Deixas[s][v] + Deixas'[s][v]
<1> SUFFICES ASSUME NEW s \in SessaoCf PROVE Recebido'[s] = Recebido[s] - Deixas[s][v] + Deixas'[s][v]
  OBVIOUS
<1>1. PICK f, g : f = Deixas[s] /\ g = Deixas'[s]
  OBVIOUS
<1>2. \A w \in VendaCf : f[w] \in Int /\ g[w] \in Int
  BY <1>1, DeixaTipo, TiposDepois DEF DeixasCf
<1>3. ASSUME NEW w \in VendaCf, w # v PROVE f[w] = g[w]
  <2>1. vendaCf'[w] = vendaCf[w] /\ pagosCf'[w] = pagosCf[w]
    BY <1>3
  <2>2. PagoCf(w, FormasDinheiro)' = PagoCf(w, FormasDinheiro)
    BY <2>1 DEF PagoCf
  <2>3. Deixa[w] = PagoCf(w, FormasDinheiro) - vendaCf[w].troco
    BY DeixaTipo DEF DeixasCf
  <2>4. Deixa'[w] = PagoCf(w, FormasDinheiro)' - vendaCf'[w].troco
    BY TiposDepois DEF DeixasCf
  <2>5. Deixa'[w] = Deixa[w]
    BY <2>1, <2>2, <2>3, <2>4
  <2>6. f[w] = IF vendaCf[w].sessao = s THEN Deixa[w] ELSE 0
    BY <1>1, DeixaTipo DEF DeixasCf
  <2>7. g[w] = IF vendaCf'[w].sessao = s THEN Deixa'[w] ELSE 0
    BY <1>1, TiposDepois DEF DeixasCf
  <2> QED BY <2>1, <2>5, <2>6, <2>7
<1>4. SumFunctionOnSet(g, VendaCf) = SumFunctionOnSet(f, VendaCf) - f[v] + g[v]
  BY <1>2, <1>3, FormasFinitas, SomaMuda
<1>5. Recebido[s] = SumFunctionOnSet(f, VendaCf)
  BY <1>1, DeixaTipo DEF DeixasCf
<1>6. Recebido'[s] = SumFunctionOnSet(g, VendaCf)
  BY <1>1, TiposDepois DEF DeixasCf
<1> QED BY <1>1, <1>4, <1>5, <1>6

\* a change of one payment of a sale
LEMMA PagoMuda ==
  ASSUME TypeOKConferencia, TypeOKConferencia', NEW v \in VendaCf, NEW f \in LinhaForma,
         \A g \in LinhaForma \ {f} : pagosCf'[v][g] = pagosCf[v][g]
  PROVE  \A F \in SUBSET LinhaForma :
           PagoCf(v, F)' = PagoCf(v, F) + (IF f \in F THEN pagosCf'[v][f] - pagosCf[v][f] ELSE 0)
<1> SUFFICES ASSUME NEW F \in SUBSET LinhaForma
             PROVE PagoCf(v, F)' = PagoCf(v, F) + (IF f \in F THEN pagosCf'[v][f] - pagosCf[v][f] ELSE 0)
  OBVIOUS
<1>1. PICK p, q : p = pagosCf[v] /\ q = pagosCf'[v]
  OBVIOUS
<1>2. \A g \in LinhaForma : p[g] \in Int /\ q[g] \in Int
  <2>1. \A y \in Entregas \cup {0} : y \in Nat
    BY ConstantesConferencia
  <2>2. p \in [LinhaForma -> Entregas \cup {0}] /\ q \in [LinhaForma -> Entregas \cup {0}]
    BY <1>1 DEF TypeOKConferencia
  <2> QED BY <2>1, <2>2
<1>3. PagoCf(v, F) = SumFunctionOnSet(p, F) /\ PagoCf(v, F)' = SumFunctionOnSet(q, F)
  BY <1>1 DEF PagoCf
<1>4. IsFiniteSet(F) /\ \A g \in F : p[g] \in Int /\ q[g] \in Int
  BY <1>2, FormasFinitas
<1>5. \A g \in F : g # f => p[g] = q[g]
  BY <1>1
<1>6. SumFunctionOnSet(p, F) \in Int
  BY <1>4, SomaTipo
<1>7. CASE f \in F
  <2>1. SumFunctionOnSet(q, F) = SumFunctionOnSet(p, F) - p[f] + q[f]
    BY <1>4, <1>5, <1>7, SomaMuda
  <2>2. p[f] \in Int /\ q[f] \in Int
    BY <1>2
  <2> QED BY <1>1, <1>3, <1>6, <1>7, <2>1, <2>2
<1>8. CASE f \notin F
  <2>1. SumFunctionOnSet(q, F) = SumFunctionOnSet(p, F)
    BY <1>4, <1>5, <1>8, SomaIgual
  <2> QED BY <1>3, <1>6, <1>8, <2>1
<1> QED BY <1>7, <1>8

\* Frames of a step: the time goes on, and the rows it does not touch stay right.
TempoAvanca ==
  /\ hojeCf <= hojeCf'
  /\ \A s \in SessaoCf : sessaoCf[s].status # "NENHUMA" =>
       /\ sessaoCf'[s].status # "NENHUMA" /\ sessaoCf'[s].aberto = sessaoCf[s].aberto
       /\ sessaoCf'[s].status = "FECHADO" =>
            \/ sessaoCf[s].status = "FECHADO" /\ sessaoCf'[s].fechado = sessaoCf[s].fechado
            \/ sessaoCf'[s].fechado = hojeCf

LEMMA TempoFica ==
  ASSUME TypeOKConferencia, TypeOKConferencia', TempoAvanca
  PROVE  \A s, d : d \in Nat /\ NoTempo(s, d) => NoTempo(s, d)'
<1> SUFFICES ASSUME NEW s, NEW d \in Nat, NoTempo(s, d) PROVE NoTempo(s, d)'
  OBVIOUS
<1>1. s \in SessaoCf /\ sessaoCf[s].status # "NENHUMA" /\ sessaoCf[s].aberto <= d /\ d <= hojeCf
      /\ (sessaoCf[s].status = "FECHADO" => d <= sessaoCf[s].fechado)
  BY DEF NoTempo
<1>2. sessaoCf'[s].status # "NENHUMA" /\ sessaoCf'[s].aberto = sessaoCf[s].aberto
      /\ (sessaoCf'[s].status = "FECHADO" =>
            \/ sessaoCf[s].status = "FECHADO" /\ sessaoCf'[s].fechado = sessaoCf[s].fechado
            \/ sessaoCf'[s].fechado = hojeCf)
  BY <1>1 DEF TempoAvanca
<1>3. hojeCf <= hojeCf' /\ hojeCf \in Nat /\ hojeCf' \in Nat
  BY LinhasDeTipo, TiposDepois DEF TempoAvanca, TiposCf
<1>4. d <= hojeCf'
  BY <1>1, <1>3
<1> QED BY <1>1, <1>2, <1>4 DEF NoTempo

LEMMA VendaFica ==
  ASSUME TypeOKConferencia, TypeOKConferencia', TempoAvanca, NEW v \in VendaCf, VendaCerta(v),
         vendaCf'[v] = vendaCf[v], pagosCf'[v] = pagosCf[v],
         vendaCf[v].status = "ABERTA" => sessaoCf'[vendaCf[v].sessao].status = "ABERTO"
  PROVE  VendaCerta(v)'
<1>1. \A F : PagoCf(v, F)' = PagoCf(v, F)
  BY DEF PagoCf
<1>2. vendaCf[v].status = "FINALIZADA" => NoTempo(vendaCf[v].sessao, vendaCf[v].dia)'
  <2>1. PICK s, d : s = vendaCf[v].sessao /\ d = vendaCf[v].dia
    OBVIOUS
  <2>2. d \in Nat
    BY <2>1, LinhasDeTipo DEF TiposCf
  <2>3. vendaCf[v].status = "FINALIZADA" => NoTempo(s, d)
    BY <2>1 DEF VendaCerta
  <2>4. vendaCf[v].status = "FINALIZADA" => NoTempo(s, d)'
    BY <2>2, <2>3, TempoFica
  <2>5. s = vendaCf'[v].sessao /\ d = vendaCf'[v].dia
    BY <2>1
  <2> QED BY <2>1, <2>4, <2>5 DEF NoTempo
<1>3. vendaCf[v].sessao \in SessaoCf => sessaoCf'[vendaCf[v].sessao].status # "NENHUMA"
  BY DEF VendaCerta, TempoAvanca
<1> QED BY <1>1, <1>2, <1>3 DEF VendaCerta, NoTempo

LEMMA MovimentosFicam ==
  ASSUME TypeOKConferencia, TypeOKConferencia', TempoAvanca, MovimentosCertos, movCf' = movCf
  PROVE  MovimentosCertos' /\ Movidos' = Movidos
<1>1. ASSUME NEW x \in movCf PROVE NoTempo(x.sessao, x.dia)'
  BY <1>1, TempoFica, LinhasDeTipo DEF MovimentosCertos, TiposCf
<1>2. \A x \in movCf' : NoTempo(x.sessao, x.dia)'
  BY <1>1
<1>3. MovimentosCertos'
  BY <1>2 DEF MovimentosCertos
<1>4. Movidos' = Movidos
  BY DEF Movidos, MovimentosDa
<1> QED BY <1>3, <1>4

LEMMA SessaoFica ==
  ASSUME TypeOKConferencia, TypeOKConferencia', TempoAvanca, NEW s \in SessaoCf, SessaoCerta(s),
         sessaoCf'[s] = sessaoCf[s], sessaoCf[s].status = "FECHADO" => gaveta'[s] = gaveta[s]
  PROVE  SessaoCerta(s)'
<1>1. hojeCf <= hojeCf' /\ hojeCf \in Nat /\ hojeCf' \in Nat
      /\ sessaoCf[s].aberto \in Nat /\ sessaoCf[s].fechado \in Nat
  BY LinhasDeTipo, TiposDepois DEF TempoAvanca, TiposCf
<1>2. sessaoCf[s].aberto <= hojeCf => sessaoCf[s].aberto <= hojeCf'
  BY <1>1
<1>3. sessaoCf[s].fechado <= hojeCf => sessaoCf[s].fechado <= hojeCf'
  BY <1>1
<1> QED BY <1>2, <1>3 DEF SessaoCerta

LEMMA GavetaFica ==
  ASSUME NEW s \in SessaoCf, GavetaCerta(s), gaveta'[s] = gaveta[s],
         Recebido'[s] = Recebido[s], Movidos'[s] = Movidos[s],
         sessaoCf[s].status = "NENHUMA" => sessaoCf'[s].status = "NENHUMA",
         sessaoCf'[s].abertura = sessaoCf[s].abertura
  PROVE  GavetaCerta(s)'
  BY DEF GavetaCerta

\* the sales leave the same: nothing of them changes
LEMMA RecebidoFica ==
  ASSUME vendaCf' = vendaCf, pagosCf' = pagosCf PROVE Recebido' = Recebido
<1>1. Deixa' = Deixa
  BY DEF Deixa, PagoCf
<1>2. Deixas' = Deixas
  BY <1>1 DEF Deixas
<1> QED BY <1>2 DEF Recebido

LEMMA RecebidoMuda ==
  ASSUME TypeOKConferencia, TypeOKConferencia', NEW v \in VendaCf, NEW s \in SessaoCf,
         \A w \in VendaCf \ {v} : vendaCf'[w] = vendaCf[w] /\ pagosCf'[w] = pagosCf[w],
         vendaCf'[v].sessao = s, vendaCf[v].sessao = s \/ (Deixa[v] = 0 /\ vendaCf[v].sessao = NuloCf)
  PROVE  /\ Recebido'[s] = Recebido[s] - Deixa[v] + Deixa'[v]
         /\ \A z \in SessaoCf \ {s} : Recebido'[z] = Recebido[z]
<1>1. \A z \in SessaoCf : Recebido'[z] = Recebido[z] - Deixas[z][v] + Deixas'[z][v]
  BY VendaMuda
<1>2. Deixas[s][v] = Deixa[v] /\ Deixas'[s][v] = Deixa'[v]
  <2>1. Deixas[s][v] = IF vendaCf[v].sessao = s THEN Deixa[v] ELSE 0
    BY DeixaTipo DEF DeixasCf
  <2>2. Deixas'[s][v] = IF vendaCf'[v].sessao = s THEN Deixa'[v] ELSE 0
    BY TiposDepois DEF DeixasCf
  <2> QED BY <2>1, <2>2
<1>3. ASSUME NEW z \in SessaoCf, z # s PROVE Recebido'[z] = Recebido[z]
  <2>1. vendaCf[v].sessao # z /\ vendaCf'[v].sessao # z
    BY <1>3, ConstantesConferencia
  <2>2. Deixas[z][v] = 0
    BY <2>1, DeixaTipo DEF DeixasCf
  <2>3. Deixas'[z][v] = 0
    BY <2>1, TiposDepois DEF DeixasCf
  <2>4. Recebido[z] \in Int
    BY DeixaTipo DEF DeixasCf
  <2> QED BY <1>1, <2>2, <2>3, <2>4
<1> QED BY <1>1, <1>2, <1>3

\* A step of one sale of an open session keeps the invariant when the drawer moves by
\* what the sale leaves more, or less, and the sale is right after it.
LEMMA PassoDeVenda ==
  ASSUME TypeOKConferencia, TypeOKConferencia', InvCaixaCf, NEW v \in VendaCf, NEW s \in SessaoCf,
         \A w \in VendaCf \ {v} : vendaCf'[w] = vendaCf[w] /\ pagosCf'[w] = pagosCf[w],
         vendaCf'[v].sessao = s, vendaCf[v].sessao = s \/ (Deixa[v] = 0 /\ vendaCf[v].sessao = NuloCf),
         sessaoCf[s].status = "ABERTO", sessaoCf' = sessaoCf, movCf' = movCf, hojeCf' = hojeCf,
         gaveta'[s] = gaveta[s] - Deixa[v] + Deixa'[v], \A z \in SessaoCf \ {s} : gaveta'[z] = gaveta[z],
         VendaCerta(v)'
  PROVE  InvCaixaCf'
<1>1. TempoAvanca
  BY LinhasDeTipo DEF TempoAvanca, TiposCf
<1>2. MovimentosCertos' /\ Movidos' = Movidos
  BY <1>1, MovimentosFicam DEF InvCaixaCf
<1>3. ASSUME NEW w \in VendaCf PROVE VendaCerta(w)'
  <2>1. CASE w = v
    BY <2>1
  <2>2. CASE w # v
    <3>1. vendaCf'[w] = vendaCf[w] /\ pagosCf'[w] = pagosCf[w] /\ VendaCerta(w)
      BY <2>2 DEF InvCaixaCf
    <3>2. vendaCf[w].status = "ABERTA" => sessaoCf'[vendaCf[w].sessao].status = "ABERTO"
      BY <3>1 DEF VendaCerta
    <3> QED BY <1>1, <3>1, <3>2, VendaFica
  <2> QED BY <2>1, <2>2
<1>4. ASSUME NEW z \in SessaoCf PROVE SessaoCerta(z)'
  <2>1. sessaoCf'[z] = sessaoCf[z] /\ SessaoCerta(z)
    BY DEF InvCaixaCf
  <2>2. sessaoCf[z].status = "FECHADO" => gaveta'[z] = gaveta[z]
    OBVIOUS
  <2> QED BY <1>1, <2>1, <2>2, SessaoFica
<1>5. ASSUME NEW z \in SessaoCf PROVE GavetaCerta(z)'
  <2>0. GavetaCerta(z) /\ Movidos'[z] = Movidos[z] /\ sessaoCf'[z] = sessaoCf[z]
    BY <1>2 DEF InvCaixaCf
  <2>1. CASE z = s
    <3>1. Recebido'[s] = Recebido[s] - Deixa[v] + Deixa'[v]
      BY RecebidoMuda
    <3>2. gaveta[s] = sessaoCf[s].abertura + Recebido[s] + Movidos[s]
      BY <2>0, <2>1 DEF GavetaCerta
    <3>3. Recebido[s] \in Int /\ Deixa[v] \in Int /\ sessaoCf[s].abertura \in Int
      BY DeixaTipo, LinhasDeTipo DEF DeixasCf, TiposCf
    <3>4. Deixa'[v] \in Int
      BY TiposDepois DEF DeixasCf
    <3>5. Movidos[s] \in Int
      <4>1. MovimentosDa(s) \in SUBSET movCf /\ movCf \subseteq Movimentacao /\ IsFiniteSet(movCf)
        BY DEF MovimentosDa, InvCaixaCf, MovimentosCertos, TypeOKConferencia
      <4>2. PICK M : M = MovimentosDa(s)
        OBVIOUS
      <4>3. M \in SUBSET Movimentacao /\ IsFiniteSet(M)
        BY <4>1, <4>2, FS_Subset
      <4>4. SumFunctionOnSet(Entrou, M) \in Int
        BY <4>3, MovimentoSoma
      <4> QED BY <4>2, <4>4 DEF Movidos
    <3>6. gaveta'[s] = sessaoCf[s].abertura + Recebido'[s] + Movidos[s]
      BY <3>1, <3>2, <3>3, <3>4, <3>5
    <3> QED BY <2>0, <2>1, <3>6 DEF GavetaCerta
  <2>2. CASE z # s
    <3>1. Recebido'[z] = Recebido[z] /\ gaveta'[z] = gaveta[z]
      BY <2>2, RecebidoMuda
    <3> QED BY <2>0, <3>1, GavetaFica
  <2> QED BY <2>1, <2>2
<1> QED BY <1>2, <1>3, <1>4, <1>5 DEF InvCaixaCf

LEMMA TipoIniciarVenda ==
  ASSUME TypeOKConferencia, NEW v \in VendaCf, NEW s \in SessaoCf, IniciarVendaCf(v, s)
  PROVE  TypeOKConferencia'
<1>1. vendaCf[v] \in VendaHub
  BY DEF TypeOKConferencia
<1>2. [vendaCf[v] EXCEPT !.status = "ABERTA", !.sessao = s] \in VendaHub
  BY <1>1 DEF VendaHub
<1>3. vendaCf' = [vendaCf EXCEPT ![v] = [vendaCf[v] EXCEPT !.status = "ABERTA", !.sessao = s]]
  BY DEF IniciarVendaCf, TypeOKConferencia
<1>4. vendaCf' \in [VendaCf -> VendaHub]
  BY <1>2, <1>3 DEF TypeOKConferencia
<1> QED BY <1>4 DEF IniciarVendaCf, TypeOKConferencia

LEMMA TipoPagar ==
  ASSUME TypeOKConferencia, NEW v \in VendaCf, NEW s \in SessaoCf, NEW f \in LinhaForma,
         NEW valor \in Entregas, PagarCf(v, s, f, valor)
  PROVE  TypeOKConferencia'
<1>1. pagosCf' \in [VendaCf -> [LinhaForma -> Entregas \cup {0}]]
  <2>1. pagosCf' = [pagosCf EXCEPT ![v] = [pagosCf[v] EXCEPT ![f] = valor]]
    BY DEF PagarCf, TypeOKConferencia
  <2>2. [pagosCf[v] EXCEPT ![f] = valor] \in [LinhaForma -> Entregas \cup {0}]
    BY DEF TypeOKConferencia
  <2> QED BY <2>1, <2>2 DEF TypeOKConferencia
<1>2. gaveta' \in [SessaoCf -> Nat]
  <2>1. NaGaveta(f, valor) \in Nat
    BY ConstantesConferencia DEF NaGaveta
  <2>2. gaveta[s] + NaGaveta(f, valor) \in Nat
    BY <2>1 DEF TypeOKConferencia
  <2> QED BY <2>2 DEF PagarCf, TypeOKConferencia
<1> QED BY <1>1, <1>2 DEF PagarCf, TypeOKConferencia

LEMMA TipoRemover ==
  ASSUME TypeOKConferencia, NEW v \in VendaCf, NEW s \in SessaoCf, NEW f \in LinhaForma,
         RemoverPagamentoCf(v, s, f)
  PROVE  TypeOKConferencia'
<1>1. pagosCf' \in [VendaCf -> [LinhaForma -> Entregas \cup {0}]]
  <2>1. pagosCf' = [pagosCf EXCEPT ![v] = [pagosCf[v] EXCEPT ![f] = 0]]
    BY DEF RemoverPagamentoCf, TypeOKConferencia
  <2>2. [pagosCf[v] EXCEPT ![f] = 0] \in [LinhaForma -> Entregas \cup {0}]
    BY DEF TypeOKConferencia
  <2> QED BY <2>1, <2>2 DEF TypeOKConferencia
<1>2. gaveta' \in [SessaoCf -> Nat]
  <2>1. pagosCf[v][f] \in Nat
    BY PagoTipo
  <2>2. PICK n : n = NaGaveta(f, pagosCf[v][f])
    OBVIOUS
  <2>3. n \in Nat
    BY <2>1, <2>2 DEF NaGaveta
  <2>4. gaveta[s] - n \in Nat
    BY <2>2, <2>3 DEF TypeOKConferencia, RemoverPagamentoCf
  <2>5. gaveta' = [gaveta EXCEPT ![s] = gaveta[s] - n]
    BY <2>2 DEF RemoverPagamentoCf
  <2> QED BY <2>4, <2>5 DEF TypeOKConferencia
<1> QED BY <1>1, <1>2 DEF RemoverPagamentoCf, TypeOKConferencia

LEMMA TipoCancelar ==
  ASSUME TypeOKConferencia, NEW v \in VendaCf, CancelarVendaCf(v)
  PROVE  TypeOKConferencia'
<1>1. vendaCf[v] \in VendaHub
  BY DEF TypeOKConferencia
<1>2. [vendaCf[v] EXCEPT !.status = "CANCELADA"] \in VendaHub
  BY <1>1 DEF VendaHub
<1>3. vendaCf' = [vendaCf EXCEPT ![v] = [vendaCf[v] EXCEPT !.status = "CANCELADA"]]
  BY DEF CancelarVendaCf, TypeOKConferencia
<1>4. vendaCf' \in [VendaCf -> VendaHub]
  BY <1>2, <1>3 DEF TypeOKConferencia
<1> QED BY <1>4 DEF CancelarVendaCf, TypeOKConferencia

LEMMA TipoFinalizar ==
  ASSUME TypeOKConferencia, NEW v \in VendaCf, NEW s \in SessaoCf, FinalizarVendaCf(v, s)
  PROVE  TypeOKConferencia'
<1>1. PICK pago, t : pago = PagoCf(v, LinhaForma) /\ t = pago - TotalVenda[v]
  OBVIOUS
<1>2. pago \in Nat /\ TotalVenda[v] \in Nat /\ t >= 0
  BY <1>1, PagoTipo, ConstantesConferencia DEF FinalizarVendaCf
<1>3. t \in Nat
  BY <1>1, <1>2
<1>4. vendaCf[v] \in VendaHub
  BY DEF TypeOKConferencia
<1>5. PICK n : n = [vendaCf[v] EXCEPT !.status = "FINALIZADA", !.troco = t, !.recebido = pago, !.dia = hojeCf]
  OBVIOUS
<1>6. n \in VendaHub
  <2>1. hojeCf \in 0..MaxDiaCf
    BY LinhasDeTipo DEF TiposCf
  <2>2. PICK x, h : x = vendaCf[v] /\ h = hojeCf
    OBVIOUS
  <2>3. x \in VendaHub /\ h \in 0..MaxDiaCf
    BY <1>4, <2>1, <2>2
  <2>4. n = [x EXCEPT !.status = "FINALIZADA", !.troco = t, !.recebido = pago, !.dia = h]
    BY <1>5, <2>2
  <2> QED BY <1>2, <1>3, <2>3, <2>4 DEF VendaHub
<1>7. vendaCf' = [vendaCf EXCEPT ![v] = n]
  BY <1>1, <1>5 DEF FinalizarVendaCf, TypeOKConferencia
<1>8. vendaCf' \in [VendaCf -> VendaHub]
  BY <1>6, <1>7 DEF TypeOKConferencia
<1>9. gaveta' = [gaveta EXCEPT ![s] = gaveta[s] - t] /\ gaveta[s] >= t
  BY <1>1 DEF FinalizarVendaCf
<1>10. gaveta' \in [SessaoCf -> Nat]
  BY <1>3, <1>9 DEF TypeOKConferencia
<1> QED BY <1>8, <1>10 DEF FinalizarVendaCf, TypeOKConferencia

LEMMA PassoIniciarVenda ==
  ASSUME TypeOKConferencia, InvCaixaCf, NEW v \in VendaCf, NEW s \in SessaoCf, IniciarVendaCf(v, s)
  PROVE  TypeOKConferencia' /\ InvCaixaCf'
<1>1. TypeOKConferencia'
  BY TipoIniciarVenda
<1>2. vendaCf[v] = SemVendaCf /\ \A f \in LinhaForma : pagosCf[v][f] = 0
  BY DEF InvCaixaCf, VendaCerta, IniciarVendaCf
<1>3. vendaCf'[v] = [vendaCf[v] EXCEPT !.status = "ABERTA", !.sessao = s]
      /\ \A w \in VendaCf \ {v} : vendaCf'[w] = vendaCf[w]
  BY DEF IniciarVendaCf, TypeOKConferencia
<1>4. vendaCf'[v].status = "ABERTA" /\ vendaCf'[v].sessao = s /\ vendaCf'[v].troco = 0
  BY <1>2, <1>3 DEF SemVendaCf
<1>5. PagoCf(v, FormasDinheiro) = 0 /\ PagoCf(v, FormasDinheiro)' = 0
  <2>1. PagoCf(v, FormasDinheiro) = 0
    BY <1>2, PagoTipo, FormasFinitas
  <2> QED BY <2>1 DEF PagoCf, IniciarVendaCf
<1>6. Deixa[v] = 0 /\ Deixa'[v] = 0
  <2>1. Deixa[v] = 0
    BY <1>2, <1>5, DeixaTipo DEF DeixasCf, SemVendaCf
  <2>2. Deixa'[v] = 0
    BY <1>1, <1>4, <1>5, TiposDepois DEF DeixasCf
  <2> QED BY <2>1, <2>2
<1>7. vendaCf[v].sessao = NuloCf
  BY <1>2 DEF SemVendaCf
<1>8. VendaCerta(v)'
  BY <1>4 DEF VendaCerta, IniciarVendaCf
<1>9. gaveta[s] - Deixa[v] + Deixa'[v] = gaveta[s]
  BY <1>6, LinhasDeTipo DEF TiposCf
<1>10. sessaoCf[s].status = "ABERTO" /\ sessaoCf' = sessaoCf /\ movCf' = movCf /\ hojeCf' = hojeCf
       /\ gaveta' = gaveta /\ pagosCf' = pagosCf
  BY DEF IniciarVendaCf
<1>11. InvCaixaCf'
  BY <1>1, <1>3, <1>4, <1>6, <1>7, <1>8, <1>9, <1>10, PassoDeVenda
<1> QED BY <1>1, <1>11

\* what a payment changes in the cash of its sale is what moves in the drawer
LEMMA PassoPagar ==
  ASSUME TypeOKConferencia, InvCaixaCf, NEW v \in VendaCf, NEW s \in SessaoCf, NEW f \in LinhaForma,
         NEW valor \in Entregas, PagarCf(v, s, f, valor)
  PROVE  TypeOKConferencia' /\ InvCaixaCf'
<1>1. TypeOKConferencia'
  BY TipoPagar
<1>2. vendaCf[v].status = "ABERTA" /\ vendaCf[v].sessao = s /\ sessaoCf[s].status = "ABERTO"
      /\ vendaCf[v].troco = 0
  BY DEF InvCaixaCf, VendaCerta, PagarCf, AbertaNa
<1>3. pagosCf'[v][f] = valor /\ pagosCf[v][f] = 0
      /\ \A g \in LinhaForma \ {f} : pagosCf'[v][g] = pagosCf[v][g]
  BY DEF PagarCf, TypeOKConferencia
<1>4. \A w \in VendaCf \ {v} : vendaCf'[w] = vendaCf[w] /\ pagosCf'[w] = pagosCf[w]
  BY DEF PagarCf, TypeOKConferencia
<1>5. valor \in Nat
  BY ConstantesConferencia
<1>6. PagoCf(v, FormasDinheiro)' = PagoCf(v, FormasDinheiro) + NaGaveta(f, valor)
  <2>1. PagoCf(v, FormasDinheiro)'
        = PagoCf(v, FormasDinheiro) + (IF f \in FormasDinheiro THEN pagosCf'[v][f] - pagosCf[v][f] ELSE 0)
    BY <1>1, <1>3, PagoMuda, FormasFinitas
  <2>2. f \in FormasDinheiro <=> TipoForma[f] = DINHEIRO
    BY DEF FormasDinheiro, FormasDoTipo
  <2> QED BY <1>3, <1>5, <2>1, <2>2 DEF NaGaveta
<1>7. Deixa'[v] = Deixa[v] + NaGaveta(f, valor) /\ Deixa[v] \in Int /\ NaGaveta(f, valor) \in Nat
  <2>1. Deixa[v] = PagoCf(v, FormasDinheiro) - vendaCf[v].troco /\ Deixa[v] \in Int
    BY DeixaTipo DEF DeixasCf
  <2>2. Deixa'[v] = PagoCf(v, FormasDinheiro)' - vendaCf'[v].troco
    BY <1>1, TiposDepois DEF DeixasCf
  <2>3. vendaCf'[v].troco = 0
    BY <1>2 DEF PagarCf
  <2>4. PagoCf(v, FormasDinheiro) \in Nat
    BY PagoTipo, FormasFinitas
  <2>5. NaGaveta(f, valor) \in Nat
    BY <1>5 DEF NaGaveta
  <2> QED BY <1>2, <1>6, <2>1, <2>2, <2>3, <2>4, <2>5
<1>8. VendaCerta(v)'
  BY <1>2 DEF VendaCerta, PagarCf
<1>9. gaveta'[s] = gaveta[s] - Deixa[v] + Deixa'[v]
  <2>1. gaveta'[s] = gaveta[s] + NaGaveta(f, valor) /\ gaveta[s] \in Int
    BY DEF PagarCf, TypeOKConferencia
  <2> QED BY <1>7, <2>1
<1>10. /\ sessaoCf' = sessaoCf /\ movCf' = movCf /\ hojeCf' = hojeCf /\ vendaCf' = vendaCf
       /\ \A z \in SessaoCf \ {s} : gaveta'[z] = gaveta[z]
  BY DEF PagarCf, TypeOKConferencia
<1>11. InvCaixaCf'
  BY <1>1, <1>2, <1>4, <1>8, <1>9, <1>10, PassoDeVenda
<1> QED BY <1>1, <1>11

LEMMA PassoRemover ==
  ASSUME TypeOKConferencia, InvCaixaCf, NEW v \in VendaCf, NEW s \in SessaoCf, NEW f \in LinhaForma,
         RemoverPagamentoCf(v, s, f)
  PROVE  TypeOKConferencia' /\ InvCaixaCf'
<1>1. TypeOKConferencia'
  BY TipoRemover
<1>2. vendaCf[v].status = "ABERTA" /\ vendaCf[v].sessao = s /\ sessaoCf[s].status = "ABERTO"
      /\ vendaCf[v].troco = 0
  BY DEF InvCaixaCf, VendaCerta, RemoverPagamentoCf, AbertaNa
<1>3. pagosCf'[v][f] = 0 /\ \A g \in LinhaForma \ {f} : pagosCf'[v][g] = pagosCf[v][g]
  BY DEF RemoverPagamentoCf, TypeOKConferencia
<1>4. \A w \in VendaCf \ {v} : vendaCf'[w] = vendaCf[w] /\ pagosCf'[w] = pagosCf[w]
  BY DEF RemoverPagamentoCf, TypeOKConferencia
<1>5. PICK n : n = NaGaveta(f, pagosCf[v][f])
  OBVIOUS
<1>6. PagoCf(v, FormasDinheiro)' = PagoCf(v, FormasDinheiro) - n /\ n \in Nat
  <2>1. PagoCf(v, FormasDinheiro)'
        = PagoCf(v, FormasDinheiro) + (IF f \in FormasDinheiro THEN pagosCf'[v][f] - pagosCf[v][f] ELSE 0)
    BY <1>1, <1>3, PagoMuda, FormasFinitas
  <2>2. f \in FormasDinheiro <=> TipoForma[f] = DINHEIRO
    BY DEF FormasDinheiro, FormasDoTipo
  <2>3. pagosCf[v][f] \in Nat /\ PagoCf(v, FormasDinheiro) \in Nat
    BY PagoTipo, FormasFinitas
  <2> QED BY <1>3, <1>5, <2>1, <2>2, <2>3 DEF NaGaveta
<1>7. Deixa'[v] = Deixa[v] - n /\ Deixa[v] \in Int
  <2>1. Deixa[v] = PagoCf(v, FormasDinheiro) - vendaCf[v].troco /\ Deixa[v] \in Int
    BY DeixaTipo DEF DeixasCf
  <2>2. Deixa'[v] = PagoCf(v, FormasDinheiro)' - vendaCf'[v].troco
    BY <1>1, TiposDepois DEF DeixasCf
  <2>3. vendaCf'[v].troco = 0
    BY <1>2 DEF RemoverPagamentoCf
  <2>4. PagoCf(v, FormasDinheiro) \in Nat
    BY PagoTipo, FormasFinitas
  <2> QED BY <1>2, <1>6, <2>1, <2>2, <2>3, <2>4
<1>8. VendaCerta(v)'
  BY <1>2 DEF VendaCerta, RemoverPagamentoCf
<1>9. gaveta'[s] = gaveta[s] - Deixa[v] + Deixa'[v]
  <2>1. gaveta'[s] = gaveta[s] - n /\ gaveta[s] \in Int
    BY <1>5 DEF RemoverPagamentoCf, TypeOKConferencia
  <2> QED BY <1>6, <1>7, <2>1
<1>10. /\ sessaoCf' = sessaoCf /\ movCf' = movCf /\ hojeCf' = hojeCf /\ vendaCf' = vendaCf
       /\ \A z \in SessaoCf \ {s} : gaveta'[z] = gaveta[z]
  BY DEF RemoverPagamentoCf, TypeOKConferencia
<1>11. InvCaixaCf'
  BY <1>1, <1>2, <1>4, <1>8, <1>9, <1>10, PassoDeVenda
<1> QED BY <1>1, <1>11

LEMMA PassoCancelar ==
  ASSUME TypeOKConferencia, InvCaixaCf, NEW v \in VendaCf, CancelarVendaCf(v)
  PROVE  TypeOKConferencia' /\ InvCaixaCf'
<1>1. TypeOKConferencia'
  BY TipoCancelar
<1>2. PICK s \in SessaoCf : s = vendaCf[v].sessao
  BY DEF InvCaixaCf, VendaCerta, CancelarVendaCf
<1>3. vendaCf[v].status = "ABERTA" /\ sessaoCf[s].status = "ABERTO" /\ vendaCf[v].troco = 0
  BY <1>2 DEF InvCaixaCf, VendaCerta, CancelarVendaCf
<1>4. vendaCf'[v] = [vendaCf[v] EXCEPT !.status = "CANCELADA"]
      /\ \A w \in VendaCf \ {v} : vendaCf'[w] = vendaCf[w]
  BY DEF CancelarVendaCf, TypeOKConferencia
<1>5. vendaCf[v] \in VendaHub
  BY DEF TypeOKConferencia
<1>6. vendaCf'[v].status = "CANCELADA" /\ vendaCf'[v].sessao = s /\ vendaCf'[v].troco = 0
  BY <1>2, <1>3, <1>4, <1>5 DEF VendaHub
<1>7. \A f \in LinhaForma : pagosCf[v][f] = 0
  <2>1. PagoCf(v, LinhaForma) = 0
    BY DEF CancelarVendaCf
  <2>2. \A f \in LinhaForma : pagosCf[v][f] \in Nat /\ pagosCf[v][f] <= PagoCf(v, LinhaForma)
    BY PagoTipo
  <2> QED BY <2>1, <2>2
<1>8. /\ sessaoCf' = sessaoCf /\ movCf' = movCf /\ hojeCf' = hojeCf /\ gaveta' = gaveta
      /\ pagosCf' = pagosCf
  BY DEF CancelarVendaCf
<1>9. VendaCerta(v)'
  BY <1>3, <1>6, <1>7, <1>8 DEF VendaCerta
<1>10. Deixa'[v] = Deixa[v] /\ Deixa[v] \in Int
  <2>1. Deixa[v] = PagoCf(v, FormasDinheiro) - vendaCf[v].troco /\ Deixa[v] \in Int
    BY DeixaTipo DEF DeixasCf
  <2>2. Deixa'[v] = PagoCf(v, FormasDinheiro)' - vendaCf'[v].troco
    BY <1>1, TiposDepois DEF DeixasCf
  <2>3. PagoCf(v, FormasDinheiro)' = PagoCf(v, FormasDinheiro)
    BY <1>8 DEF PagoCf
  <2> QED BY <1>3, <1>6, <2>1, <2>2, <2>3
<1>11. gaveta'[s] = gaveta[s] - Deixa[v] + Deixa'[v]
  BY <1>8, <1>10, LinhasDeTipo DEF TiposCf
<1>12. InvCaixaCf'
  BY <1>1, <1>2, <1>3, <1>4, <1>6, <1>8, <1>9, <1>11, PassoDeVenda
<1> QED BY <1>1, <1>12

LEMMA PassoFinalizar ==
  ASSUME TypeOKConferencia, InvCaixaCf, NEW v \in VendaCf, NEW s \in SessaoCf, FinalizarVendaCf(v, s)
  PROVE  TypeOKConferencia' /\ InvCaixaCf'
<1>1. TypeOKConferencia'
  BY TipoFinalizar
<1>2. PICK t : t = PagoCf(v, LinhaForma) - TotalVenda[v]
  OBVIOUS
<1>3. /\ vendaCf[v].status = "ABERTA" /\ vendaCf[v].sessao = s /\ sessaoCf[s].status = "ABERTO"
      /\ vendaCf[v].troco = 0
      /\ t > 0 => PagoCf(v, FormasDinheiro) > 0
  BY <1>2 DEF InvCaixaCf, VendaCerta, FinalizarVendaCf, AbertaNa, FormasDinheiro
<1>4. vendaCf'[v] = [vendaCf[v] EXCEPT !.status = "FINALIZADA", !.troco = t,
                                       !.recebido = PagoCf(v, LinhaForma), !.dia = hojeCf]
      /\ \A w \in VendaCf \ {v} : vendaCf'[w] = vendaCf[w]
  BY <1>2 DEF FinalizarVendaCf, TypeOKConferencia
<1>5. vendaCf[v] \in VendaHub
  BY DEF TypeOKConferencia
<1>6. /\ vendaCf'[v].status = "FINALIZADA" /\ vendaCf'[v].sessao = s /\ vendaCf'[v].troco = t
      /\ vendaCf'[v].dia = hojeCf
  BY <1>3, <1>4, <1>5 DEF VendaHub
<1>7. /\ sessaoCf' = sessaoCf /\ movCf' = movCf /\ hojeCf' = hojeCf /\ pagosCf' = pagosCf
      /\ gaveta'[s] = gaveta[s] - t /\ \A z \in SessaoCf \ {s} : gaveta'[z] = gaveta[z]
  BY <1>2 DEF FinalizarVendaCf, TypeOKConferencia
<1>8. \A F : PagoCf(v, F)' = PagoCf(v, F)
  BY <1>7 DEF PagoCf
<1>9. NoTempo(vendaCf[v].sessao, vendaCf[v].dia)'
  <2>1. sessaoCf[s].aberto <= hojeCf
    BY <1>3 DEF InvCaixaCf, SessaoCerta
  <2>2. hojeCf <= hojeCf
    BY LinhasDeTipo DEF TiposCf
  <2> QED BY <1>3, <1>6, <1>7, <2>1, <2>2 DEF NoTempo
<1>10. VendaCerta(v)'
  <2>1. PICK p, q : p = PagoCf(v, LinhaForma) /\ q = PagoCf(v, FormasDinheiro)
    OBVIOUS
  <2>2. PagoCf(v, LinhaForma)' = p /\ PagoCf(v, FormasDinheiro)' = q
    BY <1>8, <2>1
  <2>3. t = p - TotalVenda[v] /\ (t > 0 => q > 0)
    BY <1>2, <1>3, <2>1
  <2> QED BY <1>3, <1>6, <1>7, <1>9, <2>2, <2>3 DEF VendaCerta, NoTempo
<1>11. t \in Int
  BY <1>2, PagoTipo, ConstantesConferencia
<1>12. Deixa'[v] = Deixa[v] - t /\ Deixa[v] \in Int
  <2>1. Deixa[v] = PagoCf(v, FormasDinheiro) - vendaCf[v].troco /\ Deixa[v] \in Int
    BY DeixaTipo DEF DeixasCf
  <2>2. Deixa'[v] = PagoCf(v, FormasDinheiro)' - vendaCf'[v].troco
    BY <1>1, TiposDepois DEF DeixasCf
  <2>3. PagoCf(v, FormasDinheiro)' = PagoCf(v, FormasDinheiro) /\ PagoCf(v, FormasDinheiro) \in Nat
    BY <1>8, PagoTipo, FormasFinitas
  <2> QED BY <1>3, <1>6, <1>11, <2>1, <2>2, <2>3
<1>13. gaveta'[s] = gaveta[s] - Deixa[v] + Deixa'[v]
  <2>1. gaveta[s] \in Int
    BY LinhasDeTipo DEF TiposCf
  <2> QED BY <1>7, <1>11, <1>12, <2>1
<1>14. InvCaixaCf'
  BY <1>1, <1>3, <1>4, <1>6, <1>7, <1>10, <1>13, PassoDeVenda
<1> QED BY <1>1, <1>14

\* sessions, movements and days leave the sales alone
LEMMA VendasFicam ==
  ASSUME TypeOKConferencia, TypeOKConferencia', InvCaixaCf, TempoAvanca,
         vendaCf' = vendaCf, pagosCf' = pagosCf,
         \A v \in VendaCf : vendaCf[v].status = "ABERTA" => sessaoCf'[vendaCf[v].sessao] = sessaoCf[vendaCf[v].sessao]
  PROVE  \A v \in VendaCf : VendaCerta(v)'
<1> SUFFICES ASSUME NEW v \in VendaCf PROVE VendaCerta(v)'
  OBVIOUS
<1>1. VendaCerta(v)
  BY DEF InvCaixaCf
<1>2. vendaCf[v].status = "ABERTA" => sessaoCf'[vendaCf[v].sessao].status = "ABERTO"
  BY <1>1 DEF VendaCerta
<1> QED BY <1>1, <1>2, VendaFica

LEMMA PassoAbrirCaixa ==
  ASSUME TypeOKConferencia, InvCaixaCf, NEW s \in SessaoCf, NEW valor \in Aberturas, AbrirCaixaCf(s, valor)
  PROVE  TypeOKConferencia' /\ InvCaixaCf'
<1>0. valor \in Nat /\ hojeCf \in 1..MaxDiaCf /\ hojeCf \in Nat /\ 0 \in 0..MaxDiaCf /\ hojeCf \in 0..MaxDiaCf
  BY ConstantesConferencia, LinhasDeTipo DEF TiposCf
<1>1. PICK n, h : h = hojeCf /\ n = [SemSessaoCf EXCEPT !.status = "ABERTO", !.aberto = h, !.abertura = valor]
  OBVIOUS
<1>2. n \in SessaoHub
  <2>1. SemSessaoCf \in SessaoHub
    BY <1>0 DEF SessaoHub, SemSessaoCf
  <2>2. PICK x : x = SemSessaoCf
    OBVIOUS
  <2>3. n = [x EXCEPT !.status = "ABERTO", !.aberto = h, !.abertura = valor]
    BY <1>1, <2>2
  <2> QED BY <1>0, <1>1, <2>1, <2>2, <2>3 DEF SessaoHub
<1>3. n.status = "ABERTO" /\ n.aberto = h /\ n.abertura = valor
  BY <1>1 DEF SemSessaoCf
<1>4. /\ sessaoCf' = [sessaoCf EXCEPT ![s] = n] /\ gaveta' = [gaveta EXCEPT ![s] = valor]
      /\ vendaCf' = vendaCf /\ pagosCf' = pagosCf /\ movCf' = movCf /\ diaCf' = diaCf /\ hojeCf' = hojeCf
      /\ sessaoCf[s].status = "NENHUMA"
  BY <1>1 DEF AbrirCaixaCf
<1>5. TypeOKConferencia'
  BY <1>0, <1>2, <1>4 DEF TypeOKConferencia
<1>6. /\ sessaoCf'[s] = n /\ gaveta'[s] = valor
      /\ \A z \in SessaoCf \ {s} : sessaoCf'[z] = sessaoCf[z] /\ gaveta'[z] = gaveta[z]
  BY <1>4 DEF TypeOKConferencia
<1>7. TempoAvanca
  <2>1. \A z \in SessaoCf : sessaoCf[z].status # "NENHUMA" => sessaoCf'[z] = sessaoCf[z]
    BY <1>4, <1>6
  <2>2. hojeCf <= hojeCf'
    BY <1>0, <1>4
  <2> QED BY <2>1, <2>2 DEF TempoAvanca
<1>8. MovimentosCertos' /\ Movidos' = Movidos
  BY <1>4, <1>5, <1>7, MovimentosFicam DEF InvCaixaCf
<1>9. \A v \in VendaCf : VendaCerta(v)'
  <2>1. \A v \in VendaCf : vendaCf[v].status = "ABERTA" => sessaoCf'[vendaCf[v].sessao] = sessaoCf[vendaCf[v].sessao]
    BY <1>4, <1>6 DEF InvCaixaCf, VendaCerta
  <2> QED BY <1>4, <1>5, <1>7, <2>1, VendasFicam
<1>10. Recebido' = Recebido
  BY <1>4, RecebidoFica
<1>11. ASSUME NEW z \in SessaoCf, z # s PROVE GavetaCerta(z)' /\ SessaoCerta(z)'
  <2>1. GavetaCerta(z) /\ SessaoCerta(z) /\ sessaoCf'[z] = sessaoCf[z] /\ gaveta'[z] = gaveta[z]
    BY <1>6, <1>11 DEF InvCaixaCf
  <2>2. SessaoCerta(z)'
    BY <1>5, <1>7, <2>1, SessaoFica
  <2>3. GavetaCerta(z)'
    BY <1>8, <1>10, <2>1, GavetaFica
  <2> QED BY <2>2, <2>3
<1>12. SessaoCerta(s)'
  <2>1. sessaoCf'[s].status = "ABERTO" /\ sessaoCf'[s].aberto = h /\ 1 <= h /\ h <= hojeCf'
    <3>1. sessaoCf'[s].status = "ABERTO" /\ sessaoCf'[s].aberto = h
      BY <1>3, <1>6
    <3>2. 1 <= h /\ h <= h
      BY <1>0, <1>1
    <3>3. h = hojeCf'
      BY <1>1, <1>4
    <3> QED BY <3>1, <3>2, <3>3
  <2> QED BY <2>1 DEF SessaoCerta
<1>13. Recebido[s] = 0
  <2>1. PICK f : f = Deixas[s]
    OBVIOUS
  <2>2. \A v \in VendaCf : f[v] = 0
    <3>1. \A v \in VendaCf : vendaCf[v].sessao # s
      BY <1>4 DEF InvCaixaCf, VendaCerta
    <3> QED BY <2>1, <3>1, DeixaTipo DEF DeixasCf
  <2>3. SumFunctionOnSet(f, VendaCf) = 0
    BY <2>2, FormasFinitas, SomaZero
  <2> QED BY <2>1, <2>3, DeixaTipo DEF DeixasCf
<1>14. Movidos[s] = 0
  <2>1. MovimentosDa(s) = {}
    BY <1>4 DEF MovimentosDa, InvCaixaCf, MovimentosCertos, NoTempo
  <2>2. Movidos[s] = SumFunctionOnSet(Entrou, MovimentosDa(s))
    BY DEF Movidos
  <2> QED BY <2>1, <2>2, SomaVazia
<1>15. GavetaCerta(s)'
  BY <1>0, <1>3, <1>6, <1>8, <1>10, <1>13, <1>14 DEF GavetaCerta
<1>16. InvCaixaCf'
  BY <1>8, <1>9, <1>11, <1>12, <1>15 DEF InvCaixaCf
<1> QED BY <1>5, <1>16

LEMMA PassoMovimentar ==
  ASSUME TypeOKConferencia, InvCaixaCf, NEW s \in SessaoCf, NEW tipo \in TipoMov, NEW valor \in Aberturas,
         MovimentarCf(s, tipo, valor)
  PROVE  TypeOKConferencia' /\ InvCaixaCf'
<1>0. /\ valor \in Nat /\ valor \in Nat \ {0} /\ hojeCf \in DiaCf /\ hojeCf \in Nat
      /\ IsFiniteSet(movCf) /\ Cardinality(movCf) \in Nat
  <2>1. valor \in Nat
    BY ConstantesConferencia
  <2>2. valor > 0
    BY DEF MovimentarCf, Movimentavel
  <2>3. IsFiniteSet(movCf)
    BY DEF InvCaixaCf, MovimentosCertos
  <2> QED BY <2>1, <2>2, <2>3, LinhasDeTipo, FS_CardinalityType DEF TiposCf, DiaCf
<1>1. PICK k, h : k = Cardinality(movCf) /\ h = hojeCf
  OBVIOUS
<1>2. PICK x : x = [id |-> k + 1, sessao |-> s, tipo |-> tipo, valor |-> valor, dia |-> h]
  OBVIOUS
<1>3. k \in Nat /\ k + 1 \in 1..MaxMovCf /\ h \in DiaCf
  <2>1. k < MaxMovCf
    BY <1>1 DEF MovimentarCf
  <2> QED BY <1>0, <1>1, <2>1, ConstantesConferencia
<1>4. x \in Movimentacao
  BY <1>0, <1>2, <1>3 DEF Movimentacao
<1>5. PICK e : e = IF tipo = "SUPRIMENTO" THEN valor ELSE -valor
  OBVIOUS
<1>6. e \in Int /\ Entrou[x] = e /\ Sinal(tipo) * valor = e
  <2>1. e \in Int
    BY <1>0, <1>5
  <2>2. Entrou[x] = e
    BY <1>2, <1>4, <1>5 DEF Entrou
  <2>3. CASE tipo = "SUPRIMENTO"
    BY <1>0, <1>5, <2>1, <2>2, <2>3 DEF Sinal
  <2>4. CASE tipo # "SUPRIMENTO"
    BY <1>0, <1>5, <2>1, <2>2, <2>4 DEF Sinal
  <2> QED BY <2>3, <2>4
<1>7. /\ gaveta[s] + e >= 0 /\ gaveta' = [gaveta EXCEPT ![s] = gaveta[s] + e]
      /\ movCf' = movCf \cup {x} /\ sessaoCf[s].status = "ABERTO"
      /\ sessaoCf' = sessaoCf /\ vendaCf' = vendaCf /\ pagosCf' = pagosCf /\ diaCf' = diaCf /\ hojeCf' = hojeCf
  BY <1>1, <1>2, <1>6 DEF MovimentarCf
<1>8. TypeOKConferencia'
  <2>1. gaveta[s] \in Nat
    BY DEF TypeOKConferencia
  <2>2. gaveta[s] + e \in Nat
    BY <1>6, <1>7, <2>1
  <2>3. gaveta' \in [SessaoCf -> Nat]
    BY <1>7, <2>2 DEF TypeOKConferencia
  <2> QED BY <1>4, <1>7, <2>3 DEF TypeOKConferencia
<1>9. TempoAvanca
  BY <1>0, <1>7 DEF TempoAvanca
<1>10. \A v \in VendaCf : VendaCerta(v)'
  BY <1>7, <1>8, <1>9, VendasFicam
<1>11. Recebido' = Recebido
  BY <1>7, RecebidoFica
<1>12. x \notin movCf
  <2>1. x.id = k + 1
    BY <1>2
  <2> QED BY <1>1, <1>3, <2>1 DEF InvCaixaCf, MovimentosCertos
<1>13. MovimentosCertos'
  <2>1. IsFiniteSet(movCf') /\ Cardinality(movCf') = k + 1
    BY <1>0, <1>1, <1>7, <1>12, FS_AddElement
  <2>2. ASSUME NEW y \in movCf PROVE y.id <= k + 1 /\ NoTempo(y.sessao, y.dia)'
    <3>1. y.id <= k /\ y.id \in Nat /\ NoTempo(y.sessao, y.dia) /\ y.dia \in Nat
      BY <1>1, LinhasDeTipo DEF InvCaixaCf, MovimentosCertos, TiposCf
    <3>2. NoTempo(y.sessao, y.dia)'
      BY <1>8, <1>9, <3>1, TempoFica
    <3> QED BY <1>3, <3>1, <3>2
  <2>3. x.id <= k + 1 /\ NoTempo(x.sessao, x.dia)'
    <3>1. x.id = k + 1 /\ x.sessao = s /\ x.dia = h
      BY <1>2
    <3>2. sessaoCf[s].aberto <= h
      BY <1>1, <1>7 DEF InvCaixaCf, SessaoCerta
    <3>3. h <= hojeCf
      BY <1>0, <1>1
    <3> QED BY <1>3, <1>7, <3>1, <3>2, <3>3 DEF NoTempo
  <2>4. \A y \in movCf' : y.id <= Cardinality(movCf') /\ NoTempo(y.sessao, y.dia)'
    BY <1>7, <2>1, <2>2, <2>3
  <2> QED BY <2>1, <2>4 DEF MovimentosCertos
<1>14. ASSUME NEW z \in SessaoCf
       PROVE  Movidos[z] \in Int /\ Movidos'[z] = IF z = s THEN Movidos[z] + e ELSE Movidos[z]
  <2>1. PICK M, N, g : M = MovimentosDa(z) /\ N = MovimentosDa(z)' /\ g = Entrou
    OBVIOUS
  <2>2. M \in SUBSET movCf /\ movCf \subseteq Movimentacao
    BY <2>1 DEF MovimentosDa, TypeOKConferencia
  <2>3. IsFiniteSet(M) /\ \A y \in M : g[y] \in Int
    <3>1. IsFiniteSet(M)
      BY <1>0, <2>2, FS_Subset
    <3>2. \A y \in Movimentacao : g[y] \in Int
      BY <2>1 DEF Entrou, Movimentacao
    <3> QED BY <2>2, <3>1, <3>2
  <2>4. Movidos[z] = SumFunctionOnSet(g, M) /\ Movidos'[z] = SumFunctionOnSet(g, N)
    BY <2>1 DEF Movidos, Entrou
  <2>5. SumFunctionOnSet(g, M) \in Int
    BY <2>3, SomaTipo
  <2>6. CASE z = s
    <3>1. N = M \cup {x} /\ x \notin M
      BY <1>2, <1>7, <1>12, <2>1, <2>6 DEF MovimentosDa
    <3>2. \A y \in M \cup {x} : g[y] \in Int
      BY <1>6, <2>1, <2>3
    <3>3. SumFunctionOnSet(g, M \cup {x}) = g[x] + SumFunctionOnSet(g, M)
      BY <2>3, <3>1, <3>2, SomaPoe
    <3>4. g[x] = e
      BY <1>6, <2>1
    <3>5. e + SumFunctionOnSet(g, M) = SumFunctionOnSet(g, M) + e
      BY <1>6, <2>5
    <3> QED BY <2>4, <2>5, <2>6, <3>1, <3>3, <3>4, <3>5
  <2>7. CASE z # s
    <3>1. N = M
      BY <1>2, <1>7, <2>1, <2>7 DEF MovimentosDa
    <3> QED BY <2>4, <2>5, <2>7, <3>1
  <2> QED BY <2>6, <2>7
<1>15. ASSUME NEW z \in SessaoCf PROVE GavetaCerta(z)' /\ SessaoCerta(z)'
  <2>0. GavetaCerta(z) /\ SessaoCerta(z) /\ sessaoCf'[z] = sessaoCf[z]
    BY <1>7 DEF InvCaixaCf
  <2>1. sessaoCf[z].status = "FECHADO" => gaveta'[z] = gaveta[z]
    BY <1>7 DEF TypeOKConferencia
  <2>2. SessaoCerta(z)'
    BY <1>8, <1>9, <2>0, <2>1, SessaoFica
  <2>3. CASE z = s
    <3>1. gaveta[s] = sessaoCf[s].abertura + Recebido[s] + Movidos[s]
      BY <1>7, <2>0, <2>3 DEF GavetaCerta
    <3>2. sessaoCf[s].abertura \in Int /\ Recebido[s] \in Int /\ Movidos[s] \in Int
      BY <1>14, LinhasDeTipo, DeixaTipo DEF TiposCf, DeixasCf
    <3>3. gaveta'[s] = gaveta[s] + e
      BY <1>7 DEF TypeOKConferencia
    <3>4. gaveta'[s] = sessaoCf[s].abertura + Recebido[s] + Movidos'[s]
      BY <1>6, <1>14, <3>1, <3>2, <3>3
    <3> QED BY <1>7, <1>11, <2>2, <2>3, <3>4 DEF GavetaCerta
  <2>4. CASE z # s
    <3>1. gaveta'[z] = gaveta[z] /\ Movidos'[z] = Movidos[z]
      BY <1>7, <1>14, <2>4 DEF TypeOKConferencia
    <3>2. Recebido'[z] = Recebido[z]
      BY <1>11
    <3>3. GavetaCerta(z)'
      BY <2>0, <3>1, <3>2, GavetaFica
    <3> QED BY <2>2, <3>3
  <2> QED BY <2>3, <2>4
<1>16. InvCaixaCf'
  BY <1>10, <1>13, <1>15 DEF InvCaixaCf
<1> QED BY <1>8, <1>16

\* The session is closed with what is in its drawer.
LEMMA PassoFecharCaixa ==
  ASSUME TypeOKConferencia, InvCaixaCf, NEW s \in SessaoCf, NEW erro \in Erros, FecharCaixaCf(s, erro)
  PROVE  TypeOKConferencia' /\ InvCaixaCf'
<1>1. PICK g, h, E : g = gaveta[s] /\ h = hojeCf /\ E = Esperado(s)
  OBVIOUS
<1>2. g \in Nat /\ h \in Nat /\ h \in 0..MaxDiaCf /\ erro \in Int /\ g + erro >= 0
  BY <1>1, LinhasDeTipo, ConstantesConferencia DEF TiposCf, FecharCaixaCf, Contavel
<1>3. E = g
  BY <1>1, EsperadoCerto DEF FecharCaixaCf
<1>4. PICK c, d : c = g + erro /\ d = c - E
  OBVIOUS
<1>5. c \in Nat /\ d \in Int
  BY <1>2, <1>3, <1>4
<1>6. SituacaoDe(d) \in Situacoes
  BY <1>5 DEF SituacaoDe, Situacoes
<1>7. PICK n : n = [sessaoCf[s] EXCEPT !.status = "FECHADO", !.fechado = h, !.esperado = E,
                      !.contado = c, !.diferenca = d, !.situacao = SituacaoDe(d)]
  OBVIOUS
<1>8. sessaoCf[s] \in SessaoHub /\ sessaoCf[s].status = "ABERTO"
  BY DEF TypeOKConferencia, FecharCaixaCf
<1>9. /\ n.status = "FECHADO" /\ n.fechado = h /\ n.esperado = g /\ n.contado = c /\ n.diferenca = d
      /\ n.situacao = SituacaoDe(d) /\ n.aberto = sessaoCf[s].aberto /\ n.abertura = sessaoCf[s].abertura
  BY <1>3, <1>7, <1>8 DEF SessaoHub
<1>10. n \in SessaoHub
  <2>1. PICK x, q : x = sessaoCf[s] /\ q = SituacaoDe(d)
    OBVIOUS
  <2>2. x \in SessaoHub /\ q \in Situacoes \cup {""} /\ E \in Nat
    BY <1>2, <1>3, <1>6, <1>8, <2>1
  <2>3. n = [x EXCEPT !.status = "FECHADO", !.fechado = h, !.esperado = E,
                      !.contado = c, !.diferenca = d, !.situacao = q]
    BY <1>7, <2>1
  <2> QED BY <1>2, <1>5, <2>2, <2>3 DEF SessaoHub
<1>11. /\ sessaoCf' = [sessaoCf EXCEPT ![s] = n] /\ \A v \in VendaCf : ~AbertaNa(v, s)
       /\ vendaCf' = vendaCf /\ pagosCf' = pagosCf /\ movCf' = movCf /\ diaCf' = diaCf /\ hojeCf' = hojeCf
       /\ gaveta' = gaveta
  BY <1>1, <1>4, <1>7 DEF FecharCaixaCf, TypeOKConferencia
<1>12. TypeOKConferencia'
  BY <1>10, <1>11 DEF TypeOKConferencia
<1>13. sessaoCf'[s] = n /\ \A z \in SessaoCf \ {s} : sessaoCf'[z] = sessaoCf[z]
  BY <1>11 DEF TypeOKConferencia
<1>14. TempoAvanca
  <2>1. hojeCf <= hojeCf'
    BY <1>1, <1>2, <1>11
  <2> QED BY <1>1, <1>9, <1>13, <2>1 DEF TempoAvanca
<1>15. MovimentosCertos' /\ Movidos' = Movidos
  BY <1>11, <1>12, <1>14, MovimentosFicam DEF InvCaixaCf
<1>16. \A v \in VendaCf : VendaCerta(v)'
  <2>1. \A v \in VendaCf : vendaCf[v].status = "ABERTA" => sessaoCf'[vendaCf[v].sessao] = sessaoCf[vendaCf[v].sessao]
    BY <1>11, <1>13 DEF InvCaixaCf, VendaCerta, AbertaNa
  <2> QED BY <1>11, <1>12, <1>14, <2>1, VendasFicam
<1>17. Recebido' = Recebido
  BY <1>11, RecebidoFica
<1>18. ASSUME NEW z \in SessaoCf PROVE GavetaCerta(z)'
  <2>1. /\ sessaoCf[z].status = "NENHUMA" => sessaoCf'[z].status = "NENHUMA"
        /\ sessaoCf'[z].abertura = sessaoCf[z].abertura
    BY <1>8, <1>9, <1>13
  <2>2. GavetaCerta(z) /\ gaveta'[z] = gaveta[z] /\ Recebido'[z] = Recebido[z] /\ Movidos'[z] = Movidos[z]
    BY <1>11, <1>15, <1>17 DEF InvCaixaCf
  <2> QED BY <2>1, <2>2, GavetaFica
<1>19. ASSUME NEW z \in SessaoCf, z # s PROVE SessaoCerta(z)'
  <2>1. SessaoCerta(z) /\ sessaoCf'[z] = sessaoCf[z] /\ gaveta'[z] = gaveta[z]
    BY <1>11, <1>13, <1>19 DEF InvCaixaCf
  <2> QED BY <1>12, <1>14, <2>1, SessaoFica
<1>20. SessaoCerta(s)'
  <2>1. 1 <= n.aberto /\ n.aberto <= hojeCf
    BY <1>8, <1>9 DEF InvCaixaCf, SessaoCerta
  <2>2. h <= hojeCf
    BY <1>1, <1>2
  <2>3. d = c - g
    BY <1>3, <1>4
  <2> QED BY <1>1, <1>9, <1>11, <1>13, <2>1, <2>2, <2>3 DEF SessaoCerta
<1>21. InvCaixaCf'
  BY <1>15, <1>16, <1>18, <1>19, <1>20 DEF InvCaixaCf
<1> QED BY <1>12, <1>21

LEMMA PassoNovoDia ==
  ASSUME TypeOKConferencia, InvCaixaCf, NovoDiaCf
  PROVE  TypeOKConferencia' /\ InvCaixaCf'
<1>1. hojeCf \in Nat /\ hojeCf \in 1..MaxDiaCf /\ hojeCf < MaxDiaCf /\ hojeCf' = hojeCf + 1
  BY LinhasDeTipo DEF TiposCf, NovoDiaCf
<1>2. TypeOKConferencia'
  <2>1. hojeCf' \in DiaCf
    BY <1>1, ConstantesConferencia DEF DiaCf
  <2> QED BY <2>1 DEF NovoDiaCf, TypeOKConferencia
<1>3. /\ sessaoCf' = sessaoCf /\ vendaCf' = vendaCf /\ pagosCf' = pagosCf /\ movCf' = movCf
      /\ gaveta' = gaveta
  BY DEF NovoDiaCf
<1>4. TempoAvanca
  BY <1>1, <1>3 DEF TempoAvanca
<1>5. MovimentosCertos' /\ Movidos' = Movidos
  BY <1>2, <1>3, <1>4, MovimentosFicam DEF InvCaixaCf
<1>6. \A v \in VendaCf : VendaCerta(v)'
  BY <1>2, <1>3, <1>4, VendasFicam
<1>7. \A s \in SessaoCf : SessaoCerta(s)'
  BY <1>2, <1>3, <1>4, SessaoFica DEF InvCaixaCf
<1>8. \A s \in SessaoCf : GavetaCerta(s)'
  BY <1>3, <1>5, RecebidoFica, GavetaFica DEF InvCaixaCf
<1> QED BY <1>2, <1>5, <1>6, <1>7, <1>8 DEF InvCaixaCf

LEMMA CaixaParada ==
  ASSUME TypeOKConferencia, TypeOKConferencia', InvCaixaCf,
         sessaoCf' = sessaoCf, vendaCf' = vendaCf, pagosCf' = pagosCf, movCf' = movCf,
         hojeCf' = hojeCf, gaveta' = gaveta
  PROVE  InvCaixaCf'
<1>1. TempoAvanca
  BY LinhasDeTipo DEF TempoAvanca, TiposCf
<1>2. MovimentosCertos' /\ Movidos' = Movidos
  BY <1>1, MovimentosFicam DEF InvCaixaCf
<1>3. \A v \in VendaCf : VendaCerta(v)'
  BY <1>1, VendasFicam
<1>4. \A s \in SessaoCf : SessaoCerta(s)'
  BY <1>1, SessaoFica DEF InvCaixaCf
<1>5. \A s \in SessaoCf : GavetaCerta(s)'
  BY <1>2, RecebidoFica, GavetaFica DEF InvCaixaCf
<1> QED BY <1>2, <1>3, <1>4, <1>5 DEF InvCaixaCf

LEMMA PassoFecharDia ==
  ASSUME TypeOKConferencia, InvCaixaCf, NEW d \in DiaCf, FecharDiaCf(d)
  PROVE  TypeOKConferencia' /\ InvCaixaCf'
<1>1. PICK r : diaCf' = [diaCf EXCEPT ![d] = r]
  BY DEF FecharDiaCf
<1>2. /\ sessaoCf' = sessaoCf /\ vendaCf' = vendaCf /\ pagosCf' = pagosCf /\ movCf' = movCf
      /\ hojeCf' = hojeCf /\ gaveta' = gaveta
  BY DEF FecharDiaCf
<1>3. TypeOKConferencia'
  BY <1>1, <1>2 DEF TypeOKConferencia
<1> QED BY <1>2, <1>3, CaixaParada

\* The rows of the sessions and of the drawers are right at the start, and the type.
LEMMA InicioCaixaCf == InitConferencia => TypeOKConferencia /\ InvCaixaCf
<1> SUFFICES ASSUME InitConferencia PROVE TypeOKConferencia /\ InvCaixaCf
  OBVIOUS
<1>1. SemSessaoCf \in SessaoHub /\ SemVendaCf \in VendaHub
  <2>1. 0 \in 0..MaxDiaCf
    BY ConstantesConferencia
  <2>2. SemSessaoCf \in SessaoHub
    BY <2>1 DEF SemSessaoCf, SessaoHub
  <2>3. SemVendaCf \in VendaHub
    BY <2>1 DEF SemVendaCf, VendaHub
  <2> QED BY <2>2, <2>3
<1>2. TypeOKConferencia
  BY <1>1, ConstantesConferencia DEF InitConferencia, TypeOKConferencia, DiaCf
<1>3. \A s \in SessaoCf : sessaoCf[s] = SemSessaoCf /\ sessaoCf[s].status = "NENHUMA"
  BY DEF InitConferencia, SemSessaoCf
<1>4. \A s \in SessaoCf : GavetaCerta(s) /\ SessaoCerta(s)
  BY <1>3 DEF GavetaCerta, SessaoCerta
<1>5. ASSUME NEW v \in VendaCf PROVE VendaCerta(v)
  <2>1. vendaCf[v] = SemVendaCf /\ \A f \in LinhaForma : pagosCf[v][f] = 0
    BY DEF InitConferencia
  <2>2. vendaCf[v].status = "NENHUMA" /\ vendaCf[v].sessao = NuloCf /\ vendaCf[v].troco = 0
    BY <2>1 DEF SemVendaCf
  <2> QED BY <2>1, <2>2, ConstantesConferencia DEF VendaCerta
<1>6. MovimentosCertos
  BY FS_EmptySet DEF InitConferencia, MovimentosCertos
<1> QED BY <1>2, <1>4, <1>5, <1>6 DEF InvCaixaCf

LEMMA PassoCaixaCf ==
  ASSUME TypeOKConferencia, InvCaixaCf, [NextConferencia]_varsConferencia
  PROVE  TypeOKConferencia' /\ InvCaixaCf'
<1>1. CASE UNCHANGED varsConferencia
  <2>1. TypeOKConferencia'
    BY <1>1 DEF varsConferencia, TypeOKConferencia
  <2> QED BY <1>1, <2>1, CaixaParada DEF varsConferencia
<1>2. CASE NextConferencia
  BY <1>2, PassoAbrirCaixa, PassoMovimentar, PassoFecharCaixa, PassoIniciarVenda, PassoRemover,
     PassoPagar, PassoFinalizar, PassoCancelar, PassoFecharDia, PassoNovoDia DEF NextConferencia
<1> QED BY <1>1, <1>2

LEMMA BateDeInv == TypeOKConferencia /\ InvCaixaCf => CaixaBate
<1> SUFFICES ASSUME InvCaixaCf, NEW s \in SessaoCf, sessaoCf[s].status = "FECHADO"
             PROVE  /\ sessaoCf[s].diferenca = sessaoCf[s].contado - gaveta[s]
                    /\ sessaoCf[s].situacao = SituacaoDe(sessaoCf[s].contado - gaveta[s])
  BY DEF CaixaBate
<1>1. SessaoCerta(s)
  BY DEF InvCaixaCf
<1> QED BY <1>1 DEF SessaoCerta

-----------------------------------------------------------------------------
(* Conferencia: the closing of a day *)

\* no session went past midnight
MesmoDia == \A s \in SessaoCf : sessaoCf[s].status = "FECHADO" => sessaoCf[s].aberto = sessaoCf[s].fechado
DinheiroDe(r) == IF DINHEIRO \in DOMAIN r.sistema THEN r.sistema[DINHEIRO] ELSE 0

\* The closing of a day tells what its sales left and what its sessions expected; its
\* sales are finished and its sessions closed: nothing of them changes any more.
DiaCerto(r) ==
  /\ r.vendas \in SUBSET VendaCf /\ \A v \in r.vendas : vendaCf[v].status = "FINALIZADA"
  /\ r.sessoes \in SUBSET SessaoCf /\ \A s \in r.sessoes : sessaoCf[s].status = "FECHADO"
  /\ \A t \in DOMAIN r.sistema : r.sistema[t] = Deixado(r.vendas, t)
  /\ r.situacao = "OK" <=> \A t \in DOMAIN r.sistema : r.conferido[t] = Deixado(r.vendas, t)
  /\ MesmoDia => DinheiroDe(r) + SumFunction([s \in r.sessoes |-> sessaoCf[s].abertura])
                   + r.movimentos["SUPRIMENTO"] - r.movimentos["SANGRIA"] - r.movimentos["DESPESA"]
                 = r.caixas.esperado

InvDiaCf ==
  /\ diaCf = [d \in DiaCf |-> diaCf[d]]
  /\ \A d \in DiaCf : \A r : r = diaCf[d] /\ r.fechado => DiaCerto(r)

\* the amounts of sales are those of the forms of payment, each with its total
LEMMA PagoPorForma ==
  TypeOKConferencia =>
    \A V \in SUBSET VendaCf : \E q \in [LinhaForma -> Nat] :
      \A F \in SUBSET LinhaForma : PagoNas(V, F) = SumFunctionOnSet(q, F)
<1> SUFFICES ASSUME TypeOKConferencia, NEW V \in SUBSET VendaCf
             PROVE  \E q \in [LinhaForma -> Nat] :
                      \A F \in SUBSET LinhaForma : PagoNas(V, F) = SumFunctionOnSet(q, F)
  OBVIOUS
<1>1. PICK m : m = pagosCf
  OBVIOUS
<1>2. IsFiniteSet(V) /\ \A v \in V, f \in LinhaForma : m[v][f] \in Nat
  BY <1>1, PagoTipo, FormasFinitas
<1>3. PICK q : q = [f \in LinhaForma |-> SumFunctionOnSet([v \in V |-> m[v][f]], V)]
  OBVIOUS
<1>4. ASSUME NEW f \in LinhaForma PROVE q[f] \in Nat
  <2>1. PICK c : c = [v \in V |-> m[v][f]]
    OBVIOUS
  <2>2. SumFunctionOnSet(c, V) \in Nat
    BY <1>2, <2>1, SomaPositiva
  <2> QED BY <1>3, <2>1, <2>2
<1>5. ASSUME NEW F \in SUBSET LinhaForma PROVE PagoNas(V, F) = SumFunctionOnSet(q, F)
  <2>1. IsFiniteSet(F)
    BY FormasFinitas
  <2>2. \A v \in V, f \in F : m[v][f] \in Int
    BY <1>2
  <2>3. PICK p, u : p = [v \in V |-> SumFunctionOnSet(m[v], F)]
                    /\ u = [f \in F |-> SumFunctionOnSet([v \in V |-> m[v][f]], V)]
    OBVIOUS
  <2>4. SumFunctionOnSet(p, V) = SumFunctionOnSet(u, F)
    BY <1>2, <2>1, <2>2, <2>3, SomaTroca
  <2>5. \A f \in F : u[f] \in Int /\ u[f] = q[f]
    BY <1>3, <1>4, <2>3
  <2>6. SumFunctionOnSet(u, F) = SumFunctionOnSet(q, F)
    BY <2>1, <2>5, SomaIgual
  <2>7. PagoNas(V, F) = SumFunctionOnSet(p, V)
    BY <1>1, <2>3 DEF PagoNas, PagoCf, SumFunction
  <2> QED BY <2>4, <2>6, <2>7
<1>6. q \in [LinhaForma -> Nat]
  BY <1>3, <1>4
<1> QED BY <1>5, <1>6

\* finished sales are paid with their totals and the change
LEMMA PagoComTroco ==
  ASSUME TypeOKConferencia, InvCaixaCf, NEW V \in SUBSET VendaCf,
         \A v \in V : vendaCf[v].status = "FINALIZADA"
  PROVE  /\ PagoNas(V, LinhaForma) = TotalDas(V) + TrocoDas(V)
         /\ TotalDas(V) \in Int /\ TrocoDas(V) \in Nat
<1>1. PICK p, t : p = [v \in V |-> PagoCf(v, LinhaForma)] /\ t = [v \in V |-> vendaCf[v].troco]
  OBVIOUS
<1>2. ASSUME NEW v \in V
      PROVE  t[v] \in Nat /\ TotalVenda[v] \in Int /\ p[v] = TotalVenda[v] + t[v]
  <2>1. vendaCf[v].troco = PagoCf(v, LinhaForma) - TotalVenda[v]
    BY DEF InvCaixaCf, VendaCerta
  <2>2. PagoCf(v, LinhaForma) \in Nat /\ vendaCf[v].troco \in Nat /\ TotalVenda[v] \in Nat
    BY PagoTipo, LinhasDeTipo, ConstantesConferencia DEF TiposCf
  <2> QED BY <1>1, <2>1, <2>2
<1>3. IsFiniteSet(V)
  BY FormasFinitas
<1>4. SumFunctionOnSet(p, V) = SumFunctionOnSet(TotalVenda, V) + SumFunctionOnSet(t, V)
  BY <1>2, <1>3, SomaMais
<1>5. SumFunctionOnSet(t, V) \in Nat /\ SumFunctionOnSet(TotalVenda, V) \in Int
  BY <1>2, <1>3, SomaPositiva, SomaTipo
<1>6. PagoNas(V, LinhaForma) = SumFunctionOnSet(p, V) /\ TrocoDas(V) = SumFunctionOnSet(t, V)
  BY <1>1 DEF PagoNas, TrocoDas, SumFunction
<1> QED BY <1>4, <1>5, <1>6 DEF TotalDas

\* What _consolidar_formas takes from the rows of cash is, whatever their number, the
\* change once: the sum of the types would not be that of the sales otherwise.
LEMMA SistemaCerto ==
  ASSUME TypeOKConferencia, InvCaixaCf, NEW d \in DiaCf, ConsistenteCf(d)
  PROVE  /\ \A t \in TiposDo(d) : SistemaDo(d, t) = Deixado(VendasDo(d), t) /\ SistemaDo(d, t) \in Int
         /\ DINHEIRO \notin TiposDo(d) => PagoNas(VendasDo(d), FormasDinheiro) = 0
<1>1. PICK V : V = VendasDo(d)
  OBVIOUS
<1>2. V \in SUBSET VendaCf /\ \A v \in V : vendaCf[v].status = "FINALIZADA"
  BY <1>1 DEF VendasDo
<1>3. PICK q \in [LinhaForma -> Nat] : \A F \in SUBSET LinhaForma : PagoNas(V, F) = SumFunctionOnSet(q, F)
  BY <1>2, PagoPorForma
<1>4. ASSUME NEW f \in LinhaForma PROVE PagoNas(V, {f}) = q[f]
  <2>1. SumFunctionOnSet(q, {f}) = q[f]
    BY SomaDeUm
  <2> QED BY <1>3, <2>1
<1>5. PICK T : T = TrocoDas(V)
  OBVIOUS
<1>6. T \in Nat /\ PagoNas(V, LinhaForma) = TotalDas(V) + T /\ TotalDas(V) \in Int
  BY <1>2, <1>5, PagoComTroco
<1>7. PICK S, K : S = {g \in LinhaForma : q[g] > 0} /\ K = {TipoForma[f] : f \in S}
  OBVIOUS
<1>8. S \subseteq LinhaForma /\ IsFiniteSet(S) /\ IsFiniteSet(K) /\ \A f \in S : q[f] \in Int /\ TipoForma[f] \in K
  <2>1. S \subseteq LinhaForma
    BY <1>7
  <2>2. IsFiniteSet(S)
    BY <2>1, FormasFinitas
  <2> QED BY <1>7, <2>1, <2>2, ImagemFinita
<1>9. TiposDo(d) = K
  <2>1. {g \in LinhaForma : PagoNas(VendasDo(d), {g}) > 0} = S
    BY <1>1, <1>4, <1>7
  <2> QED BY <1>7, <2>1 DEF TiposDo
<1> DEFINE Da(t) == {f \in S : TipoForma[f] = t}
<1>10. ASSUME NEW t
       PROVE  /\ Da(t) \subseteq LinhaForma /\ IsFiniteSet(Da(t))
              /\ {g \in FormasDoTipo(t) : PagoNas(VendasDo(d), {g}) > 0} = Da(t)
              /\ PagoNas(V, FormasDoTipo(t)) = SumFunctionOnSet(q, Da(t)) /\ SumFunctionOnSet(q, Da(t)) \in Nat
  <2>1. PICK D, F : D = Da(t) /\ F = FormasDoTipo(t)
    OBVIOUS
  <2>2. F \subseteq LinhaForma /\ IsFiniteSet(F) /\ D \subseteq F /\ \A f \in F : q[f] \in Nat
    BY <1>7, <2>1, FormasFinitas DEF FormasDoTipo
  <2>3. {g \in F : PagoNas(VendasDo(d), {g}) > 0} = D
    BY <1>1, <1>4, <1>7, <2>1 DEF FormasDoTipo
  <2>4. \A f \in F \ D : q[f] = 0
    BY <1>7, <2>1, <2>2 DEF FormasDoTipo
  <2>5. SumFunctionOnSet(q, D) = SumFunctionOnSet(q, F)
    BY <2>2, <2>4, SomaDaParte
  <2>6. IsFiniteSet(D)
    BY <2>2, FS_Subset
  <2>7. SumFunctionOnSet(q, D) \in Nat
    BY <2>2, <2>6, SomaPositiva
  <2>8. PagoNas(V, F) = SumFunctionOnSet(q, F)
    BY <1>3, <2>2
  <2> QED BY <2>1, <2>2, <2>3, <2>5, <2>6, <2>7, <2>8
<1>11. ASSUME NEW t
       PROVE  SistemaDo(d, t) \in Int /\ (t # DINHEIRO => SistemaDo(d, t) = SumFunctionOnSet(q, Da(t)))
  <2>1. PICK D : D = Da(t)
    OBVIOUS
  <2>2. PICK k : k = IF t = DINHEIRO THEN T ELSE 0
    OBVIOUS
  <2>3. PICK u : u = [f \in D |-> PagoNas(V, {f}) - k]
    OBVIOUS
  <2>4. k \in Int /\ D \subseteq LinhaForma /\ IsFiniteSet(D)
    <3>1. k \in Int
      BY <1>6, <2>2
    <3>2. D \subseteq LinhaForma /\ IsFiniteSet(D)
      BY <1>10, <2>1
    <3> QED BY <3>1, <3>2
  <2>5. \A f \in D : u[f] = q[f] - k /\ u[f] \in Int /\ q[f] \in Int
    BY <1>4, <2>3, <2>4
  <2>6. SumFunctionOnSet(u, D) \in Int
    BY <2>4, <2>5, SomaTipo
  <2>7. SistemaDo(d, t) = SumFunctionOnSet(u, D)
    BY <1>1, <1>5, <1>10, <2>1, <2>2, <2>3 DEF SistemaDo, SumFunction
  <2>8. ASSUME t # DINHEIRO PROVE SumFunctionOnSet(u, D) = SumFunctionOnSet(q, D)
    <3>1. \A f \in D : u[f] \in Int /\ u[f] = q[f]
      BY <2>2, <2>5, <2>8
    <3> QED BY <2>4, <3>1, SomaIgual
  <2> QED BY <2>1, <2>6, <2>7, <2>8
<1>12. ASSUME NEW t PROVE Deixado(V, t) = SumFunctionOnSet(q, Da(t)) - (IF t = DINHEIRO THEN T ELSE 0)
  BY <1>5, <1>10 DEF Deixado
<1>13. PICK cl, dei, sis : /\ cl = [t \in K |-> SumFunctionOnSet(q, Da(t))]
                           /\ dei = [t \in K |-> Deixado(V, t)]
                           /\ sis = [t \in K |-> SistemaDo(d, t)]
  OBVIOUS
<1>14. SumFunctionOnSet(cl, K) = PagoNas(V, LinhaForma)
  <2>1. SumFunctionOnSet(cl, K) = SumFunctionOnSet(q, S)
    BY <1>8, <1>13, SomaPorClasse
  <2>2. \A f \in LinhaForma \ S : q[f] = 0
    BY <1>7
  <2>3. \A f \in LinhaForma : q[f] \in Int
    OBVIOUS
  <2>4. SumFunctionOnSet(q, S) = SumFunctionOnSet(q, LinhaForma)
    BY <1>8, <2>2, <2>3, FormasFinitas, SomaDaParte
  <2> QED BY <1>3, <2>1, <2>4
<1>15. SumFunctionOnSet(sis, K) = TotalDas(V)
  BY <1>1, <1>9, <1>13 DEF ConsistenteCf, SumFunction
<1>16. \A t \in K : /\ cl[t] \in Int /\ dei[t] \in Int /\ sis[t] \in Int
                    /\ dei[t] = cl[t] - (IF t = DINHEIRO THEN T ELSE 0)
                    /\ (t # DINHEIRO => sis[t] = dei[t] /\ cl[t] = dei[t])
  <2> SUFFICES ASSUME NEW t \in K
               PROVE  /\ cl[t] \in Int /\ dei[t] \in Int /\ sis[t] \in Int
                      /\ dei[t] = cl[t] - (IF t = DINHEIRO THEN T ELSE 0)
                      /\ (t # DINHEIRO => sis[t] = dei[t] /\ cl[t] = dei[t])
    OBVIOUS
  <2>1. PICK n : n = SumFunctionOnSet(q, Da(t))
    OBVIOUS
  <2>2. n \in Nat /\ cl[t] = n
    BY <1>10, <1>13, <2>1
  <2>3. dei[t] = n - (IF t = DINHEIRO THEN T ELSE 0)
    BY <1>12, <1>13, <2>1
  <2>4. sis[t] \in Int /\ (t # DINHEIRO => sis[t] = n)
    BY <1>11, <1>13, <2>1
  <2> QED BY <1>6, <2>2, <2>3, <2>4
<1>17. \A t \in K : sis[t] = dei[t]
  <2>1. CASE DINHEIRO \notin K
    BY <1>16, <2>1
  <2>2. CASE DINHEIRO \in K
    <3>1. PICK z \in K : z = DINHEIRO
      BY <2>2
    <3>0. \A t \in K : /\ cl[t] \in Int /\ dei[t] \in Int /\ sis[t] \in Int
                       /\ (t # z => cl[t] = dei[t] /\ dei[t] = sis[t])
      BY <1>16, <3>1
    <3>2. SumFunctionOnSet(dei, K) = SumFunctionOnSet(cl, K) - cl[z] + dei[z]
      BY <1>8, <3>0, SomaMuda
    <3>3. SumFunctionOnSet(sis, K) = SumFunctionOnSet(dei, K) - dei[z] + sis[z]
      BY <1>8, <3>0, SomaMuda
    <3>4. dei[z] = cl[z] - T /\ cl[z] \in Int /\ dei[z] \in Int /\ sis[z] \in Int
      BY <1>16, <3>1
    <3>5. SumFunctionOnSet(cl, K) = SumFunctionOnSet(sis, K) + T
      BY <1>6, <1>14, <1>15
    <3>6. SumFunctionOnSet(cl, K) \in Int /\ SumFunctionOnSet(dei, K) \in Int /\ SumFunctionOnSet(sis, K) \in Int
      BY <1>8, <1>16, SomaTipo
    <3>7. sis[z] = dei[z]
      BY <1>6, <3>2, <3>3, <3>4, <3>5, <3>6
    <3> QED BY <1>16, <3>1, <3>7
  <2> QED BY <2>1, <2>2
<1>18. DINHEIRO \notin K => PagoNas(V, FormasDinheiro) = 0
  <2> SUFFICES ASSUME DINHEIRO \notin K PROVE PagoNas(V, FormasDinheiro) = 0
    OBVIOUS
  <2>1. Da(DINHEIRO) = {}
    BY <1>8
  <2>2. SumFunctionOnSet(q, Da(DINHEIRO)) = 0
    BY <2>1, SomaVazia
  <2> QED BY <1>10, <2>2 DEF FormasDinheiro
<1> QED BY <1>1, <1>9, <1>11, <1>13, <1>17, <1>18

\* the cash of the day, by its types, is what each of its sales left
LEMMA DinheiroDoDia ==
  ASSUME TypeOKConferencia, InvCaixaCf, NEW d \in DiaCf, ConsistenteCf(d)
  PROVE  (IF DINHEIRO \in TiposDo(d) THEN SistemaDo(d, DINHEIRO) ELSE 0) = SumFunctionOnSet(Deixa, VendasDo(d))
<1>1. PICK V : V = VendasDo(d)
  OBVIOUS
<1>2. V \in SUBSET VendaCf /\ IsFiniteSet(V)
  BY <1>1, FormasFinitas DEF VendasDo
<1>3. DinheiroLiquido(V) = SumFunctionOnSet(Deixa, V)
  BY <1>2, LiquidoSoma
<1>4. CASE DINHEIRO \in TiposDo(d)
  <2>1. SistemaDo(d, DINHEIRO) = Deixado(V, DINHEIRO)
    BY <1>1, <1>4, SistemaCerto
  <2>2. Deixado(V, DINHEIRO) = DinheiroLiquido(V)
    BY DEF Deixado, DinheiroLiquido
  <2> QED BY <1>1, <1>3, <1>4, <2>1, <2>2
<1>5. CASE DINHEIRO \notin TiposDo(d)
  <2>1. PagoNas(V, FormasDinheiro) = 0
    BY <1>1, <1>5, SistemaCerto
  <2>2. PICK p, x : p = [v \in V |-> PagoCf(v, FormasDinheiro)] /\ x = Deixa
    OBVIOUS
  <2>3. \A v \in V : p[v] \in Nat /\ p[v] = PagoCf(v, FormasDinheiro)
    BY <1>2, <2>2, PagoTipo, FormasFinitas
  <2>4. SumFunctionOnSet(p, V) = 0
    BY <2>1, <2>2 DEF PagoNas, SumFunction
  <2>5. ASSUME NEW v \in V PROVE x[v] = 0
    <3>1. p[v] <= SumFunctionOnSet(p, V)
      BY <1>2, <2>3, SomaCabe
    <3>2. PagoCf(v, FormasDinheiro) = 0
      BY <2>3, <2>4, <3>1
    <3>3. vendaCf[v].status = "FINALIZADA" /\ vendaCf[v].troco \in Nat
      BY <1>1, <1>2, LinhasDeTipo DEF VendasDo, TiposCf
    <3>4. vendaCf[v].troco > 0 => PagoCf(v, FormasDinheiro) > 0
      BY <1>2, <3>3 DEF InvCaixaCf, VendaCerta
    <3>5. vendaCf[v].troco = 0
      BY <3>2, <3>3, <3>4
    <3> QED BY <1>2, <2>2, <3>2, <3>5, DeixaTipo DEF DeixasCf
  <2>6. SumFunctionOnSet(x, V) = 0
    BY <1>2, <2>5, SomaZero
  <2> QED BY <1>1, <1>5, <2>2, <2>6
<1> QED BY <1>4, <1>5

\* The sales and the movements of the date are those of the sessions of the date.
LEMMA BlocosDoDia ==
  ASSUME TypeOKConferencia, InvCaixaCf, NEW d \in DiaCf, ~ImpedimentosCf, MesmoDia,
         NEW D, D = {x \in movCf : x.dia = d}, NEW e, e = [s \in SessoesDo(d) |-> sessaoCf[s].esperado],
         NEW a, a = [s \in SessoesDo(d) |-> sessaoCf[s].abertura]
  PROVE  /\ SumFunctionOnSet(e, SessoesDo(d))
            = SumFunctionOnSet(a, SessoesDo(d)) + SumFunctionOnSet(Deixa, VendasDo(d)) + SumFunctionOnSet(Entrou, D)
         /\ SumFunctionOnSet(a, SessoesDo(d)) \in Int
<1>1. PICK R, V : R = SessoesDo(d) /\ V = VendasDo(d)
  OBVIOUS
<1>2. /\ R \subseteq SessaoCf /\ IsFiniteSet(R) /\ V \in SUBSET VendaCf /\ IsFiniteSet(V)
      /\ D \subseteq movCf /\ IsFiniteSet(D) /\ D \in SUBSET Movimentacao
  <2>1. R \subseteq SessaoCf /\ V \in SUBSET VendaCf /\ D \subseteq movCf
    BY <1>1 DEF SessoesDo, VendasDo
  <2>2. movCf \subseteq Movimentacao /\ IsFiniteSet(movCf)
    BY DEF TypeOKConferencia, InvCaixaCf, MovimentosCertos
  <2> QED BY <2>1, <2>2, FormasFinitas, FS_Subset
<1>3. ASSUME NEW s \in R
      PROVE  sessaoCf[s].status = "FECHADO" /\ sessaoCf[s].aberto = d /\ sessaoCf[s].fechado = d
  <2>1. sessaoCf[s].status = "FECHADO"
    BY <1>1, <1>2, LinhasDeTipo DEF SessoesDo, ImpedimentosCf, TiposCf
  <2>2. d \in {sessaoCf[s].aberto, sessaoCf[s].fechado}
    BY <1>1, <2>1 DEF SessoesDo
  <2>3. sessaoCf[s].aberto = sessaoCf[s].fechado
    BY <1>2, <2>1 DEF MesmoDia
  <2> QED BY <2>1, <2>2, <2>3
<1>4. ASSUME NEW s, NEW n \in Nat, NoTempo(s, n)
      PROVE  s \in R <=> n = d
  <2>1. s \in SessaoCf /\ sessaoCf[s].status # "NENHUMA" /\ sessaoCf[s].aberto <= n
    BY <1>4 DEF NoTempo
  <2>2. sessaoCf[s].status = "FECHADO"
    BY <2>1, LinhasDeTipo DEF ImpedimentosCf, TiposCf
  <2>3. n <= sessaoCf[s].fechado /\ sessaoCf[s].aberto = sessaoCf[s].fechado
    BY <1>4, <2>1, <2>2 DEF NoTempo, MesmoDia
  <2>4. n = sessaoCf[s].aberto
    BY <2>1, <2>3, LinhasDeTipo DEF TiposCf
  <2>5. s \in R => n = d
    BY <1>3, <2>4
  <2>6. n = d => s \in R
    BY <1>1, <2>1, <2>4 DEF SessoesDo
  <2> QED BY <2>5, <2>6
<1>5. PICK f, g, c, k : /\ f = Deixa /\ g = Entrou
                        /\ c = [v \in VendaCf |-> vendaCf[v].sessao]
                        /\ k = [x \in Movimentacao |-> x.sessao]
  OBVIOUS
<1>6. \A v \in V : f[v] \in Int /\ c[v] \in R
  <2> SUFFICES ASSUME NEW v \in V PROVE f[v] \in Int /\ c[v] \in R
    OBVIOUS
  <2>1. f[v] \in Int
    BY <1>2, <1>5, DeixaTipo DEF DeixasCf
  <2>2. vendaCf[v].status = "FINALIZADA" /\ vendaCf[v].dia = d /\ vendaCf[v].dia \in Nat
    BY <1>1, <1>2, LinhasDeTipo DEF VendasDo, TiposCf
  <2>3. NoTempo(vendaCf[v].sessao, vendaCf[v].dia)
    BY <1>2, <2>2 DEF InvCaixaCf, VendaCerta
  <2>4. vendaCf[v].sessao \in R
    BY <1>4, <2>2, <2>3
  <2> QED BY <1>2, <1>5, <2>1, <2>4
<1>7. \A x \in D : g[x] \in Int /\ k[x] \in R /\ k[x] = x.sessao
  <2> SUFFICES ASSUME NEW x \in D PROVE g[x] \in Int /\ k[x] \in R /\ k[x] = x.sessao
    OBVIOUS
  <2>1. x \in Movimentacao /\ x \in movCf /\ x.dia = d
    BY <1>2
  <2>2. g[x] \in Int /\ k[x] = x.sessao
    BY <1>5, <2>1 DEF Entrou, Movimentacao
  <2>3. NoTempo(x.sessao, x.dia) /\ x.dia \in Nat
    BY <2>1, LinhasDeTipo DEF InvCaixaCf, MovimentosCertos, TiposCf
  <2>4. x.sessao \in R
    BY <1>4, <2>1, <2>3
  <2> QED BY <2>2, <2>4
<1>8. PICK l, m : /\ l = [s \in R |-> SumFunctionOnSet(f, {v \in V : c[v] = s})]
                  /\ m = [s \in R |-> SumFunctionOnSet(g, {x \in D : k[x] = s})]
  OBVIOUS
<1>9. SumFunctionOnSet(l, R) = SumFunctionOnSet(f, V)
  <2>1. IsFiniteSet(V) /\ IsFiniteSet(R)
    BY <1>2
  <2>2. SumFunctionOnSet([s \in R |-> SumFunctionOnSet(f, {v \in V : c[v] = s})], R) = SumFunctionOnSet(f, V)
    BY <1>6, <2>1, SomaPorClasse
  <2> QED BY <1>8, <2>2
<1>10. SumFunctionOnSet(m, R) = SumFunctionOnSet(g, D)
  <2>0. PICK U : U = D
    OBVIOUS
  <2>1. IsFiniteSet(U) /\ IsFiniteSet(R)
    BY <1>2, <2>0
  <2>2. \A x \in U : g[x] \in Int /\ k[x] \in R
    BY <1>7, <2>0
  <2>3. SumFunctionOnSet([s \in R |-> SumFunctionOnSet(g, {x \in U : k[x] = s})], R) = SumFunctionOnSet(g, U)
    BY <2>1, <2>2, SomaPorClasse
  <2> QED BY <1>8, <2>0, <2>3
<1>11. ASSUME NEW s \in R PROVE l[s] = Recebido[s]
  <2>1. \A v \in VendaCf : ~AbertaNa(v, s)
    BY DEF ImpedimentosCf, AbertaNa
  <2>2. Recebido[s] = SumFunctionOnSet(Deixa, VendasDa(s))
    BY <1>2, <2>1, SessaoSemAberta DEF InvCaixaCf
  <2>3. VendasDa(s) = {v \in V : c[v] = s}
    <3>1. ASSUME NEW v \in VendaCf PROVE v \in VendasDa(s) <=> (v \in V /\ c[v] = s)
      <4>1. c[v] = vendaCf[v].sessao /\ vendaCf[v].dia \in Nat
        BY <1>5, LinhasDeTipo DEF TiposCf
      <4>2. v \in VendasDa(s) => vendaCf[v].dia = d
        BY <1>4, <4>1 DEF VendasDa, InvCaixaCf, VendaCerta
      <4> QED BY <1>1, <4>1, <4>2 DEF VendasDa, VendasDo
    <3> QED BY <1>2, <3>1 DEF VendasDa
  <2> QED BY <1>5, <1>8, <2>2, <2>3
<1>12. ASSUME NEW s \in R PROVE m[s] = Movidos[s]
  <2>1. MovimentosDa(s) = {x \in D : k[x] = s}
    <3>1. ASSUME NEW x \in movCf PROVE x \in MovimentosDa(s) <=> (x \in D /\ k[x] = s)
      <4>1. x.dia \in Nat /\ NoTempo(x.sessao, x.dia)
        BY LinhasDeTipo DEF InvCaixaCf, MovimentosCertos, TiposCf
      <4>2. x.sessao = s => x.dia = d
        BY <1>4, <4>1
      <4>3. x \in D <=> x.dia = d
        OBVIOUS
      <4> QED BY <1>7, <4>2, <4>3 DEF MovimentosDa
    <3> QED BY <1>2, <3>1 DEF MovimentosDa
  <2>2. Movidos[s] = SumFunctionOnSet(Entrou, MovimentosDa(s))
    BY <1>2 DEF Movidos
  <2> QED BY <1>5, <1>8, <2>1, <2>2
<1>13. ASSUME NEW s \in R
       PROVE  /\ a[s] \in Int /\ l[s] \in Int /\ m[s] \in Int
              /\ e[s] = (a[s] + l[s]) + m[s]
  <2>1. sessaoCf[s].esperado = gaveta[s]
    BY <1>2, <1>3 DEF InvCaixaCf, SessaoCerta
  <2>2. gaveta[s] = sessaoCf[s].abertura + Recebido[s] + Movidos[s]
    BY <1>2, <1>3 DEF InvCaixaCf, GavetaCerta
  <2>3. sessaoCf[s].abertura \in Int /\ Recebido[s] \in Int
    BY <1>2, LinhasDeTipo, DeixaTipo DEF TiposCf, DeixasCf
  <2>4. m[s] \in Int
    <3>1. PICK U : U = {x \in D : k[x] = s}
      OBVIOUS
    <3>2. IsFiniteSet(U) /\ \A x \in U : g[x] \in Int
      <4>1. U \subseteq D
        BY <3>1
      <4> QED BY <1>2, <1>7, <4>1, FS_Subset
    <3>3. SumFunctionOnSet(g, U) \in Int
      BY <3>2, SomaTipo
    <3> QED BY <1>8, <3>1, <3>3
  <2>5. e[s] = sessaoCf[s].esperado /\ a[s] = sessaoCf[s].abertura
    BY <1>1
  <2> QED BY <1>11, <1>12, <2>1, <2>2, <2>3, <2>4, <2>5
<1>14. PICK al : al = [s \in R |-> a[s] + l[s]]
  OBVIOUS
<1>15. SumFunctionOnSet(al, R) = SumFunctionOnSet(a, R) + SumFunctionOnSet(l, R)
  BY <1>2, <1>13, <1>14, SomaMais
<1>16. SumFunctionOnSet(e, R) = SumFunctionOnSet(al, R) + SumFunctionOnSet(m, R)
  <2>1. \A s \in R : al[s] \in Int /\ m[s] \in Int /\ e[s] = al[s] + m[s]
    <3> SUFFICES ASSUME NEW s \in R PROVE al[s] \in Int /\ m[s] \in Int /\ e[s] = al[s] + m[s]
      OBVIOUS
    <3>1. al[s] = a[s] + l[s]
      BY <1>14
    <3>2. a[s] \in Int /\ l[s] \in Int /\ m[s] \in Int /\ e[s] = (a[s] + l[s]) + m[s]
      BY <1>13
    <3>3. al[s] \in Int
      BY <3>1, <3>2
    <3>4. e[s] = al[s] + m[s]
      BY <3>1, <3>2
    <3> QED BY <3>2, <3>3, <3>4
  <2> QED BY <1>2, <2>1, SomaMais
<1>17. SumFunctionOnSet(a, R) \in Int
  BY <1>2, <1>13, SomaTipo
<1> QED BY <1>1, <1>5, <1>9, <1>10, <1>15, <1>16, <1>17

\* The closing of a day is right when it is made.
LEMMA FechamentoCerto ==
  ASSUME TypeOKConferencia, InvCaixaCf, NEW d \in DiaCf, ~ImpedimentosCf, ConsistenteCf(d),
         NEW c \in Conferencias(d), NEW r, r = FechamentoDe(d, c)
  PROVE  DiaCerto(r)
<1>1. PICK V, R, K, D : /\ V = VendasDo(d) /\ R = SessoesDo(d) /\ K = TiposDo(d)
                        /\ D = {x \in movCf : x.dia = d}
  OBVIOUS
<1>2. PICK sis : sis = [t \in K |-> SistemaDo(d, t)]
  OBVIOUS
<1>3. /\ r.vendas = V /\ r.sessoes = R /\ r.sistema = sis /\ r.conferido = c
      /\ r.caixas.esperado = SumFunction([s \in R |-> sessaoCf[s].esperado])
      /\ r.movimentos = [t \in TipoMov |-> Movido(D, t)]
      /\ r.situacao = IF \A t \in K : SituacaoDe(c[t] - sis[t]) = "OK" THEN "OK" ELSE "DIVERGENTE"
  BY <1>1, <1>2 DEF FechamentoDe, CaixasDo, MovimentosDo
<1>4. DOMAIN r.sistema = K
  BY <1>2, <1>3
<1>5. V \in SUBSET VendaCf /\ \A v \in V : vendaCf[v].status = "FINALIZADA"
  BY <1>1 DEF VendasDo
<1>6. R \in SUBSET SessaoCf /\ \A s \in R : sessaoCf[s].status = "FECHADO"
  BY <1>1, LinhasDeTipo DEF SessoesDo, ImpedimentosCf, TiposCf
<1>7. \A t \in K : sis[t] = Deixado(V, t) /\ sis[t] \in Int
  BY <1>1, <1>2, SistemaCerto
<1>8. \A t \in K : c[t] \in Int
  <2>1. PICK e \in [K -> Erros] : c = [t \in K |-> Deixado(V, t) + e[t]]
    BY <1>1 DEF Conferencias
  <2>2. \A x \in Erros : x \in Int
    BY ConstantesConferencia
  <2> SUFFICES ASSUME NEW t \in K PROVE c[t] \in Int
    OBVIOUS
  <2>3. e[t] \in Int
    BY <2>2
  <2>4. c[t] = sis[t] + e[t]
    BY <1>7, <2>1
  <2> QED BY <1>7, <2>3, <2>4
<1>9. r.situacao = "OK" <=> \A t \in K : c[t] = Deixado(V, t)
  <2>1. \A t \in K : SituacaoDe(c[t] - sis[t]) = "OK" <=> c[t] = sis[t]
    <3> SUFFICES ASSUME NEW t \in K PROVE SituacaoDe(c[t] - sis[t]) = "OK" <=> c[t] = sis[t]
      OBVIOUS
    <3>1. PICK n : n = c[t] - sis[t]
      OBVIOUS
    <3>2. n \in Int /\ (n = 0 <=> c[t] = sis[t])
      BY <1>7, <1>8, <3>1
    <3>3. SituacaoDe(n) = "OK" <=> n = 0
      BY <3>2 DEF SituacaoDe
    <3> QED BY <3>1, <3>2, <3>3
  <2>2. r.situacao = "OK" <=> \A t \in K : SituacaoDe(c[t] - sis[t]) = "OK"
    BY <1>3
  <2> QED BY <1>7, <2>1, <2>2
<1>10. ASSUME MesmoDia
       PROVE  DinheiroDe(r) + SumFunction([s \in R |-> sessaoCf[s].abertura])
                + r.movimentos["SUPRIMENTO"] - r.movimentos["SANGRIA"] - r.movimentos["DESPESA"]
              = r.caixas.esperado
  <2>1. PICK e, a : e = [s \in R |-> sessaoCf[s].esperado] /\ a = [s \in R |-> sessaoCf[s].abertura]
    OBVIOUS
  <2>2. /\ SumFunctionOnSet(e, R) = SumFunctionOnSet(a, R) + SumFunctionOnSet(Deixa, V) + SumFunctionOnSet(Entrou, D)
        /\ SumFunctionOnSet(a, R) \in Int
    BY <1>1, <1>10, <2>1, BlocosDoDia
  <2>3. SumFunction(e) = SumFunctionOnSet(e, R) /\ SumFunction(a) = SumFunctionOnSet(a, R)
    BY <2>1 DEF SumFunction
  <2>4. DinheiroDe(r) = SumFunctionOnSet(Deixa, V)
    BY <1>1, <1>2, <1>3, <1>4, DinheiroDoDia DEF DinheiroDe
  <2>5. SumFunctionOnSet(Deixa, V) \in Int
    BY <1>5, LiquidoSoma
  <2>6. D \in SUBSET Movimentacao /\ IsFiniteSet(D)
    <3>1. D \subseteq movCf
      BY <1>1
    <3> QED BY <3>1, FS_Subset DEF TypeOKConferencia, InvCaixaCf, MovimentosCertos
  <2>7. PICK x, y, z : x = Movido(D, "SUPRIMENTO") /\ y = Movido(D, "SANGRIA") /\ z = Movido(D, "DESPESA")
    OBVIOUS
  <2>8. x - y - z = SumFunctionOnSet(Entrou, D) /\ x \in Int /\ y \in Int /\ z \in Int
    BY <2>6, <2>7, MovimentoSoma DEF TipoMov
  <2>9. r.movimentos["SUPRIMENTO"] = x /\ r.movimentos["SANGRIA"] = y /\ r.movimentos["DESPESA"] = z
    BY <1>3, <2>7 DEF TipoMov
  <2>10. SumFunctionOnSet(Deixa, V) + SumFunctionOnSet(a, R) + x - y - z = SumFunctionOnSet(e, R)
    BY <2>2, <2>5, <2>8
  <2> QED BY <1>3, <2>1, <2>3, <2>4, <2>9, <2>10
<1> QED BY <1>3, <1>4, <1>5, <1>6, <1>7, <1>9, <1>10 DEF DiaCerto

\* what is finished or closed does not change
Congelado ==
  /\ \A v \in VendaCf : vendaCf[v].status = "FINALIZADA" => vendaCf'[v] = vendaCf[v] /\ pagosCf'[v] = pagosCf[v]
  /\ \A s \in SessaoCf : sessaoCf[s].status = "FECHADO" => sessaoCf'[s] = sessaoCf[s]

LEMMA DiaFica ==
  ASSUME NEW r, DiaCerto(r), Congelado
  PROVE  DiaCerto(r)'
<1>1. PICK V, R : V = r.vendas /\ R = r.sessoes
  OBVIOUS
<1>2. /\ V \in SUBSET VendaCf /\ \A v \in V : vendaCf[v].status = "FINALIZADA"
      /\ R \in SUBSET SessaoCf /\ \A s \in R : sessaoCf[s].status = "FECHADO"
  BY <1>1 DEF DiaCerto
<1>3. /\ \A v \in V : vendaCf'[v] = vendaCf[v] /\ pagosCf'[v] = pagosCf[v]
      /\ \A s \in R : sessaoCf'[s] = sessaoCf[s]
  BY <1>2 DEF Congelado
<1>4. ASSUME NEW t PROVE Deixado(V, t)' = Deixado(V, t)
  <2>1. ASSUME NEW F PROVE PagoNas(V, F)' = PagoNas(V, F)
    <3>1. [v \in V |-> SumFunctionOnSet(pagosCf'[v], F)] = [v \in V |-> SumFunctionOnSet(pagosCf[v], F)]
      BY <1>3
    <3> QED BY <3>1 DEF PagoNas, PagoCf
  <2>2. TrocoDas(V)' = TrocoDas(V)
    <3>1. [v \in V |-> vendaCf'[v].troco] = [v \in V |-> vendaCf[v].troco]
      BY <1>3
    <3> QED BY <3>1 DEF TrocoDas
  <2>3. PagoNas(V, FormasDoTipo(t))' = PagoNas(V, FormasDoTipo(t))
    BY <2>1 DEF PagoNas, PagoCf, FormasDoTipo
  <2> QED BY <2>2, <2>3 DEF Deixado
<1>5. [s \in R |-> sessaoCf'[s].abertura] = [s \in R |-> sessaoCf[s].abertura]
  BY <1>3
<1>6. MesmoDia' => MesmoDia
  BY DEF MesmoDia, Congelado
<1>7. \A t : Deixado(r.vendas, t)' = Deixado(r.vendas, t)
  BY <1>1, <1>4
<1>8. /\ \A v \in r.vendas : vendaCf'[v].status = "FINALIZADA"
      /\ \A s \in r.sessoes : sessaoCf'[s].status = "FECHADO"
  BY <1>1, <1>2, <1>3
<1> QED BY <1>1, <1>2, <1>5, <1>6, <1>7, <1>8 DEF DiaCerto

LEMMA PassoCongela ==
  ASSUME TypeOKConferencia, [NextConferencia]_varsConferencia
  PROVE  Congelado
<1>1. CASE UNCHANGED varsConferencia
  BY <1>1 DEF varsConferencia, Congelado
<1>2. CASE NextConferencia
  <2>1. ASSUME NEW s \in SessaoCf, NEW valor \in Aberturas, AbrirCaixaCf(s, valor) PROVE Congelado
    BY <2>1 DEF AbrirCaixaCf, Congelado, TypeOKConferencia
  <2>2. ASSUME NEW s \in SessaoCf, NEW t \in TipoMov, NEW valor \in Aberturas, MovimentarCf(s, t, valor) PROVE Congelado
    BY <2>2 DEF MovimentarCf, Congelado
  <2>3. ASSUME NEW s \in SessaoCf, NEW erro \in Erros, FecharCaixaCf(s, erro) PROVE Congelado
    BY <2>3 DEF FecharCaixaCf, Congelado, TypeOKConferencia
  <2>4. ASSUME NEW s \in SessaoCf, NEW v \in VendaCf, IniciarVendaCf(v, s) PROVE Congelado
    BY <2>4 DEF IniciarVendaCf, Congelado, TypeOKConferencia
  <2>5. ASSUME NEW s \in SessaoCf, NEW v \in VendaCf, NEW f \in LinhaForma, RemoverPagamentoCf(v, s, f) PROVE Congelado
    BY <2>5 DEF RemoverPagamentoCf, AbertaNa, Congelado, TypeOKConferencia
  <2>6. ASSUME NEW s \in SessaoCf, NEW v \in VendaCf, NEW f \in LinhaForma, NEW valor \in Entregas,
               PagarCf(v, s, f, valor)
        PROVE  Congelado
    BY <2>6 DEF PagarCf, AbertaNa, Congelado, TypeOKConferencia
  <2>7. ASSUME NEW s \in SessaoCf, NEW v \in VendaCf, FinalizarVendaCf(v, s) PROVE Congelado
    BY <2>7 DEF FinalizarVendaCf, AbertaNa, Congelado, TypeOKConferencia
  <2>8. ASSUME NEW v \in VendaCf, CancelarVendaCf(v) PROVE Congelado
    BY <2>8 DEF CancelarVendaCf, Congelado, TypeOKConferencia
  <2>9. ASSUME NEW d \in DiaCf, FecharDiaCf(d) PROVE Congelado
    BY <2>9 DEF FecharDiaCf, Congelado
  <2>10. ASSUME NovoDiaCf PROVE Congelado
    BY <2>10 DEF NovoDiaCf, Congelado
  <2> QED BY <1>2, <2>1, <2>2, <2>3, <2>4, <2>5, <2>6, <2>7, <2>8, <2>9, <2>10 DEF NextConferencia
<1> QED BY <1>1, <1>2

LEMMA PassoDiaCf ==
  ASSUME TypeOKConferencia, InvCaixaCf, InvDiaCf, [NextConferencia]_varsConferencia
  PROVE  InvDiaCf'
<1>1. Congelado
  BY PassoCongela
<1>2. ASSUME diaCf' = diaCf PROVE InvDiaCf'
  <2>1. ASSUME NEW d \in DiaCf, NEW r, r = diaCf[d], r.fechado PROVE DiaCerto(r)'
    <3>1. DiaCerto(r)
      BY <2>1 DEF InvDiaCf
    <3> QED BY <1>1, <3>1, DiaFica
  <2>2. diaCf' = [d \in DiaCf |-> diaCf'[d]]
    BY <1>2 DEF InvDiaCf
  <2>3. \A d \in DiaCf : \A r : r = diaCf'[d] /\ r.fechado => DiaCerto(r)'
    BY <1>2, <2>1
  <2> QED BY <2>2, <2>3 DEF InvDiaCf
<1>3. ASSUME NEW d \in DiaCf, FecharDiaCf(d) PROVE InvDiaCf'
  <2>1. ~ImpedimentosCf /\ ConsistenteCf(d)
    BY <1>3 DEF FecharDiaCf
  <2>2. PICK c \in Conferencias(d) : diaCf' = [diaCf EXCEPT ![d] = FechamentoDe(d, c)]
    BY <1>3 DEF FecharDiaCf
  <2>3. PICK n : n = FechamentoDe(d, c)
    OBVIOUS
  <2>4. DiaCerto(n)
    BY <2>1, <2>3, FechamentoCerto
  <2>5. DiaCerto(n)'
    BY <1>1, <2>4, DiaFica
  <2>6. diaCf'[d] = n /\ (\A z \in DiaCf \ {d} : diaCf'[z] = diaCf[z])
        /\ diaCf' = [z \in DiaCf |-> diaCf'[z]]
    BY <2>2, <2>3 DEF InvDiaCf
  <2>7. ASSUME NEW z \in DiaCf, NEW r, r = diaCf'[z], r.fechado PROVE DiaCerto(r)'
    <3>1. CASE z = d
      BY <2>5, <2>6, <2>7, <3>1
    <3>2. CASE z # d
      <4>1. r = diaCf[z]
        BY <2>6, <2>7, <3>2
      <4>2. DiaCerto(r)
        BY <2>7, <4>1 DEF InvDiaCf
      <4> QED BY <1>1, <4>2, DiaFica
    <3> QED BY <3>1, <3>2
  <2> QED BY <2>6, <2>7 DEF InvDiaCf
<1>4. (\E d \in DiaCf : FecharDiaCf(d)) \/ diaCf' = diaCf
  <2>1. /\ \A s, valor : AbrirCaixaCf(s, valor) => diaCf' = diaCf
        /\ \A s, t, valor : MovimentarCf(s, t, valor) => diaCf' = diaCf
        /\ \A s, erro : FecharCaixaCf(s, erro) => diaCf' = diaCf
    BY DEF AbrirCaixaCf, MovimentarCf, FecharCaixaCf
  <2>2. /\ \A v, s : IniciarVendaCf(v, s) \/ FinalizarVendaCf(v, s) => diaCf' = diaCf
        /\ \A v, s, f : RemoverPagamentoCf(v, s, f) => diaCf' = diaCf
        /\ \A v, s, f, valor : PagarCf(v, s, f, valor) => diaCf' = diaCf
        /\ \A v : CancelarVendaCf(v) => diaCf' = diaCf
        /\ NovoDiaCf => diaCf' = diaCf
    BY DEF IniciarVendaCf, FinalizarVendaCf, RemoverPagamentoCf, PagarCf, CancelarVendaCf, NovoDiaCf
  <2>3. CASE UNCHANGED varsConferencia
    BY <2>3 DEF varsConferencia
  <2>4. CASE NextConferencia
    BY <2>1, <2>2, <2>4 DEF NextConferencia
  <2> QED BY <2>3, <2>4
<1> QED BY <1>2, <1>3, <1>4

LEMMA DiaDeInv == InvDiaCf => DiaBate
<1> SUFFICES ASSUME InvDiaCf, NEW d \in DiaCf, diaCf[d].fechado, NEW r, r = diaCf[d]
    PROVE  /\ \A t \in DOMAIN r.sistema : r.sistema[t] = Deixado(r.vendas, t)
           /\ r.situacao = "OK" <=> \A t \in DOMAIN r.sistema : r.conferido[t] = Deixado(r.vendas, t)
           /\ (\A s \in SessaoCf : sessaoCf[s].status = "FECHADO" => sessaoCf[s].aberto = sessaoCf[s].fechado)
                => DinheiroDe(r) + SumFunction([s \in r.sessoes |-> sessaoCf[s].abertura])
                     + r.movimentos["SUPRIMENTO"] - r.movimentos["SANGRIA"] - r.movimentos["DESPESA"]
                   = r.caixas.esperado
  BY DEF DiaBate, DinheiroDe
<1>1. DiaCerto(r)
  BY DEF InvDiaCf
<1> QED BY <1>1 DEF DiaCerto, MesmoDia

LEMMA InicioDiaCf == InitConferencia => InvDiaCf
<1> SUFFICES ASSUME InitConferencia PROVE InvDiaCf
  OBVIOUS
<1>1. \A d \in DiaCf : \A r : r = diaCf[d] => ~r.fechado
  BY DEF InitConferencia, DiaAberto
<1>2. diaCf = [d \in DiaCf |-> diaCf[d]]
  BY DEF InitConferencia
<1> QED BY <1>1, <1>2 DEF InvDiaCf

LEMMA ConferenciaInv == SpecConferencia => [](TypeOKConferencia /\ InvCaixaCf /\ InvDiaCf)
<1>1. InitConferencia => TypeOKConferencia /\ InvCaixaCf /\ InvDiaCf
  BY InicioCaixaCf, InicioDiaCf
<1>2. TypeOKConferencia /\ InvCaixaCf /\ InvDiaCf /\ [NextConferencia]_varsConferencia
      => (TypeOKConferencia /\ InvCaixaCf /\ InvDiaCf)'
  BY PassoCaixaCf, PassoDiaCf
<1> QED BY <1>1, <1>2, PTL DEF SpecConferencia

\* Every amount of the cash, of its closings and of its drawers is of its type: what is
\* expected in a drawer is never negative.
THEOREM TipoConferencia == SpecConferencia => []TypeOKConferencia
<1> QED BY ConferenciaInv, PTL

\* The counts of the cash and of the day tell the truth about the money: what the hub
\* expects in a drawer when a session is closed is what is in it (resumo_caixa.py,
\* calcular_resumo_sessao), and a day that could be closed records, by type of payment,
\* what its sales left, with blocks that agree when no session went past midnight
\* (fechamento_dia.py, _validar_consistencia and the blocks of the closing).
THEOREM ConferenciaFechaSempre == SpecConferencia => []ConferenciaFecha
<1>1. TypeOKConferencia /\ InvCaixaCf /\ InvDiaCf => ConferenciaFecha
  BY BateDeInv, DiaDeInv DEF ConferenciaFecha
<1> QED BY <1>1, ConferenciaInv, PTL


-----------------------------------------------------------------------------
(* Valores: the amounts of a sale up to its note *)

\* Rounding takes an amount that is not negative to one at most half a cent away.
LEMMA ArredondaPar ==
  ASSUME NEW n \in Nat, NEW d \in {100, 10000}
  PROVE  HalfEven(n, d) \in Nat /\ 2 * d * HalfEven(n, d) <= 2 * n + d
<1>1. PICK q, r : q = n \div d /\ r = n % d
  OBVIOUS
<1>2. q \in Nat /\ r \in Nat /\ r < d /\ n = d * q + r
  BY <1>1
<1>3. HalfEven(n, d) = IF 2 * r > d \/ (2 * r = d /\ q % 2 = 1) THEN q + 1 ELSE q
  BY <1>1 DEF HalfEven
<1>4. CASE HalfEven(n, d) = q
  BY <1>2, <1>4
<1>5. CASE HalfEven(n, d) = q + 1 /\ 2 * r >= d
  BY <1>2, <1>5
<1> QED BY <1>2, <1>3, <1>4, <1>5

LEMMA ArredondaNatural ==
  /\ \A n \in Nat : HalfEven(n, 100) \in Nat /\ 200 * HalfEven(n, 100) <= 2 * n + 100
  /\ \A n \in Nat : HalfEven(n, 10000) \in Nat
<1>1. 100 \in {100, 10000} /\ 10000 \in {100, 10000}
  OBVIOUS
<1>2. ASSUME NEW n \in Nat PROVE HalfEven(n, 100) \in Nat /\ 200 * HalfEven(n, 100) <= 2 * n + 100
  <2>1. HalfEven(n, 100) \in Nat /\ 2 * 100 * HalfEven(n, 100) <= 2 * n + 100
    BY <1>1, ArredondaPar
  <2> QED BY <2>1
<1>3. ASSUME NEW n \in Nat PROVE HalfEven(n, 10000) \in Nat
  BY <1>1, ArredondaPar
<1> QED BY <1>2, <1>3

\* Rounding up halves commutes with whole cents.
LEMMA ArredondaCima ==
  ASSUME NEW n \in Nat, NEW d \in Nat, 100 * d <= n
  PROVE  /\ HalfUp(n, 100) \in Nat /\ HalfUp(n - 100 * d, 100) \in Nat
         /\ HalfUp(n, 100) - d = HalfUp(n - 100 * d, 100)
<1>1. HalfUp(n, 100) = (2 * n + 100) \div 200 /\ HalfUp(n - 100 * d, 100) = (2 * (n - 100 * d) + 100) \div 200
  BY DEF HalfUp
<1> QED BY <1>1

LEMMA ProdutoNatural ==
  ASSUME NEW a \in Nat, NEW b \in Nat PROVE a * b \in Nat
  OBVIOUS

Linha == [preco : Nat, promocao : Promocoes, valor : Nat, acumula : BOOLEAN]

\* A discount is not negative and fits in the gross value of its item.
LEMMA DescontoCabe ==
  ASSUME NEW p \in Linha, NEW q \in Nat
  PROVE  /\ p.preco * q \in Nat /\ q * p.preco = p.preco * q
         /\ Desconto(p, q) \in Nat /\ 100 * Desconto(p, q) <= p.preco * q
         /\ q = 0 => Desconto(p, q) = 0
<1>1. p.preco \in Nat /\ p.valor \in Nat /\ p.promocao \in Promocoes
  BY DEF Linha
<1>2. p.preco * q \in Nat /\ q * p.preco = p.preco * q /\ (q = 0 => p.preco * q = 0)
  BY <1>1
<1>3. Pedido(p, q) \in Nat
  <2>1. p.preco * q * p.valor \in Nat
    BY <1>1, <1>2
  <2>2. HalfEven(p.preco * q * p.valor, 10000) \in Nat
    BY <2>1, ArredondaNatural
  <2>3. HalfEven(p.valor, 100) * q \in Nat
    <3>1. PICK v, h : v = p.valor /\ h = HalfEven(v, 100)
      OBVIOUS
    <3>2. v \in Nat
      BY <1>1, <3>1
    <3>3. h \in Nat
      BY <3>1, <3>2, ArredondaNatural
    <3>4. h * q \in Nat
      BY <3>3, ProdutoNatural
    <3> QED BY <3>1, <3>4
  <2>4. HalfEven(Positivo((p.preco - p.valor) * q), 100) \in Nat
    <3>1. (p.preco - p.valor) * q \in Int
      BY <1>1
    <3>2. Positivo((p.preco - p.valor) * q) \in Nat
      BY <3>1 DEF Positivo
    <3> QED BY <3>2, ArredondaNatural
  <2> QED BY <2>2, <2>3, <2>4 DEF Pedido
<1>4. PICK b, a : b = p.preco * q /\ a = Pedido(p, q)
  OBVIOUS
<1>5. Desconto(p, q) = Menor(a, b \div 100) /\ a \in Nat /\ b \in Nat /\ (q = 0 => b = 0)
  BY <1>2, <1>3, <1>4 DEF Desconto
<1>6. b \div 100 \in Nat /\ 100 * (b \div 100) <= b /\ (b = 0 => b \div 100 = 0)
  BY <1>5
<1>7. Menor(a, b \div 100) \in Nat /\ Menor(a, b \div 100) <= b \div 100
  BY <1>5, <1>6 DEF Menor
<1> QED BY <1>2, <1>4, <1>5, <1>6, <1>7

\* An item priced: its value is not negative and is that of its line of the note.
LEMMA PrecoFecha ==
  ASSUME NEW p \in Linha, NEW q \in Nat
  PROVE  /\ Precificado(p, q) \in [qtd : {q}, desconto : Nat, total : Nat]
         /\ HalfUp(q * p.preco, 100) \in Nat
         /\ HalfUp(q * p.preco, 100) - Precificado(p, q).desconto = Precificado(p, q).total
         /\ q = 0 => Precificado(p, q) = SemItem
<1>1. PICK b, d : b = q * p.preco /\ d = Desconto(p, q)
  OBVIOUS
<1>2. b \in Nat /\ d \in Nat /\ 100 * d <= b /\ (q = 0 => d = 0)
  BY <1>1, DescontoCabe
<1>3. HalfUp(b, 100) \in Nat /\ HalfUp(b - 100 * d, 100) \in Nat /\ HalfUp(b, 100) - d = HalfUp(b - 100 * d, 100)
  BY <1>2, ArredondaCima
<1>4. Precificado(p, q) = [qtd |-> q, desconto |-> d, total |-> HalfUp(b - 100 * d, 100)]
  BY <1>1 DEF Precificado
<1>5. ASSUME q = 0 PROVE Precificado(p, q) = SemItem
  <2>1. b = 0 /\ d = 0
    BY <1>1, <1>2, <1>5 DEF Linha
  <2>2. HalfUp(b - 100 * d, 100) = 0
    BY <2>1 DEF HalfUp
  <2> QED BY <1>4, <1>5, <2>1, <2>2 DEF SemItem
<1>6. Precificado(p, q) \in [qtd : {q}, desconto : Nat, total : Nat]
  BY <1>2, <1>3, <1>4
<1>7. Precificado(p, q).desconto = d /\ Precificado(p, q).total = HalfUp(b - 100 * d, 100)
  BY <1>4
<1>8. HalfUp(q * p.preco, 100) = HalfUp(b, 100)
  BY <1>1
<1> QED BY <1>3, <1>5, <1>6, <1>7, <1>8

\* A bag of payments, and what its payments in some forms add up to
PagosTipo(B) ==
  /\ IsFiniteSet(DOMAIN B) /\ B \in [DOMAIN B -> Nat \ {0}]
  /\ \A p \in DOMAIN B : p.forma \in Formas /\ p.valor \in Nat \ {0}
ValorBag(B) == [p \in DOMAIN B |-> p.valor * B[p]]
Nas(B, F) == {p \in DOMAIN B : p.forma \in F}
SomaBag(B, F) == SumFunctionOnSet(ValorBag(B), Nas(B, F))

LEMMA PagoEhSoma == \A F : Pago(F) = SomaBag(pagos, F)
  BY DEF Pago, SomaBag, ValorBag, Nas, BagToSet

LEMMA ValorBagTipo ==
  ASSUME NEW B, PagosTipo(B)
  PROVE  /\ \A p \in DOMAIN B : ValorBag(B)[p] = p.valor * B[p] /\ ValorBag(B)[p] \in Nat
         /\ \A F : IsFiniteSet(Nas(B, F)) /\ Nas(B, F) \subseteq DOMAIN B
<1>1. ASSUME NEW p \in DOMAIN B PROVE ValorBag(B)[p] = p.valor * B[p] /\ ValorBag(B)[p] \in Nat
  <2>1. PICK a, b : a = p.valor /\ b = B[p]
    OBVIOUS
  <2>2. a \in Nat /\ b \in Nat
    BY <2>1 DEF PagosTipo
  <2>3. a * b \in Nat
    BY <2>2, ProdutoNatural
  <2>4. ValorBag(B)[p] = a * b
    BY <2>1 DEF ValorBag
  <2> QED BY <2>1, <2>3, <2>4
<1>2. ASSUME NEW F PROVE IsFiniteSet(Nas(B, F)) /\ Nas(B, F) \subseteq DOMAIN B
  <2>1. Nas(B, F) \subseteq DOMAIN B
    BY DEF Nas
  <2> QED BY <2>1, FS_Subset DEF PagosTipo
<1> QED BY <1>1, <1>2

LEMMA SomaBagPartes ==
  ASSUME NEW B, PagosTipo(B)
  PROVE  /\ \A F : SomaBag(B, F) \in Nat
         /\ \A F, G : F \cap G = {} => SomaBag(B, F \cup G) = SomaBag(B, F) + SomaBag(B, G)
         /\ \A F, G : F \subseteq G => SomaBag(B, F) <= SomaBag(B, G)
<1>1. PICK f : f = ValorBag(B)
  OBVIOUS
<1>2. \A p \in DOMAIN B : f[p] \in Nat
  BY <1>1, ValorBagTipo
<1>3. ASSUME NEW F PROVE SomaBag(B, F) \in Nat
  <2>1. PICK S : S = Nas(B, F)
    OBVIOUS
  <2>2. IsFiniteSet(S) /\ \A p \in S : f[p] \in Nat
    BY <1>2, <2>1, ValorBagTipo
  <2>3. SumFunctionOnSet(f, S) \in Nat
    BY <2>2, SomaPositiva
  <2> QED BY <1>1, <2>1, <2>3 DEF SomaBag
<1>4. ASSUME NEW F, NEW G, F \cap G = {} PROVE SomaBag(B, F \cup G) = SomaBag(B, F) + SomaBag(B, G)
  <2>1. PICK S, T : S = Nas(B, F) /\ T = Nas(B, G)
    OBVIOUS
  <2>2. IsFiniteSet(S) /\ IsFiniteSet(T) /\ \A p \in S \cup T : f[p] \in Int
    BY <1>2, <2>1, ValorBagTipo
  <2>3. S \cap T = {} /\ S \cup T = Nas(B, F \cup G)
    BY <1>4, <2>1 DEF Nas
  <2>4. SumFunctionOnSet(f, S \cup T) = SumFunctionOnSet(f, S) + SumFunctionOnSet(f, T)
    BY <2>2, <2>3, SomaUniao
  <2> QED BY <1>1, <2>1, <2>3, <2>4 DEF SomaBag
<1>5. ASSUME NEW F, NEW G, F \subseteq G PROVE SomaBag(B, F) <= SomaBag(B, G)
  <2>1. F \cap (G \ F) = {} /\ F \cup (G \ F) = G
    BY <1>5
  <2>2. SomaBag(B, G) = SomaBag(B, F) + SomaBag(B, G \ F)
    BY <1>4, <2>1
  <2>3. SomaBag(B, F) \in Nat /\ SomaBag(B, G \ F) \in Nat
    BY <1>3
  <2> QED BY <2>2, <2>3
<1> QED BY <1>3, <1>4, <1>5

\* One payment more
LEMMA SomaBagPoe ==
  ASSUME NEW B, PagosTipo(B), NEW x, x.forma \in Formas, x.valor \in Nat \ {0},
         NEW C, C = B (+) SetToBag({x})
  PROVE  /\ PagosTipo(C)
         /\ \A F : SomaBag(C, F) = SomaBag(B, F) + (IF x.forma \in F THEN x.valor ELSE 0)
<1>1. /\ C = [y \in DOMAIN C |-> C[y]] /\ DOMAIN C = DOMAIN B \cup {x}
      /\ \A y \in DOMAIN B : y # x => C[y] = B[y]
      /\ x \in DOMAIN B => C[x] = B[x] + 1
      /\ x \notin DOMAIN B => C[x] = 1
  BY DEF (+), SetToBag, PagosTipo
<1>2. PagosTipo(C)
  <2>1. IsFiniteSet(DOMAIN C)
    BY <1>1, FS_AddElement DEF PagosTipo
  <2>2. ASSUME NEW y \in DOMAIN C PROVE C[y] \in Nat \ {0}
    <3>1. CASE y \in DOMAIN B
      <4>1. PICK b : b = B[y]
        OBVIOUS
      <4>2. b \in Nat \ {0}
        BY <3>1, <4>1 DEF PagosTipo
      <4>3. C[y] = b \/ C[y] = b + 1
        BY <1>1, <3>1, <4>1
      <4> QED BY <4>2, <4>3
    <3>2. CASE y \notin DOMAIN B
      BY <1>1, <3>2
    <3> QED BY <3>1, <3>2
  <2>3. \A y \in DOMAIN C : y.forma \in Formas /\ y.valor \in Nat \ {0}
    BY <1>1 DEF PagosTipo
  <2> QED BY <1>1, <2>1, <2>2, <2>3 DEF PagosTipo
<1>3. PICK f, g : f = ValorBag(B) /\ g = ValorBag(C)
  OBVIOUS
<1>4. /\ \A p \in DOMAIN B : f[p] \in Int /\ f[p] = p.valor * B[p]
      /\ \A p \in DOMAIN C : g[p] \in Int /\ g[p] = p.valor * C[p]
  BY <1>2, <1>3, ValorBagTipo
<1>5. \A p \in DOMAIN B : p # x => g[p] = f[p]
  BY <1>1, <1>4
<1>6. x \in DOMAIN B => g[x] = f[x] + x.valor
  <2>1. SUFFICES ASSUME x \in DOMAIN B PROVE g[x] = f[x] + x.valor
    OBVIOUS
  <2>2. PICK a, b : a = x.valor /\ b = B[x]
    OBVIOUS
  <2>3. a \in Nat /\ b \in Nat
    BY <2>1, <2>2 DEF PagosTipo
  <2>4. a * (b + 1) = a * b + a
    BY <2>3
  <2> QED BY <1>1, <1>4, <2>1, <2>2, <2>4
<1>7. x \notin DOMAIN B => g[x] = x.valor
  <2>1. SUFFICES ASSUME x \notin DOMAIN B PROVE g[x] = x.valor
    OBVIOUS
  <2>2. PICK a : a = x.valor
    OBVIOUS
  <2>3. a \in Nat /\ a * 1 = a
    BY <2>2
  <2>4. g[x] = a * C[x] /\ C[x] = 1
    BY <1>1, <1>4, <2>1, <2>2
  <2> QED BY <2>2, <2>3, <2>4
<1>8. ASSUME NEW F PROVE SomaBag(C, F) = SomaBag(B, F) + (IF x.forma \in F THEN x.valor ELSE 0)
  <2>1. PICK S, T : S = Nas(B, F) /\ T = Nas(C, F)
    OBVIOUS
  <2>2. IsFiniteSet(S) /\ S \subseteq DOMAIN B /\ IsFiniteSet(T) /\ T \subseteq DOMAIN C
    BY <1>2, <2>1, ValorBagTipo
  <2>3. SomaBag(B, F) = SumFunctionOnSet(f, S) /\ SomaBag(C, F) = SumFunctionOnSet(g, T)
    BY <1>3, <2>1 DEF SomaBag
  <2>4. \A p \in S : f[p] \in Int /\ g[p] \in Int /\ (p # x => f[p] = g[p])
    BY <1>1, <1>4, <1>5, <2>2
  <2>5. SumFunctionOnSet(f, S) \in Int /\ x.valor \in Int
    <3>1. \A p \in S : f[p] \in Int
      BY <2>4
    <3> QED BY <2>2, <3>1, SomaTipo
  <2>6. CASE x.forma \notin F
    <3>1. S = T /\ x \notin S
      BY <1>1, <2>1, <2>6 DEF Nas
    <3>2. \A p \in S : f[p] \in Int /\ f[p] = g[p]
      BY <2>4, <3>1
    <3>3. SumFunctionOnSet(f, S) = SumFunctionOnSet(g, S)
      BY <2>2, <3>2, SomaIgual
    <3> QED BY <2>3, <2>5, <2>6, <3>1, <3>3
  <2>7. CASE x.forma \in F /\ x \in DOMAIN B
    <3>1. S = T /\ x \in S
      BY <1>1, <2>1, <2>7 DEF Nas
    <3>2. SumFunctionOnSet(g, S) = SumFunctionOnSet(f, S) - f[x] + g[x]
      <4>1. x \in S /\ IsFiniteSet(S)
        BY <2>2, <3>1
      <4>2. \A y \in S : f[y] \in Int /\ g[y] \in Int /\ (y # x => f[y] = g[y])
        BY <2>4
      <4> QED BY <4>1, <4>2, SomaMuda
    <3>3. f[x] \in Int /\ g[x] = f[x] + x.valor
      BY <1>4, <1>6, <2>7
    <3> QED BY <2>3, <2>5, <2>7, <3>1, <3>2, <3>3
  <2>8. CASE x.forma \in F /\ x \notin DOMAIN B
    <3>1. T = S \cup {x} /\ x \notin S
      BY <1>1, <2>1, <2>8 DEF Nas
    <3>2. \A p \in S \cup {x} : g[p] \in Int
      BY <1>4, <2>2, <3>1
    <3>3. SumFunctionOnSet(g, S \cup {x}) = g[x] + SumFunctionOnSet(g, S)
      BY <2>2, <3>1, <3>2, SomaPoe
    <3>4. \A p \in S : f[p] \in Int /\ f[p] = g[p]
      BY <2>4, <3>1
    <3>5. SumFunctionOnSet(f, S) = SumFunctionOnSet(g, S)
      BY <2>2, <3>4, SomaIgual
    <3>6. g[x] = x.valor
      BY <1>7, <2>8
    <3> QED BY <2>3, <2>5, <2>8, <3>1, <3>3, <3>5, <3>6
  <2> QED BY <2>6, <2>7, <2>8
<1> QED BY <1>2, <1>8

\* One payment less
LEMMA SomaBagTira ==
  ASSUME NEW B, PagosTipo(B), NEW x \in DOMAIN B, NEW C, C = B (-) SetToBag({x})
  PROVE  PagosTipo(C) /\ \A F : SomaBag(C, F) <= SomaBag(B, F)
<1>1. PICK R : R = [e \in DOMAIN B |-> IF e = x THEN B[e] - 1 ELSE B[e]]
  OBVIOUS
<1>2. C = [e \in {d \in DOMAIN R : R[d] > 0} |-> R[e]]
  <2>1. R = [e \in DOMAIN B |-> IF e \in DOMAIN SetToBag({x}) THEN B[e] - SetToBag({x})[e] ELSE B[e]]
    BY <1>1 DEF SetToBag
  <2> QED BY <2>1 DEF (-)
<1>3. \A p \in DOMAIN B : B[p] \in Nat \ {0} /\ p.forma \in Formas /\ p.valor \in Nat \ {0}
  BY DEF PagosTipo
<1>4. DOMAIN C \subseteq DOMAIN B /\ \A p \in DOMAIN C : C[p] \in Nat \ {0} /\ C[p] <= B[p]
  <2>1. DOMAIN C = {d \in DOMAIN B : R[d] > 0}
    BY <1>1, <1>2
  <2>2. ASSUME NEW p \in DOMAIN C PROVE C[p] \in Nat \ {0} /\ C[p] <= B[p]
    <3>1. p \in DOMAIN B /\ C[p] = R[p] /\ R[p] > 0
      BY <1>2, <2>1
    <3>2. PICK b : b = B[p]
      OBVIOUS
    <3>3. b \in Nat \ {0} /\ (R[p] = b \/ R[p] = b - 1)
      BY <1>1, <1>3, <3>1, <3>2
    <3> QED BY <3>1, <3>2, <3>3
  <2> QED BY <2>1, <2>2
<1>5. PagosTipo(C)
  <2>1. IsFiniteSet(DOMAIN C)
    BY <1>4, FS_Subset DEF PagosTipo
  <2>2. C = [p \in DOMAIN C |-> C[p]]
    BY <1>2
  <2> QED BY <1>3, <1>4, <2>1, <2>2 DEF PagosTipo
<1>6. PICK f, g : f = ValorBag(B) /\ g = ValorBag(C)
  OBVIOUS
<1>7. /\ \A p \in DOMAIN B : f[p] \in Nat /\ f[p] = p.valor * B[p]
      /\ \A p \in DOMAIN C : g[p] \in Nat /\ g[p] = p.valor * C[p]
  BY <1>5, <1>6, ValorBagTipo
<1>8. ASSUME NEW p \in DOMAIN C PROVE g[p] <= f[p]
  <2>1. PICK a, b, c : a = p.valor /\ b = B[p] /\ c = C[p]
    OBVIOUS
  <2>2. a \in Nat /\ b \in Nat /\ c \in Nat /\ c <= b
    BY <1>3, <1>4, <2>1
  <2>3. PICK d \in Nat : b = c + d
    <3>1. b - c \in Nat /\ b = c + (b - c)
      BY <2>2
    <3> QED BY <3>1
  <2>4. a * c \in Nat /\ a * d \in Nat /\ a * (c + d) = a * c + a * d
    BY <2>2, ProdutoNatural
  <2>5. a * c <= a * (c + d)
    BY <2>4
  <2>6. g[p] = a * c /\ f[p] = a * (c + d)
    BY <1>4, <1>7, <2>1, <2>3
  <2> QED BY <2>5, <2>6
<1>9. ASSUME NEW F PROVE SomaBag(C, F) <= SomaBag(B, F)
  <2>1. PICK S, T : S = Nas(B, F) /\ T = Nas(C, F)
    OBVIOUS
  <2>2. IsFiniteSet(S) /\ S \subseteq DOMAIN B /\ IsFiniteSet(T) /\ T \subseteq DOMAIN C /\ T \subseteq S
    <3>1. T \subseteq S
      BY <1>4, <2>1 DEF Nas
    <3> QED BY <1>5, <2>1, <3>1, ValorBagTipo
  <2>3. SomaBag(B, F) = SumFunctionOnSet(f, S) /\ SomaBag(C, F) = SumFunctionOnSet(g, T)
    BY <1>6, <2>1 DEF SomaBag
  <2>4. \A p \in T : g[p] \in Int /\ f[p] \in Int /\ g[p] <= f[p]
    <3>1. \A p \in T : p \in DOMAIN C /\ p \in DOMAIN B
      BY <1>4, <2>2
    <3>2. \A p \in DOMAIN B : f[p] \in Nat
      BY <1>7
    <3>3. \A p \in DOMAIN C : g[p] \in Nat
      BY <1>7
    <3> QED BY <1>8, <3>1, <3>2, <3>3
  <2>5. SumFunctionOnSet(g, T) <= SumFunctionOnSet(f, T)
    BY <2>2, <2>4, SomaMenor
  <2>6. \A p \in S : f[p] \in Int /\ f[p] >= 0
    BY <1>7, <2>2
  <2>7. SumFunctionOnSet(f, T) <= SumFunctionOnSet(f, S)
    BY <2>2, <2>6, SomaDaParte
  <2>8. SumFunctionOnSet(g, T) \in Int /\ SumFunctionOnSet(f, T) \in Int /\ SumFunctionOnSet(f, S) \in Int
    <3>1. \A p \in T : g[p] \in Int /\ f[p] \in Int
      BY <2>4
    <3>2. \A p \in S : f[p] \in Int
      BY <2>6
    <3> QED BY <2>2, <3>1, <3>2, SomaTipo
  <2> QED BY <2>3, <2>5, <2>7, <2>8
<1> QED BY <1>5, <1>9

\* The amounts of a sale: each item is priced by the list, what is not money fits in
\* the total, and the conclusion gives back what is left.
ItemVal == [qtd : 0..MaxUnidades, desconto : Nat, total : Nat]
Itens == /\ itens \in [Sku -> ItemVal]
         /\ \A s \in Sku : itens[s] = Precificado(tabela[s], itens[s].qtd)
Concluida ==
  /\ fim.status = "FINALIZADA" /\ Pago(Formas) >= TotalVal /\ fim.troco = Pago(Formas) - TotalVal
  /\ fim.troco > 0 => Pago({"CASHBACK", "VALE_TROCA"}) = 0
  /\ GeradoSobreODinheiro
InvValores ==
  /\ tabela \in Tabelas /\ Itens /\ PagosTipo(pagos)
  /\ Pago(Formas \ {"DINHEIRO"}) <= TotalVal
  /\ fim = Aberta \/ Concluida

\* the rows of the price lists and the items that are in a sale
LEMMA LinhaDaTabela == ASSUME NEW t \in Tabelas, NEW s \in Sku PROVE t[s] \in Linha
  BY ConstantesValores DEF Linha

LEMMA TotalDosItens ==
  ASSUME NEW it \in [Sku -> ItemVal]
  PROVE  SumFunctionOnSet([s \in Sku |-> it[s].total], Sku) \in Nat
<1>1. PICK f : f = [s \in Sku |-> it[s].total]
  OBVIOUS
<1>2. \A s \in Sku : f[s] \in Nat
  BY <1>1 DEF ItemVal
<1>3. SumFunctionOnSet(f, Sku) \in Nat
  BY <1>2, ConstantesValores, SomaPositiva
<1> QED BY <1>1, <1>3

LEMMA TotalEhSoma == TotalVal = SumFunctionOnSet([s \in Sku |-> itens[s].total], Sku)
  BY DEF TotalVal, SomaDe, SumFunction

LEMMA TotalNatural == (Itens => TotalVal \in Nat) /\ (Itens => TotalVal \in Nat)'
<1>1. Itens => TotalVal \in Nat
  BY TotalEhSoma, TotalDosItens DEF Itens
<1> QED BY <1>1, PTL

LEMMA PagoDepois == \A F : Pago(F)' = SomaBag(pagos', F)
  BY DEF Pago, SomaBag, ValorBag, Nas, BagToSet

LEMMA PagoNatural ==
  ASSUME PagosTipo(pagos)
  PROVE  /\ \A F : Pago(F) \in Nat
         /\ Pago({"CASHBACK", "VALE_TROCA"}) = Pago({"CASHBACK"}) + Pago({"VALE_TROCA"})
         /\ Pago(Formas) = Pago({"CASHBACK"}) + Pago(Formas \ {"CASHBACK"})
         /\ Pago(Formas) = Pago({"VALE_TROCA"}) + Pago(Formas \ {"VALE_TROCA"})
         /\ Pago({"CASHBACK"}) <= Pago(Formas \ {"DINHEIRO"})
         /\ Pago(Formas \ {"DINHEIRO"}) <= Pago(Formas)
<1>1. PICK B : B = pagos
  OBVIOUS
<1>2. \A F : Pago(F) = SomaBag(B, F)
  BY <1>1, PagoEhSoma
<1>3. PagosTipo(B)
  BY <1>1
<1>4. \A F : SomaBag(B, F) \in Nat
  BY <1>3, SomaBagPartes
<1>5. \A F, G : F \cap G = {} => SomaBag(B, F \cup G) = SomaBag(B, F) + SomaBag(B, G)
  BY <1>3, SomaBagPartes
<1>6. \A F, G : F \subseteq G => SomaBag(B, F) <= SomaBag(B, G)
  BY <1>3, SomaBagPartes
<1>7. SomaBag(B, {"CASHBACK", "VALE_TROCA"}) = SomaBag(B, {"CASHBACK"}) + SomaBag(B, {"VALE_TROCA"})
  <2>1. {"CASHBACK"} \cap {"VALE_TROCA"} = {} /\ {"CASHBACK"} \cup {"VALE_TROCA"} = {"CASHBACK", "VALE_TROCA"}
    OBVIOUS
  <2> QED BY <1>5, <2>1
<1>8. ASSUME NEW b \in Formas PROVE SomaBag(B, Formas) = SomaBag(B, {b}) + SomaBag(B, Formas \ {b})
  <2>1. {b} \cap (Formas \ {b}) = {} /\ {b} \cup (Formas \ {b}) = Formas
    OBVIOUS
  <2> QED BY <1>5, <2>1
<1>9. "CASHBACK" \in Formas /\ "VALE_TROCA" \in Formas
  BY DEF Formas
<1>10. {"CASHBACK"} \subseteq Formas \ {"DINHEIRO"} /\ Formas \ {"DINHEIRO"} \subseteq Formas
  BY DEF Formas
<1>11. SomaBag(B, {"CASHBACK"}) <= SomaBag(B, Formas \ {"DINHEIRO"}) /\ SomaBag(B, Formas \ {"DINHEIRO"}) <= SomaBag(B, Formas)
  BY <1>6, <1>10
<1> QED BY <1>2, <1>4, <1>7, <1>8, <1>9, <1>11

\* Nothing that the invariant is about moves.
LEMMA ValoresParados ==
  ASSUME InvValores, UNCHANGED <<tabela, itens, pagos, fim>>
  PROVE  InvValores'
<1>1. \A F : Pago(F)' = Pago(F)
  BY PagoDepois, PagoEhSoma
<1>2. TotalVal' = TotalVal
  BY DEF TotalVal, SomaDe
<1>3. Itens'
  BY DEF InvValores, Itens
<1>4. Concluida => Concluida'
  BY <1>1, <1>2 DEF Concluida, GeradoSobreODinheiro
<1> QED BY <1>1, <1>2, <1>3, <1>4 DEF InvValores, Aberta

LEMMA SemPagamento ==
  ASSUME NEW B, B = EmptyBag PROVE PagosTipo(B) /\ \A F : SomaBag(B, F) = 0
<1>1. DOMAIN B = {} /\ B = [p \in {} |-> 1]
  BY DEF EmptyBag, SetToBag
<1>2. PagosTipo(B)
  BY <1>1, FS_EmptySet DEF PagosTipo
<1>3. ASSUME NEW F PROVE SomaBag(B, F) = 0
  <2>1. Nas(B, F) = {}
    BY <1>1 DEF Nas
  <2> QED BY <2>1, SomaVazia DEF SomaBag
<1> QED BY <1>2, <1>3

LEMMA ValoresInicio == InitValores => InvValores
<1> SUFFICES ASSUME InitValores PROVE InvValores
  OBVIOUS
<1>1. tabela \in Tabelas /\ itens = [s \in Sku |-> SemItem] /\ pagos = EmptyBag /\ fim = Aberta
  BY DEF InitValores
<1>2. PagosTipo(pagos) /\ \A F : Pago(F) = 0
  BY <1>1, SemPagamento, PagoEhSoma
<1>3. Itens
  <2>1. itens \in [Sku -> ItemVal]
    BY <1>1, ConstantesValores DEF ItemVal, SemItem
  <2>2. ASSUME NEW s \in Sku PROVE itens[s] = Precificado(tabela[s], itens[s].qtd)
    <3>1. tabela[s] \in Linha
      BY <1>1, LinhaDaTabela
    <3>2. itens[s] = SemItem /\ itens[s].qtd = 0
      BY <1>1 DEF SemItem
    <3> QED BY <3>1, <3>2, PrecoFecha
  <2> QED BY <2>1, <2>2 DEF Itens
<1>4. TotalVal \in Nat
  BY <1>3, TotalNatural
<1>5. Pago(Formas \ {"DINHEIRO"}) <= TotalVal
  BY <1>2, <1>4
<1> QED BY <1>1, <1>2, <1>3, <1>5 DEF InvValores

LEMMA ValoresMuda ==
  ASSUME InvValores, NEW s \in Sku, NEW q \in 0..MaxUnidades, MudarItem(s, q)
  PROVE  InvValores'
<1>1. /\ fim.status = "ABERTA" /\ pagos = EmptyBag
      /\ itens' = [itens EXCEPT ![s] = Precificado(tabela[s], q)]
      /\ UNCHANGED <<tabela, pagos, fim>>
  BY DEF MudarItem, SomaDe
<1>2. fim = Aberta /\ fim' = Aberta
  BY <1>1 DEF InvValores, Concluida, Aberta
<1>3. Itens'
  <2>1. tabela[s] \in Linha /\ q \in Nat
    BY ConstantesValores, LinhaDaTabela DEF InvValores
  <2>2. PICK x : x = Precificado(tabela[s], q)
    OBVIOUS
  <2>3. x \in [qtd : {q}, desconto : Nat, total : Nat]
    BY <2>1, <2>2, PrecoFecha
  <2>4. x \in ItemVal /\ x.qtd = q
    BY <2>3 DEF ItemVal
  <2>5. itens' \in [Sku -> ItemVal] /\ itens'[s] = x /\ \A r \in Sku : r # s => itens'[r] = itens[r]
    BY <1>1, <2>2, <2>4 DEF InvValores, Itens
  <2>6. ASSUME NEW r \in Sku PROVE itens'[r] = Precificado(tabela'[r], itens'[r].qtd)
    BY <1>1, <2>2, <2>4, <2>5 DEF InvValores, Itens
  <2> QED BY <2>5, <2>6 DEF Itens
<1>4. PagosTipo(pagos)' /\ \A F : Pago(F)' = 0
  <2>1. pagos' = EmptyBag
    BY <1>1
  <2>2. PagosTipo(pagos') /\ \A F : SomaBag(pagos', F) = 0
    BY <2>1, SemPagamento
  <2> QED BY <2>2, PagoDepois DEF PagosTipo
<1>5. TotalVal' \in Nat
  BY <1>3, TotalNatural
<1>6. tabela' \in Tabelas
  BY <1>1 DEF InvValores
<1> QED BY <1>2, <1>3, <1>4, <1>5, <1>6 DEF InvValores

LEMMA ValoresPaga ==
  ASSUME InvValores, NEW forma \in Formas, NEW v \in Pagaveis, PagarValor(forma, v)
  PROVE  InvValores'
<1>1. /\ fim.status = "ABERTA" /\ Pendente0 > 0 /\ (forma # "DINHEIRO" => v <= Pendente0)
      /\ pagos' = pagos (+) SetToBag({[forma |-> forma, valor |-> v]})
      /\ UNCHANGED <<tabela, itens, fim>>
  BY DEF PagarValor
<1>2. fim = Aberta /\ fim' = Aberta
  BY <1>1 DEF InvValores, Concluida, Aberta
<1>3. TotalVal \in Nat /\ TotalVal' = TotalVal
  BY <1>1, TotalNatural DEF InvValores, TotalVal, SomaDe
<1>4. v \in Nat \ {0}
  <2>1. PICK t : t = TotalVal
    OBVIOUS
  <2>2. v > 0 /\ (v \in Quantias \/ \E q \in Quantias \cup {0} : v = t - q \/ v = t - q + 1)
    BY <2>1 DEF Pagaveis
  <2>3. t \in Int /\ \A q \in Quantias \cup {0} : q \in Int
    BY <1>3, <2>1, ConstantesValores
  <2>4. v \in Int
    BY <2>2, <2>3
  <2> QED BY <2>2, <2>4
<1>5. PICK x : x = [forma |-> forma, valor |-> v]
  OBVIOUS
<1>6. /\ PagosTipo(pagos')
      /\ \A F : SomaBag(pagos', F) = SomaBag(pagos, F) + (IF forma \in F THEN v ELSE 0)
  <2>1. PICK B, C : B = pagos /\ C = pagos'
    OBVIOUS
  <2>2. PagosTipo(B) /\ C = B (+) SetToBag({x})
    BY <1>1, <1>5, <2>1 DEF InvValores
  <2>3. x.forma = forma /\ x.valor = v /\ x.forma \in Formas /\ x.valor \in Nat \ {0}
    BY <1>4, <1>5
  <2>4. PagosTipo(C) /\ \A F : SomaBag(C, F) = SomaBag(B, F) + (IF x.forma \in F THEN x.valor ELSE 0)
    BY <2>2, <2>3, SomaBagPoe
  <2> QED BY <2>1, <2>3, <2>4
<1>7. Pago(Formas \ {"DINHEIRO"})' <= TotalVal
  <2>1. PICK a, b, t : a = Pago(Formas \ {"DINHEIRO"}) /\ b = Pago(Formas) /\ t = TotalVal
    OBVIOUS
  <2>2. a \in Nat /\ b \in Nat /\ t \in Nat /\ a <= b /\ a <= t
    BY <1>3, <2>1, PagoNatural DEF InvValores
  <2>3. Pago(Formas \ {"DINHEIRO"})' = a + (IF forma \in Formas \ {"DINHEIRO"} THEN v ELSE 0)
    BY <1>6, <2>1, PagoDepois, PagoEhSoma
  <2>4. CASE forma = "DINHEIRO"
    <3>1. Pago(Formas \ {"DINHEIRO"})' = a + 0
      BY <2>3, <2>4
    <3> QED BY <2>1, <2>2, <3>1
  <2>5. CASE forma # "DINHEIRO"
    <3>1. Pago(Formas \ {"DINHEIRO"})' = a + v
      BY <2>3, <2>5
    <3>2. v <= t - b
      BY <1>1, <1>4, <2>1, <2>2, <2>5 DEF Pendente0, Positivo
    <3> QED BY <1>4, <2>1, <2>2, <3>1, <3>2
  <2> QED BY <2>4, <2>5
<1>8. tabela' \in Tabelas /\ Itens' /\ PagosTipo(pagos)'
  BY <1>1, <1>6 DEF InvValores, Itens, PagosTipo
<1> QED BY <1>2, <1>3, <1>7, <1>8 DEF InvValores

LEMMA ValoresRemove ==
  ASSUME InvValores, NEW p \in BagToSet(pagos), RemoverValor(p)
  PROVE  InvValores'
<1>1. /\ fim.status = "ABERTA" /\ pagos' = pagos (-) SetToBag({p}) /\ p \in DOMAIN pagos
      /\ UNCHANGED <<tabela, itens, fim>>
  BY DEF RemoverValor, BagToSet
<1>2. fim = Aberta /\ fim' = Aberta
  BY <1>1 DEF InvValores, Concluida, Aberta
<1>3. TotalVal \in Nat /\ TotalVal' = TotalVal
  BY <1>1, TotalNatural DEF InvValores, TotalVal, SomaDe
<1>4. PagosTipo(pagos') /\ \A F : SomaBag(pagos', F) <= SomaBag(pagos, F) /\ SomaBag(pagos', F) \in Nat
  <2>1. PICK B, C : B = pagos /\ C = pagos'
    OBVIOUS
  <2>2. PagosTipo(B) /\ p \in DOMAIN B /\ C = B (-) SetToBag({p})
    BY <1>1, <2>1 DEF InvValores
  <2>3. PagosTipo(C) /\ \A F : SomaBag(C, F) <= SomaBag(B, F)
    BY <2>2, SomaBagTira
  <2>4. \A F : SomaBag(C, F) \in Nat
    BY <2>3, SomaBagPartes
  <2> QED BY <2>1, <2>3, <2>4
<1>5. Pago(Formas \ {"DINHEIRO"})' <= TotalVal
  <2>1. PICK a, b, t : a = Pago(Formas \ {"DINHEIRO"}) /\ b = Pago(Formas \ {"DINHEIRO"})' /\ t = TotalVal
    OBVIOUS
  <2>2. a \in Nat /\ a <= t /\ t \in Nat
    BY <1>3, <2>1, PagoNatural DEF InvValores
  <2>3. b <= a /\ b \in Nat
    BY <1>4, <2>1, PagoDepois, PagoEhSoma
  <2> QED BY <2>1, <2>2, <2>3
<1>6. tabela' \in Tabelas /\ Itens' /\ PagosTipo(pagos)'
  BY <1>1, <1>4 DEF InvValores, Itens, PagosTipo
<1> QED BY <1>2, <1>3, <1>5, <1>6 DEF InvValores

\* the share of the sale that earns cashback
Acumulam == SumFunctionOnSet([s \in Sku |-> IF tabela[s].acumula THEN itens[s].total ELSE 0], Sku)

LEMMA GeravelEhSoma == Geravel = Positivo(Acumulam - Pago({"CASHBACK"}))
  BY DEF Geravel, Acumulam, SomaDe, SumFunction

LEMMA GeradoCabe ==
  ASSUME InvValores
  PROVE  /\ Gerado \in Nat
         /\ 200 * Gerado <= 2 * Cashback.percentual * (TotalVal - Pago({"CASHBACK"})) + 100
         /\ 0 <= 2 * Cashback.percentual * (TotalVal - Pago({"CASHBACK"}))
<1>1. PICK c, t, k, z : c = Pago({"CASHBACK"}) /\ t = TotalVal /\ k = Cashback.percentual
                        /\ z = Acumulam
  OBVIOUS
<1>2. c \in Nat /\ t \in Nat /\ k \in Nat /\ c <= t
  <2>1. PICK d : d = Pago(Formas \ {"DINHEIRO"})
    OBVIOUS
  <2>2. c \in Nat /\ d \in Nat /\ c <= d /\ d <= t /\ t \in Nat
    BY <1>1, <2>1, PagoNatural, TotalNatural DEF InvValores
  <2>3. k \in Nat
    BY <1>1, ConstantesValores
  <2> QED BY <2>2, <2>3
<1>3. z \in Int /\ z <= t
  <2>1. PICK f, g : f = [s \in Sku |-> IF tabela[s].acumula THEN itens[s].total ELSE 0]
                    /\ g = [s \in Sku |-> itens[s].total]
    OBVIOUS
  <2>2. \A s \in Sku : itens[s].total \in Nat
    BY DEF InvValores, Itens, ItemVal
  <2>3. \A s \in Sku : f[s] \in Int /\ g[s] \in Int /\ f[s] <= g[s]
    BY <2>1, <2>2
  <2>4. SumFunctionOnSet(f, Sku) <= SumFunctionOnSet(g, Sku)
    BY <2>3, ConstantesValores, SomaMenor
  <2>5. \A s \in Sku : f[s] \in Int
    BY <2>3
  <2>6. SumFunctionOnSet(f, Sku) \in Int
    BY <2>5, ConstantesValores, SomaTipo
  <2>7. z = SumFunctionOnSet(f, Sku)
    BY <1>1, <2>1 DEF Acumulam
  <2>8. t = SumFunctionOnSet(g, Sku)
    BY <1>1, <2>1, TotalEhSoma
  <2> QED BY <2>4, <2>6, <2>7, <2>8
<1>4. PICK h : h = Geravel
  OBVIOUS
<1>5. h \in Nat /\ h <= t - c
  BY <1>1, <1>2, <1>3, <1>4, GeravelEhSoma DEF Positivo
<1>6. PICK e \in Nat : t - c = h + e
  <2>1. (t - c) - h \in Nat /\ t - c = h + ((t - c) - h)
    BY <1>2, <1>5
  <2> QED BY <2>1
<1>7. k * h \in Nat /\ k * e \in Nat /\ k * (h + e) = k * h + k * e
  BY <1>2, <1>5, <1>6, ProdutoNatural
<1>8. PICK n, m, w : n = k * h /\ m = k * e /\ w = k * (h + e)
  OBVIOUS
<1>9. n \in Nat /\ m \in Nat /\ w = n + m
  BY <1>7, <1>8
<1>10. 2 * k * (t - c) = 2 * w
  <2>1. 2 * k * (h + e) = 2 * (k * (h + e))
    BY <1>2, <1>5, <1>6
  <2> QED BY <1>6, <1>8, <2>1
<1>11. Gerado = 0 \/ Gerado = HalfEven(n, 100)
  <2>1. h * k = n
    BY <1>2, <1>5, <1>8
  <2> QED BY <1>1, <1>4, <2>1 DEF Gerado
<1>12. HalfEven(n, 100) \in Nat /\ 200 * HalfEven(n, 100) <= 2 * n + 100
  BY <1>9, ArredondaNatural
<1>13. PICK r : r = Gerado
  OBVIOUS
<1>14. r \in Nat /\ 200 * r <= 2 * n + 100
  <2>1. PICK y : y = HalfEven(n, 100)
    OBVIOUS
  <2>2. y \in Nat /\ 200 * y <= 2 * n + 100 /\ (r = 0 \/ r = y)
    BY <1>11, <1>12, <1>13, <2>1
  <2> QED BY <1>9, <2>2
<1>15. 200 * r <= 2 * w + 100 /\ 0 <= 2 * w
  BY <1>9, <1>14
<1> QED BY <1>1, <1>10, <1>13, <1>14, <1>15

\* A benefit that was accepted takes no place of another form, so there is no change.
LEMMA SemTrocoDeBeneficio ==
  ASSUME InvValores, NEW b \in {"CASHBACK", "VALE_TROCA"}, Pago({b}) > 0, CabeSem(Pago({b}), b)
  PROVE  Pago(Formas) <= TotalVal
<1>1. PICK x, y, t : x = Pago({b}) /\ y = Pago(Formas \ {b}) /\ t = TotalVal
  OBVIOUS
<1>2. x \in Nat /\ y \in Nat /\ t \in Nat /\ Pago(Formas) = x + y
  BY <1>1, PagoNatural, TotalNatural DEF InvValores
<1>3. x > 0 /\ x <= Positivo(t - y)
  BY <1>1 DEF CabeSem
<1>4. x <= t - y
  BY <1>2, <1>3 DEF Positivo
<1> QED BY <1>1, <1>2, <1>4

LEMMA ValoresFinaliza ==
  ASSUME InvValores, FinalizarValor PROVE InvValores'
<1>1. /\ Pago(Formas) >= TotalVal /\ CashbackConfere /\ ValeConfere
      /\ fim' = [status |-> "FINALIZADA", troco |-> TrocoVal, gerado |-> Gerado]
      /\ UNCHANGED <<tabela, itens, pagos>>
  BY DEF FinalizarValor
<1>2. TotalVal' = TotalVal /\ \A F : Pago(F)' = Pago(F)
  BY <1>1, PagoDepois, PagoEhSoma DEF TotalVal, SomaDe
<1>3. PICK a, t, c, v : a = Pago(Formas) /\ t = TotalVal /\ c = Pago({"CASHBACK"}) /\ v = Pago({"VALE_TROCA"})
  OBVIOUS
<1>4. a \in Nat /\ t \in Nat /\ c \in Nat /\ v \in Nat /\ a >= t
  BY <1>1, <1>3, PagoNatural, TotalNatural DEF InvValores
<1>5. TrocoVal = a - t
  BY <1>3, <1>4 DEF TrocoVal, Positivo
<1>6. a - t > 0 => c + v = 0
  <2>1. c > 0 => a <= t
    BY <1>1, <1>3, SemTrocoDeBeneficio DEF CashbackConfere, CashbackAceito
  <2>2. v > 0 => a <= t
    BY <1>1, <1>3, SemTrocoDeBeneficio DEF ValeConfere, ValeAceito
  <2> QED BY <1>4, <2>1, <2>2
<1>7. Pago({"CASHBACK", "VALE_TROCA"}) = c + v
  BY <1>3, PagoNatural DEF InvValores
<1>8. GeradoSobreODinheiro'
  BY <1>1, <1>2, GeradoCabe DEF GeradoSobreODinheiro
<1>9. fim'.status = "FINALIZADA" /\ fim'.troco = a - t
  BY <1>1, <1>5
<1>10. Concluida'
  BY <1>2, <1>3, <1>4, <1>6, <1>7, <1>8, <1>9 DEF Concluida
<1>11. /\ tabela' \in Tabelas /\ Itens' /\ PagosTipo(pagos)'
       /\ Pago(Formas \ {"DINHEIRO"})' <= TotalVal'
  BY <1>1, <1>2 DEF InvValores, Itens
<1> QED BY <1>10, <1>11 DEF InvValores

\* The inductive invariant of the amounts, for any price lists and payments.
THEOREM InvarianteValores == SpecValores => []InvValores
<1>1. ASSUME InvValores, [NextValores]_varsValores PROVE InvValores'
  <2>1. CASE \E s \in Sku, q \in 0..MaxUnidades : MudarItem(s, q)
    BY <1>1, <2>1, ValoresMuda
  <2>2. CASE \E forma \in Formas, v \in Pagaveis : PagarValor(forma, v)
    BY <1>1, <2>2, ValoresPaga
  <2>3. CASE \E p \in BagToSet(pagos) : RemoverValor(p)
    BY <1>1, <2>3, ValoresRemove
  <2>4. CASE FinalizarValor
    BY <1>1, <2>4, ValoresFinaliza
  <2>5. ASSUME NEW u \in [Sku -> 0..MaxUnidades], DevolverValor(u) PROVE InvValores'
    <3>1. UNCHANGED <<tabela, itens, pagos, fim>>
      BY <2>5 DEF DevolverValor
    <3> QED BY <1>1, <3>1, ValoresParados
  <2>6. ASSUME NEW i, NEW c, ConfirmarValor(i, c) PROVE InvValores'
    <3>1. UNCHANGED <<tabela, itens, pagos, fim>>
      BY <2>6 DEF ConfirmarValor
    <3> QED BY <1>1, <3>1, ValoresParados
  <2>7. CASE UNCHANGED varsValores
    <3>1. UNCHANGED <<tabela, itens, pagos, fim>>
      BY <2>7 DEF varsValores
    <3> QED BY <1>1, <3>1, ValoresParados
  <2> QED BY <1>1, <2>1, <2>2, <2>3, <2>4, <2>5, <2>6, <2>7 DEF NextValores
<1> QED BY ValoresInicio, <1>1, PTL DEF SpecValores

\* The lines of the note are those of the sale.
LEMMA NotaDosItens ==
  ASSUME InvValores
  PROVE  /\ \A s \in Sku : VBc(s) >= 0
         /\ TotaisNota.vProd - TotaisNota.vDesc = TotalVal
<1>1. PICK f, g, h : /\ f = [s \in Sku |-> VDesc(s)] /\ g = [s \in Sku |-> itens[s].total]
                     /\ h = [s \in Sku |-> VProd(s)]
  OBVIOUS
<1>2. ASSUME NEW s \in Sku
      PROVE  VDesc(s) \in Nat /\ itens[s].total \in Nat /\ VProd(s) \in Nat /\ VProd(s) - VDesc(s) = itens[s].total
  <2>1. PICK p, q : p = tabela[s] /\ q = itens[s].qtd
    OBVIOUS
  <2>2. p \in Linha /\ q \in Nat /\ itens[s] = Precificado(p, q)
    BY <2>1, ConstantesValores, LinhaDaTabela DEF InvValores, Itens, ItemVal
  <2>3. itens[s].desconto \in Nat /\ itens[s].total \in Nat
    BY DEF InvValores, Itens, ItemVal
  <2>4. HalfUp(q * p.preco, 100) \in Nat /\ HalfUp(q * p.preco, 100) - itens[s].desconto = itens[s].total
    BY <2>2, PrecoFecha
  <2> QED BY <2>1, <2>3, <2>4 DEF VProd, VDesc
<1>3. \A s \in Sku : VBc(s) >= 0
  BY <1>2 DEF VBc
<1>4. \A s \in Sku : f[s] \in Int /\ g[s] \in Int /\ h[s] = f[s] + g[s]
  BY <1>1, <1>2
<1>5. SumFunctionOnSet(h, Sku) = SumFunctionOnSet(f, Sku) + SumFunctionOnSet(g, Sku)
  BY <1>4, ConstantesValores, SomaMais
<1>6. SumFunctionOnSet(f, Sku) \in Int /\ SumFunctionOnSet(g, Sku) \in Int
  <2>1. \A s \in Sku : f[s] \in Int
    BY <1>4
  <2>2. \A s \in Sku : g[s] \in Int
    BY <1>4
  <2> QED BY <2>1, <2>2, ConstantesValores, SomaTipo
<1>7. TotaisNota.vProd = SumFunctionOnSet(h, Sku) /\ TotaisNota.vDesc = SumFunctionOnSet(f, Sku)
  BY <1>1 DEF TotaisNota, SomaDe, SumFunction
<1>8. TotalVal = SumFunctionOnSet(g, Sku)
  BY <1>1, TotalEhSoma
<1> QED BY <1>3, <1>5, <1>6, <1>7, <1>8

LEMMA ContasDaVenda == InvValores => VendaFecha
<1> SUFFICES ASSUME InvValores PROVE VendaFecha
  OBVIOUS
<1>1. ItensPositivos
  BY DEF InvValores, Itens, ItemVal, ItensPositivos
<1>2. TrocoSoDeDinheiro
  BY DEF InvValores, Concluida, Aberta, TrocoSoDeDinheiro
<1>3. GeradoSobreODinheiro
  <2>1. CASE fim = Aberta
    <3>1. fim.gerado = 0
      BY <2>1 DEF Aberta
    <3>2. PICK x : x = 2 * Cashback.percentual * (TotalVal - Pago({"CASHBACK"}))
      OBVIOUS
    <3>3. 0 <= x /\ x \in Int
      <4>1. TotalVal \in Nat /\ Pago({"CASHBACK"}) \in Nat /\ Cashback.percentual \in Nat
        BY ConstantesValores, PagoNatural, TotalNatural DEF InvValores
      <4>2. 0 <= x
        BY <3>2, GeradoCabe
      <4> QED BY <3>2, <4>1, <4>2
    <3> QED BY <3>1, <3>2, <3>3 DEF GeradoSobreODinheiro
  <2>2. CASE Concluida
    BY <2>2 DEF Concluida
  <2> QED BY <2>1, <2>2 DEF InvValores
<1>4. NotaFecha
  <2>1. SUFFICES ASSUME fim.status = "FINALIZADA" PROVE NotaFecha
    BY DEF NotaFecha
  <2>2. fim.troco = Pago(Formas) - TotalVal
    BY <2>1 DEF InvValores, Concluida, Aberta
  <2>3. TotalVal \in Nat /\ Pago(Formas) \in Nat
    BY PagoNatural, TotalNatural DEF InvValores
  <2>4. TotaisNota.vNF = TotalVal /\ PagNota.vPag = Pago(Formas) /\ PagNota.vTroco = fim.troco
    BY DEF TotaisNota, PagNota
  <2>5. Pago(Formas) - fim.troco = TotalVal
    BY <2>2, <2>3
  <2> QED BY <2>4, <2>5, NotaDosItens DEF NotaFecha
<1> QED BY <1>1, <1>2, <1>3, <1>4 DEF VendaFecha

\* ContasFecham (vendas.py:750, nfce.py), as far as the note: whatever the prices, the
\* promotions and the payments, no item is negative, only money is given back, cashback
\* is earned on what was not paid with it, and the note adds up.
THEOREM VendaFechaSempre == SpecValores => []VendaFecha
  BY InvarianteValores, ContasDaVenda, PTL
=============================================================================
