------------------------------- MODULE Caixa -------------------------------
(***************************************************************************)
(* The cash session of a store and the closing of its day: caixa.py,       *)
(* movimentacoes_caixa.py, resumo_caixa.py, fechamento_dia.py, and of      *)
(* vendas.py the steps that tie a sale to a session.                       *)
(*                                                                         *)
(* Every operation of a terminal starts by locking its row joined with the *)
(* row of the hub (select_for_update().select_related("hub")), so it holds *)
(* the lock of the hub until its transaction ends.  Those whose reads and  *)
(* writes matter here are two steps: Ler takes the locks and reads, Gravar *)
(* writes and commits, Desfazer rolls back (an error, a crash).  abrir_caixa,*)
(* configurar_terminal and fechar_dia do not take the lock of the hub.     *)
(***************************************************************************)
EXTENDS Naturals, FiniteSets

CONSTANTS
  TerminalCx,   \* terminals
  CaixaHub,     \* cash registers of the hub
  SessaoCx,     \* cash sessions that may be opened
  VendaCx,      \* sales that may be started
  NuloCx,       \* no register, no session, no closing
  MaxMovimento, \* bound of the model: cash movements of a session
  MaxDia        \* bound of the model: days

ASSUME ConstantesCaixa ==
  /\ NuloCx \notin CaixaHub \cup SessaoCx \cup TerminalCx
  /\ MaxMovimento \in Nat
  /\ MaxDia \in Nat \ {0}

VARIABLES
  caixaAtivo, \* CaixaHub.ativo
  caixaDe,   \* Terminal.caixa_retaguarda_id
  sessao,    \* SessaoCaixaHub
  vendaCx,   \* VendaHub: status, terminal, sessao_caixa, day of finalizada_em
  movimento, \* number of rows of MovimentacaoCaixaHub of each session
  tx,        \* the transaction that holds the lock of each terminal
  hoje,      \* the date
  dia,       \* FechamentoDiaHub of each date
  previa     \* the call of fechar_dia in progress

varsCaixa == <<caixaAtivo, caixaDe, sessao, vendaCx, movimento, tx, hoje, dia, previa>>

Dia == 1..MaxDia
Resumo == [vendas : SUBSET VendaCx, movimentos : 0..MaxMovimento]
SemResumo == [vendas |-> {}, movimentos |-> 0]
LinhaSessao == [status : {"NENHUMA", "ABERTO", "FECHADO"},
                caixa : CaixaHub \cup {NuloCx}, resumo : Resumo]
LinhaVenda == [status : {"NENHUMA", "ABERTA", "FINALIZADA", "CANCELADA"},
               terminal : TerminalCx \cup {NuloCx},
               sessao : SessaoCx \cup {NuloCx}, dia : Dia \cup {0}]
LinhaFechamento == [vendas : SUBSET VendaCx, formas : SUBSET VendaCx]
Livre == [op |-> "livre"]
Transacao ==
  {Livre} \cup [op : {"iniciar"}, sessao : SessaoCx]
          \cup [op : {"finalizar"}, venda : VendaCx]
          \cup [op : {"fechar"}, sessao : SessaoCx, resumo : Resumo]
Previa ==
  {Livre} \cup [op : {"formas", "impedimentos", "gravar"}, dia : Dia,
                vendas : SUBSET VendaCx, formas : SUBSET VendaCx]

TypeOKCaixa ==
  /\ caixaAtivo \in [CaixaHub -> BOOLEAN]
  /\ caixaDe \in [TerminalCx -> CaixaHub \cup {NuloCx}]
  /\ sessao \in [SessaoCx -> LinhaSessao]
  /\ vendaCx \in [VendaCx -> LinhaVenda]
  /\ movimento \in [SessaoCx -> 0..MaxMovimento]
  /\ tx \in [TerminalCx -> Transacao]
  /\ hoje \in Dia
  /\ dia \in [Dia -> LinhaFechamento \cup {NuloCx}]
  /\ previa \in Previa

InitCaixa ==
  /\ caixaAtivo = [c \in CaixaHub |-> TRUE]
  /\ caixaDe \in [TerminalCx -> CaixaHub]
  /\ sessao = [s \in SessaoCx |-> [status |-> "NENHUMA", caixa |-> NuloCx, resumo |-> SemResumo]]
  /\ vendaCx = [v \in VendaCx |-> [status |-> "NENHUMA", terminal |-> NuloCx,
                                   sessao |-> NuloCx, dia |-> 0]]
  /\ movimento = [s \in SessaoCx |-> 0]
  /\ tx = [t \in TerminalCx |-> Livre]
  /\ hoje = 1
  /\ dia = [d \in Dia |-> NuloCx]
  /\ previa = Livre

-----------------------------------------------------------------------------
(* Locks and reads *)

\* mutant: the row of the terminal is locked without the join with the hub
MutPodeTravarSoTerminal(t) == tx[t].op = "livre"
PodeTravar(t) == \A u \in TerminalCx : tx[u].op = "livre"

\* obter_caixa_terminal and obter_sessao_caixa_aberta
AbertaEm(s, t) == sessao[s].status = "ABERTO" /\ sessao[s].caixa = caixaDe[t]
\* the same with exigir_ativo
EmUso(s, t) == AbertaEm(s, t) /\ caixaAtivo[sessao[s].caixa]

\* fechar_caixa holds the rows of the register and of the session it closes
CaixaLivre(c) == \A u \in TerminalCx : tx[u].op = "fechar" => sessao[tx[u].sessao].caixa # c
SessaoLivre(s) == \A u \in TerminalCx : tx[u].op = "fechar" => tx[u].sessao # s

Finalizadas(s) == {v \in VendaCx : vendaCx[v].status = "FINALIZADA" /\ vendaCx[v].sessao = s}
FinalizadasNo(d) == {v \in VendaCx : vendaCx[v].status = "FINALIZADA" /\ vendaCx[v].dia = d}
ExisteVendaAberta(s) == \E v \in VendaCx : vendaCx[v].status = "ABERTA" /\ vendaCx[v].sessao = s

\* calcular_resumo_sessao; the amounts are those of the rows it adds up
\* mutant: the sales of the terminal that closes, not of the session
MutResumoDoTerminal(t, s) ==
  [vendas |-> {v \in Finalizadas(s) : vendaCx[v].terminal = t}, movimentos |-> movimento[s]]
ResumoSessao(t, s) == [vendas |-> Finalizadas(s), movimentos |-> movimento[s]]

-----------------------------------------------------------------------------
(* Session *)

AbrirCaixa(t, s) ==
  /\ caixaDe[t] # NuloCx /\ caixaAtivo[caixaDe[t]]
  /\ tx[t].op = "livre"
  /\ CaixaLivre(caixaDe[t])
  /\ \A x \in SessaoCx : ~AbertaEm(x, t)
  /\ sessao[s].status = "NENHUMA"
  /\ sessao' = [sessao EXCEPT ![s] = [status |-> "ABERTO", caixa |-> caixaDe[t], resumo |-> SemResumo]]
  /\ UNCHANGED <<caixaAtivo, caixaDe, vendaCx, movimento, tx, hoje, dia, previa>>

PodeFechar(s) == ~ExisteVendaAberta(s)

FecharCaixaLer(t, s) ==
  /\ PodeTravar(t)
  /\ AbertaEm(s, t)
  /\ SessaoLivre(s)
  /\ PodeFechar(s)
  /\ tx' = [tx EXCEPT ![t] = [op |-> "fechar", sessao |-> s, resumo |-> ResumoSessao(t, s)]]
  /\ UNCHANGED <<caixaAtivo, caixaDe, sessao, vendaCx, movimento, hoje, dia, previa>>

FecharCaixaGravar(t) ==
  /\ tx[t].op = "fechar"
  /\ sessao' = [sessao EXCEPT ![tx[t].sessao].status = "FECHADO",
                              ![tx[t].sessao].resumo = tx[t].resumo]
  /\ tx' = [tx EXCEPT ![t] = Livre]
  /\ UNCHANGED <<caixaAtivo, caixaDe, vendaCx, movimento, hoje, dia, previa>>

RegistrarMovimentacao(t, s) ==
  /\ PodeTravar(t)
  /\ CaixaLivre(caixaDe[t])
  /\ EmUso(s, t)
  /\ movimento[s] < MaxMovimento
  /\ movimento' = [movimento EXCEPT ![s] = @ + 1]
  /\ UNCHANGED <<caixaAtivo, caixaDe, sessao, vendaCx, tx, hoje, dia, previa>>

\* configurar_terminal locks the row of the terminal only; the register may
\* change while a sale of the terminal is open
ConfigurarTerminal(t, c) ==
  /\ tx[t].op = "livre"
  /\ caixaDe' = [caixaDe EXCEPT ![t] = c]
  /\ UNCHANGED <<caixaAtivo, sessao, vendaCx, movimento, tx, hoje, dia, previa>>

\* the import of the registers of the hub (sincronizar_bootstrap)
ImportarCaixa(c) ==
  /\ CaixaLivre(c)
  /\ caixaAtivo' = [caixaAtivo EXCEPT ![c] = ~@]
  /\ UNCHANGED <<caixaDe, sessao, vendaCx, movimento, tx, hoje, dia, previa>>

-----------------------------------------------------------------------------
(* Sales *)

IniciarVendaLer(t, s) ==
  /\ PodeTravar(t)
  /\ EmUso(s, t)
  /\ \A v \in VendaCx : vendaCx[v].status = "ABERTA" => vendaCx[v].terminal # t
  /\ tx' = [tx EXCEPT ![t] = [op |-> "iniciar", sessao |-> s]]
  /\ UNCHANGED <<caixaAtivo, caixaDe, sessao, vendaCx, movimento, hoje, dia, previa>>

\* the foreign key of the new row waits for whoever holds the session
IniciarVendaGravar(t, v) ==
  /\ tx[t].op = "iniciar"
  /\ SessaoLivre(tx[t].sessao)
  /\ vendaCx[v].status = "NENHUMA"
  /\ vendaCx' = [vendaCx EXCEPT ![v] = [status |-> "ABERTA", terminal |-> t,
                                        sessao |-> tx[t].sessao, dia |-> 0]]
  /\ tx' = [tx EXCEPT ![t] = Livre]
  /\ UNCHANGED <<caixaAtivo, caixaDe, sessao, movimento, hoje, dia, previa>>

CancelarVenda(t, v) ==
  /\ PodeTravar(t)
  /\ vendaCx[v].status = "ABERTA" /\ vendaCx[v].terminal = t
  /\ vendaCx' = [vendaCx EXCEPT ![v].status = "CANCELADA"]
  /\ UNCHANGED <<caixaAtivo, caixaDe, sessao, movimento, tx, hoje, dia, previa>>

\* the session must be the one open now at the register of the terminal
FinalizarVendaLer(t, v) ==
  /\ PodeTravar(t)
  /\ vendaCx[v].status = "ABERTA" /\ vendaCx[v].terminal = t
  /\ EmUso(vendaCx[v].sessao, t)
  /\ SessaoLivre(vendaCx[v].sessao)
  /\ tx' = [tx EXCEPT ![t] = [op |-> "finalizar", venda |-> v]]
  /\ UNCHANGED <<caixaAtivo, caixaDe, sessao, vendaCx, movimento, hoje, dia, previa>>

FinalizarVendaGravar(t) ==
  /\ tx[t].op = "finalizar"
  /\ vendaCx' = [vendaCx EXCEPT ![tx[t].venda].status = "FINALIZADA",
                                ![tx[t].venda].dia = hoje]
  /\ tx' = [tx EXCEPT ![t] = Livre]
  /\ UNCHANGED <<caixaAtivo, caixaDe, sessao, movimento, hoje, dia, previa>>

\* the exception or the crash that rolls the transaction of a terminal back
Desfazer(t) ==
  /\ tx[t].op # "livre"
  /\ tx' = [tx EXCEPT ![t] = Livre]
  /\ UNCHANGED <<caixaAtivo, caixaDe, sessao, vendaCx, movimento, hoje, dia, previa>>

-----------------------------------------------------------------------------
(* Closing of the day: reads one after the other, without a lock.  One call *)
(* at a time: of two, the row's unique key refuses the second.              *)

\* fechamento_existente, then the totals of the sales of the date
FecharDiaVendas(d) ==
  /\ previa = Livre
  /\ dia[d] = NuloCx
  /\ previa' = [op |-> "formas", dia |-> d, vendas |-> FinalizadasNo(d), formas |-> {}]
  /\ UNCHANGED <<caixaAtivo, caixaDe, sessao, vendaCx, movimento, tx, hoje, dia>>

\* _consolidar_formas queries the sales again, with their payments
FecharDiaFormas ==
  /\ previa.op = "formas"
  /\ previa' = [previa EXCEPT !.op = "impedimentos", !.formas = FinalizadasNo(previa.dia)]
  /\ UNCHANGED <<caixaAtivo, caixaDe, sessao, vendaCx, movimento, tx, hoje, dia>>

\* mutant: a sale in progress is an impediment, an open session is not
MutImpedimentos == \E v \in VendaCx : vendaCx[v].status = "ABERTA"
Impedimentos ==
  \/ \E s \in SessaoCx : sessao[s].status = "ABERTO"
  \/ \E v \in VendaCx : vendaCx[v].status = "ABERTA"

\* total of the payments equal to the total of the sales: payments less
\* change are the total of each concluded sale, and no total is zero
Consistente(p) == p.vendas = p.formas

FecharDiaConferir ==
  /\ previa.op = "impedimentos"
  /\ previa' = IF ~Impedimentos /\ Consistente(previa)
               THEN [previa EXCEPT !.op = "gravar"] ELSE Livre
  /\ UNCHANGED <<caixaAtivo, caixaDe, sessao, vendaCx, movimento, tx, hoje, dia>>

\* the foreign keys of the row wait for whoever holds the hub
FecharDiaGravar ==
  /\ previa.op = "gravar"
  /\ \A t \in TerminalCx : tx[t].op = "livre"
  /\ dia' = [dia EXCEPT ![previa.dia] = [vendas |-> previa.vendas, formas |-> previa.formas]]
  /\ previa' = Livre
  /\ UNCHANGED <<caixaAtivo, caixaDe, sessao, vendaCx, movimento, tx, hoje>>

NovoDia ==
  /\ hoje < MaxDia
  /\ hoje' = hoje + 1
  /\ UNCHANGED <<caixaAtivo, caixaDe, sessao, vendaCx, movimento, tx, dia, previa>>

PassoTerminal(t) ==
  \/ \E s \in SessaoCx : AbrirCaixa(t, s) \/ FecharCaixaLer(t, s)
                         \/ RegistrarMovimentacao(t, s) \/ IniciarVendaLer(t, s)
  \/ \E v \in VendaCx : IniciarVendaGravar(t, v) \/ CancelarVenda(t, v) \/ FinalizarVendaLer(t, v)
  \/ FecharCaixaGravar(t) \/ FinalizarVendaGravar(t) \/ Desfazer(t)
  \/ \E c \in (CaixaHub \cup {NuloCx}) \ {caixaDe[t]} : ConfigurarTerminal(t, c)

PassoDia ==
  \/ \E d \in Dia : FecharDiaVendas(d)
  \/ FecharDiaFormas \/ FecharDiaConferir \/ FecharDiaGravar \/ NovoDia

NextCaixa ==
  \/ \E t \in TerminalCx : PassoTerminal(t)
  \/ \E c \in CaixaHub : ImportarCaixa(c)
  \/ PassoDia
SpecCaixa == InitCaixa /\ [][NextCaixa]_varsCaixa

-----------------------------------------------------------------------------
(* Properties *)

\* A sale in progress belongs to a session that is still open, whatever the
\* other terminals of the register do meanwhile: iniciar_venda reads the
\* session without locking it, fechar_caixa looks for sales that other
\* terminals may be about to insert, and a terminal may move to another
\* register (vendas.py iniciar_venda, caixa.py fechar_caixa).
VendaAbertaEmSessaoAberta ==
  \A v \in VendaCx : vendaCx[v].status = "ABERTA" => sessao[vendaCx[v].sessao].status = "ABERTO"

\* The summary stored when a session was closed stays the sum of its concluded
\* sales and of its movements for ever: nothing reaches a session after its
\* closing (caixa.py fechar_caixa, resumo_caixa.py, movimentacoes_caixa.py).
ResumoDefinitivo ==
  \A s \in SessaoCx : sessao[s].status = "FECHADO" =>
    sessao[s].resumo = [vendas |-> Finalizadas(s), movimentos |-> movimento[s]]

\* What the closing of a day counts has been counted at a drawer: each of its
\* sales is in the summary of a session that is closed for good, although the
\* sales are read first and the open sessions are looked for last, without a
\* lock, while terminals sell and close (fechamento_dia.py _montar_previa,
\* _impedimentos; caixa.py fechar_caixa).
DiaDasSessoes ==
  \A d \in Dia : dia[d] # NuloCx =>
    \A v \in dia[d].vendas \cup dia[d].formas :
      LET s == vendaCx[v].sessao IN
        sessao[s].status = "FECHADO" /\ v \in sessao[s].resumo.vendas
=============================================================================
