----------------------------- MODULE Conferencia -----------------------------
(***************************************************************************)
(* The amounts of the cash: payments and change of the sales (vendas.py),  *)
(* movements of the drawer (movimentacoes_caixa.py), the amount expected   *)
(* when a session is closed (resumo_caixa.py, caixa.py) and the blocks of  *)
(* the closing of a day, which add up the same sales by their date         *)
(* (fechamento_dia.py).  An operation is one step: how operations of two   *)
(* terminals interleave is Caixa's subject.                                *)
(*                                                                         *)
(* gaveta is the money really in the drawer of a session: it moves with    *)
(* the hands of the operator, not with the rows of the hub.                *)
(***************************************************************************)
EXTENDS Integers, FiniteSets, FiniteSetsExt

CONSTANTS
  SessaoCf,    \* sessions of the only register
  VendaCf,     \* sales
  LinhaForma,  \* forms of payment as the payments copy them
  TipoForma,   \* the type of each
  TotalVenda,  \* total of each sale
  Aberturas,   \* opening amounts, and amounts moved
  Entregas,    \* amounts paid
  Erros,       \* by how much a count may differ from the money counted
  NuloCf,      \* no session
  MaxMovCf,    \* bound: movements of the drawers
  MaxDiaCf     \* bound: days

DINHEIRO == "DINHEIRO"
TipoMov == {"DESPESA", "SANGRIA", "SUPRIMENTO"}
Tipos == {TipoForma[f] : f \in LinhaForma}
DiaCf == 1..MaxDiaCf

ASSUME ConstantesConferencia ==
  /\ NuloCf \notin SessaoCf
  /\ IsFiniteSet(SessaoCf) /\ IsFiniteSet(VendaCf) /\ IsFiniteSet(LinhaForma)
  /\ TotalVenda \in [VendaCf -> Nat \ {0}]
  /\ Aberturas \subseteq Nat /\ Entregas \subseteq Nat \ {0}
  /\ Erros \subseteq Int /\ 0 \in Erros
  /\ MaxMovCf \in Nat /\ MaxDiaCf \in Nat \ {0}

VARIABLES
  sessaoCf,  \* SessaoCaixaHub: status, days, opening, expected, counted, difference
  vendaCf,   \* VendaHub: status, session, change, received, day
  pagosCf,   \* ATIVO amount of each form of payment of each sale
  movCf,     \* MovimentacaoCaixaHub, in the order of ocorrido_em
  diaCf,     \* FechamentoDiaHub and its snapshot, of each date
  hojeCf,    \* the date
  gaveta     \* the money in the drawer, and what was in it when a session was closed

varsConferencia == <<sessaoCf, vendaCf, pagosCf, movCf, diaCf, hojeCf, gaveta>>

SemSessaoCf == [status |-> "NENHUMA", aberto |-> 0, fechado |-> 0, abertura |-> 0,
                esperado |-> 0, contado |-> 0, diferenca |-> 0, situacao |-> ""]
SemVendaCf == [status |-> "NENHUMA", sessao |-> NuloCf, troco |-> 0, recebido |-> 0, dia |-> 0]
DiaAberto == [fechado |-> FALSE]
Situacoes == {"OK", "SOBRA", "FALTA"}

SessaoHub == [status : {"NENHUMA", "ABERTO", "FECHADO"}, aberto : 0..MaxDiaCf,
              fechado : 0..MaxDiaCf, abertura : Aberturas \cup {0}, esperado : Nat,
              contado : Nat, diferenca : Int, situacao : Situacoes \cup {""}]
VendaHub == [status : {"NENHUMA", "ABERTA", "FINALIZADA", "CANCELADA"},
             sessao : SessaoCf \cup {NuloCf}, troco : Nat, recebido : Nat, dia : 0..MaxDiaCf]
Movimentacao == [id : 1..MaxMovCf, sessao : SessaoCf, tipo : TipoMov, valor : Nat \ {0}, dia : DiaCf]

TypeOKConferencia ==
  /\ sessaoCf \in [SessaoCf -> SessaoHub]
  /\ vendaCf \in [VendaCf -> VendaHub]
  /\ pagosCf \in [VendaCf -> [LinhaForma -> Entregas \cup {0}]]
  /\ movCf \subseteq Movimentacao
  /\ DOMAIN diaCf = DiaCf
  /\ hojeCf \in DiaCf
  /\ gaveta \in [SessaoCf -> Nat]

InitConferencia ==
  /\ sessaoCf = [s \in SessaoCf |-> SemSessaoCf]
  /\ vendaCf = [v \in VendaCf |-> SemVendaCf]
  /\ pagosCf = [v \in VendaCf |-> [f \in LinhaForma |-> 0]]
  /\ movCf = {}
  /\ diaCf = [d \in DiaCf |-> DiaAberto]
  /\ hojeCf = 1
  /\ gaveta = [s \in SessaoCf |-> 0]

-----------------------------------------------------------------------------
(* Sums *)

FormasDoTipo(tipo) == {f \in LinhaForma : TipoForma[f] = tipo}
PagoCf(v, F) == SumFunctionOnSet(pagosCf[v], F)
PagoNas(V, F) == SumFunction([v \in V |-> PagoCf(v, F)])
TotalDas(V) == SumFunctionOnSet(TotalVenda, V)
TrocoDas(V) == SumFunction([v \in V |-> vendaCf[v].troco])
Movido(M, tipo) == SumFunction([x \in {y \in M : y.tipo = tipo} |-> x.valor])
SituacaoDe(n) == CASE n = 0 -> "OK" [] n > 0 -> "SOBRA" [] OTHER -> "FALTA"

VendasDa(s) == {v \in VendaCf : vendaCf[v].status = "FINALIZADA" /\ vendaCf[v].sessao = s}
VendasDo(d) == {v \in VendaCf : vendaCf[v].status = "FINALIZADA" /\ vendaCf[v].dia = d}
AbertaNa(v, s) == vendaCf[v].status = "ABERTA" /\ vendaCf[v].sessao = s

-----------------------------------------------------------------------------
(* The session and its drawer *)

\* validar_valor_abertura
Abrivel(valor) == valor >= 0

AbrirCaixaCf(s, valor) ==
  /\ sessaoCf[s].status = "NENHUMA"
  /\ \A x \in SessaoCf : sessaoCf[x].status # "ABERTO"
  /\ Abrivel(valor)
  /\ sessaoCf' = [sessaoCf EXCEPT ![s] = [SemSessaoCf EXCEPT
        !.status = "ABERTO", !.aberto = hojeCf, !.abertura = valor]]
  /\ gaveta' = [gaveta EXCEPT ![s] = valor]
  /\ UNCHANGED <<vendaCf, pagosCf, movCf, diaCf, hojeCf>>

Sinal(tipo) == IF tipo = "SUPRIMENTO" THEN 1 ELSE -1

\* validar_valor_movimentacao
Movimentavel(valor) == valor > 0

\* the hub does not look at the drawer; nobody takes out what is not there
MovimentarCf(s, tipo, valor) ==
  /\ sessaoCf[s].status = "ABERTO"
  /\ Movimentavel(valor)
  /\ Cardinality(movCf) < MaxMovCf
  /\ gaveta[s] + Sinal(tipo) * valor >= 0
  /\ movCf' = movCf \cup {[id |-> Cardinality(movCf) + 1, sessao |-> s, tipo |-> tipo,
                           valor |-> valor, dia |-> hojeCf]}
  /\ gaveta' = [gaveta EXCEPT ![s] = @ + Sinal(tipo) * valor]
  /\ UNCHANGED <<sessaoCf, vendaCf, pagosCf, diaCf, hojeCf>>

-----------------------------------------------------------------------------
(* Sales *)

IniciarVendaCf(v, s) ==
  /\ sessaoCf[s].status = "ABERTO"
  /\ vendaCf[v].status = "NENHUMA"
  /\ vendaCf' = [vendaCf EXCEPT ![v].status = "ABERTA", ![v].sessao = s]
  /\ UNCHANGED <<sessaoCf, pagosCf, movCf, diaCf, hojeCf, gaveta>>

\* only cash may exceed what is pending
Aceita(v, f, valor) ==
  LET pendente == TotalVenda[v] - PagoCf(v, LinhaForma)
  IN pendente > 0 /\ (TipoForma[f] # DINHEIRO => valor <= pendente)

NaGaveta(f, valor) == IF TipoForma[f] = DINHEIRO THEN valor ELSE 0

PagarCf(v, s, f, valor) ==
  /\ AbertaNa(v, s)
  /\ pagosCf[v][f] = 0
  /\ Aceita(v, f, valor)
  /\ pagosCf' = [pagosCf EXCEPT ![v][f] = valor]
  /\ gaveta' = [gaveta EXCEPT ![s] = @ + NaGaveta(f, valor)]
  /\ UNCHANGED <<sessaoCf, vendaCf, movCf, diaCf, hojeCf>>

\* the customer gets the money back, if it is still in the drawer
RemoverPagamentoCf(v, s, f) ==
  /\ AbertaNa(v, s)
  /\ pagosCf[v][f] > 0
  /\ gaveta[s] >= NaGaveta(f, pagosCf[v][f])
  /\ pagosCf' = [pagosCf EXCEPT ![v][f] = 0]
  /\ gaveta' = [gaveta EXCEPT ![s] = @ - NaGaveta(f, pagosCf[v][f])]
  /\ UNCHANGED <<sessaoCf, vendaCf, movCf, diaCf, hojeCf>>

CancelarVendaCf(v) ==
  /\ vendaCf[v].status = "ABERTA"
  /\ PagoCf(v, LinhaForma) = 0
  /\ vendaCf' = [vendaCf EXCEPT ![v].status = "CANCELADA"]
  /\ UNCHANGED <<sessaoCf, pagosCf, movCf, diaCf, hojeCf, gaveta>>

FinalizarVendaCf(v, s) ==
  LET pago == PagoCf(v, LinhaForma)
      troco == pago - TotalVenda[v]
  IN
  /\ AbertaNa(v, s)
  /\ sessaoCf[s].status = "ABERTO"
  /\ troco >= 0 /\ gaveta[s] >= troco
  /\ troco > 0 => PagoCf(v, FormasDoTipo(DINHEIRO)) > 0
  /\ vendaCf' = [vendaCf EXCEPT ![v].status = "FINALIZADA", ![v].troco = troco,
                                ![v].recebido = pago, ![v].dia = hojeCf]
  /\ gaveta' = [gaveta EXCEPT ![s] = @ - troco]
  /\ UNCHANGED <<sessaoCf, pagosCf, movCf, diaCf, hojeCf>>

-----------------------------------------------------------------------------
(* Closing of a session: calcular_resumo_sessao, fechar_caixa *)

\* mutant: the change of the sales is not given back
MutDinheiroLiquido(V) == PagoNas(V, FormasDoTipo(DINHEIRO))
DinheiroLiquido(V) == PagoNas(V, FormasDoTipo(DINHEIRO)) - TrocoDas(V)

Esperado(s) ==
  LET M == {x \in movCf : x.sessao = s}
  IN sessaoCf[s].abertura + DinheiroLiquido(VendasDa(s))
     + Movido(M, "SUPRIMENTO") - Movido(M, "SANGRIA") - Movido(M, "DESPESA")

\* validar_valor_contado
Contavel(valor) == valor >= 0

\* the operator counts what is in the drawer, perhaps wrongly
FecharCaixaCf(s, erro) ==
  LET contado == gaveta[s] + erro
      diferenca == contado - Esperado(s)
  IN
  /\ sessaoCf[s].status = "ABERTO"
  /\ \A v \in VendaCf : ~AbertaNa(v, s)
  /\ Contavel(contado)
  /\ sessaoCf' = [sessaoCf EXCEPT ![s] = [@ EXCEPT
        !.status = "FECHADO", !.fechado = hojeCf, !.esperado = Esperado(s), !.contado = contado,
        !.diferenca = diferenca, !.situacao = SituacaoDe(diferenca)]]
  /\ UNCHANGED <<vendaCf, pagosCf, movCf, diaCf, hojeCf, gaveta>>

-----------------------------------------------------------------------------
(* Closing of a day *)

\* _consolidar_formas: a row of each form, and the change of the day comes off
\* every row of cash
SistemaDo(d, tipo) ==
  SumFunction([f \in {g \in FormasDoTipo(tipo) : PagoNas(VendasDo(d), {g}) > 0} |->
                 PagoNas(VendasDo(d), {f}) - IF tipo = DINHEIRO THEN TrocoDas(VendasDo(d)) ELSE 0])
TiposDo(d) == {TipoForma[f] : f \in {g \in LinhaForma : PagoNas(VendasDo(d), {g}) > 0}}

\* _resumo_caixas: the sessions opened or closed on the date, or open
SessoesDo(d) == {s \in SessaoCf : sessaoCf[s].status # "NENHUMA"
                   /\ (d \in {sessaoCf[s].aberto, sessaoCf[s].fechado} \/ sessaoCf[s].status = "ABERTO")}
CaixasDo(d) == [esperado |-> SumFunction([s \in SessoesDo(d) |-> sessaoCf[s].esperado]),
                contado |-> SumFunction([s \in SessoesDo(d) |-> sessaoCf[s].contado]),
                diferenca |-> SumFunction([s \in SessoesDo(d) |-> sessaoCf[s].diferenca])]

\* _resumo_movimentacoes
MovimentosDo(d) == [t \in TipoMov |-> Movido({x \in movCf : x.dia = d}, t)]

ImpedimentosCf ==
  \/ \E s \in SessaoCf : sessaoCf[s].status = "ABERTO"
  \/ \E v \in VendaCf : vendaCf[v].status = "ABERTA"

\* _validar_conferencias: an amount, not below zero, for every type of the day and
\* no other; the operator counts what the sales left, perhaps wrongly
Deixado(V, tipo) == PagoNas(V, FormasDoTipo(tipo)) - IF tipo = DINHEIRO THEN TrocoDas(V) ELSE 0
Conferencias(d) ==
  {c \in {[t \in TiposDo(d) |-> Deixado(VendasDo(d), t) + e[t]] : e \in [TiposDo(d) -> Erros]} :
     \A t \in TiposDo(d) : c[t] >= 0}

\* mutant: without _validar_consistencia
MutConsistenteCf(d) == TRUE
ConsistenteCf(d) == SumFunction([t \in TiposDo(d) |-> SistemaDo(d, t)]) = TotalDas(VendasDo(d))

\* the divergence is told by type: two errors that cancel out are not OK
FechamentoDe(d, conferido) ==
  LET sistema == [t \in TiposDo(d) |-> SistemaDo(d, t)]
  IN [fechado |-> TRUE, vendas |-> VendasDo(d), sessoes |-> SessoesDo(d),
      sistema |-> sistema, conferido |-> conferido,
      diferenca |-> SumFunctionOnSet(conferido, TiposDo(d)) - TotalDas(VendasDo(d)),
      situacao |-> IF \A t \in TiposDo(d) : SituacaoDe(conferido[t] - sistema[t]) = "OK"
                   THEN "OK" ELSE "DIVERGENTE",
      caixas |-> CaixasDo(d), movimentos |-> MovimentosDo(d)]

FecharDiaCf(d) ==
  /\ ~diaCf[d].fechado
  /\ ~ImpedimentosCf
  /\ ConsistenteCf(d)
  /\ \E c \in Conferencias(d) : diaCf' = [diaCf EXCEPT ![d] = FechamentoDe(d, c)]
  /\ UNCHANGED <<sessaoCf, vendaCf, pagosCf, movCf, hojeCf, gaveta>>

NovoDiaCf ==
  /\ hojeCf < MaxDiaCf
  /\ hojeCf' = hojeCf + 1
  /\ UNCHANGED <<sessaoCf, vendaCf, pagosCf, movCf, diaCf, gaveta>>

NextConferencia ==
  \/ \E s \in SessaoCf :
       \/ \E valor \in Aberturas : AbrirCaixaCf(s, valor)
       \/ \E tipo \in TipoMov, valor \in Aberturas : MovimentarCf(s, tipo, valor)
       \/ \E erro \in Erros : FecharCaixaCf(s, erro)
       \/ \E v \in VendaCf :
            \/ IniciarVendaCf(v, s)
            \/ \E f \in LinhaForma : \/ RemoverPagamentoCf(v, s, f)
                                    \/ \E valor \in Entregas : PagarCf(v, s, f, valor)
            \/ FinalizarVendaCf(v, s)
  \/ \E v \in VendaCf : CancelarVendaCf(v)
  \/ \E d \in DiaCf : FecharDiaCf(d)
  \/ NovoDiaCf
SpecConferencia == InitConferencia /\ [][NextConferencia]_varsConferencia

-----------------------------------------------------------------------------
(* Properties *)

\* What the hub expects in a drawer is what is in it: the difference it records
\* is the error of the count and nothing else, whatever was paid, taken back,
\* changed and moved (resumo_caixa.py:39-130, caixa.py:130-146).
CaixaBate ==
  \A s \in SessaoCf : sessaoCf[s].status = "FECHADO" =>
    LET erro == sessaoCf[s].contado - gaveta[s]
    IN sessaoCf[s].diferenca = erro /\ sessaoCf[s].situacao = SituacaoDe(erro)

\* A day that could be closed records for each type of payment what its sales left
\* in the store, and its three blocks agree: when no session went past midnight,
\* the cash of the sales by date, with the openings and the movements by date, is
\* the sum expected by the sessions (fechamento_dia.py:186-335).
DiaBate ==
  \A d \in DiaCf : diaCf[d].fechado =>
    LET r == diaCf[d]
        dinheiro == IF DINHEIRO \in DOMAIN r.sistema THEN r.sistema[DINHEIRO] ELSE 0
    IN
    /\ \A t \in DOMAIN r.sistema : r.sistema[t] = Deixado(r.vendas, t)
    /\ r.situacao = "OK" <=> \A t \in DOMAIN r.sistema : r.conferido[t] = Deixado(r.vendas, t)
    /\ (\A s \in SessaoCf : sessaoCf[s].status = "FECHADO" => sessaoCf[s].aberto = sessaoCf[s].fechado)
         => dinheiro + SumFunction([s \in r.sessoes |-> sessaoCf[s].abertura]) + r.movimentos["SUPRIMENTO"]
              - r.movimentos["SANGRIA"] - r.movimentos["DESPESA"] = r.caixas.esperado

\* The counts of the cash and of the day tell the truth about the money.
ConferenciaFecha == CaixaBate /\ DiaBate
=============================================================================
