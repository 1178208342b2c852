----------------------------- MODULE Atendimento -----------------------------
(***************************************************************************)
(* The customer and the seller of a sale (vendas.py): chosen before the    *)
(* sale exists they wait in the context of the terminal, which the start   *)
(* of the sale consumes; chosen later they go to the sale.  Every          *)
(* operation holds the lock of the hub and of the rows it reads, so it is  *)
(* one step; an import changes who may be chosen between two of them.      *)
(***************************************************************************)
EXTENDS Naturals, FiniteSets

CONSTANTS
  TerminalAt,  \* terminals of one cash register
  ClienteAt, VendedorAt,
  PagamentoAt, \* payments a sale may have
  NuloAt       \* nobody, no payment

ASSUME ConstantesAtendimento == NuloAt \notin ClienteAt \cup VendedorAt

VARIABLES
  caixaAberto,  \* the session of the register is open
  selecionavel, \* the customers and sellers that may be chosen
  contexto,     \* ContextoVendaTerminalHub
  vendaAt       \* the open VendaHub of each terminal, with its active payments

varsAtendimento == <<caixaAberto, selecionavel, contexto, vendaAt>>

SemContexto == [cliente |-> NuloAt, vendedor |-> NuloAt]
Contexto == [cliente : ClienteAt \cup {NuloAt}, vendedor : VendedorAt \cup {NuloAt}]
SemPagamento == [p \in PagamentoAt |-> NuloAt]
SemVenda == [aberta |-> FALSE, quem |-> SemContexto, pago |-> SemPagamento]

TypeOKAtendimento ==
  /\ caixaAberto \in BOOLEAN
  /\ selecionavel \subseteq ClienteAt \cup VendedorAt
  /\ contexto \in [TerminalAt -> Contexto]
  /\ vendaAt \in [TerminalAt -> [aberta : BOOLEAN, quem : Contexto,
                                 pago : [PagamentoAt -> Contexto \cup {NuloAt}]]]

InitAtendimento ==
  /\ caixaAberto = FALSE
  /\ selecionavel = ClienteAt \cup VendedorAt
  /\ contexto = [t \in TerminalAt |-> SemContexto]
  /\ vendaAt = [t \in TerminalAt |-> SemVenda]

Pagos(t) == {p \in PagamentoAt : vendaAt[t].pago[p] # NuloAt}

\* validar_venda_sem_pagamento_ativo
\* mutant: a sale with a payment may change its customer and its seller
MutSemPagamentoAtivo(t) == TRUE
SemPagamentoAtivo(t) == Pagos(t) = {}

\* an import (Espelho) or a registration changes who may be chosen
MudarSelecionavel(x) ==
  /\ selecionavel' = IF x \in selecionavel THEN selecionavel \ {x} ELSE selecionavel \cup {x}
  /\ UNCHANGED <<caixaAberto, contexto, vendaAt>>

AbrirCaixaAt ==
  /\ ~caixaAberto
  /\ caixaAberto' = TRUE
  /\ UNCHANGED <<selecionavel, contexto, vendaAt>>

\* fechar_caixa: the context of the terminal that closes is deleted
FecharCaixaAt(t) ==
  /\ caixaAberto
  /\ \A k \in TerminalAt : ~vendaAt[k].aberta
  /\ caixaAberto' = FALSE
  /\ contexto' = [contexto EXCEPT ![t] = SemContexto]
  /\ UNCHANGED <<selecionavel, vendaAt>>

\* aplicar_snapshot_*, limpar_snapshot_*
ComCliente(q, c) == [q EXCEPT !.cliente = c]
\* mutant: the seller is written over the customer
MutComVendedor(q, v) == [q EXCEPT !.cliente = v]
ComVendedor(q, v) == [q EXCEPT !.vendedor = v]

\* the open sale of the terminal changes or, without one, its context
QuemNo(t) == IF vendaAt[t].aberta THEN vendaAt[t].quem ELSE contexto[t]

Anotar(t, q) ==
  /\ IF vendaAt[t].aberta
     THEN vendaAt' = [vendaAt EXCEPT ![t].quem = q] /\ UNCHANGED contexto
     ELSE contexto' = [contexto EXCEPT ![t] = q] /\ UNCHANGED vendaAt
  /\ UNCHANGED <<caixaAberto, selecionavel>>

SelecionarCliente(t, c) ==
  /\ caixaAberto /\ c \in selecionavel
  /\ SemPagamentoAtivo(t)
  /\ Anotar(t, ComCliente(QuemNo(t), c))

SelecionarVendedor(t, v) ==
  /\ caixaAberto /\ v \in selecionavel
  /\ SemPagamentoAtivo(t)
  /\ Anotar(t, ComVendedor(QuemNo(t), v))

RemoverCliente(t) ==
  /\ caixaAberto
  /\ SemPagamentoAtivo(t)
  /\ Anotar(t, ComCliente(QuemNo(t), NuloAt))

RemoverVendedor(t) ==
  /\ caixaAberto
  /\ SemPagamentoAtivo(t)
  /\ Anotar(t, ComVendedor(QuemNo(t), NuloAt))

\* iniciar_venda: fails, and nothing changes, when who waits may not be chosen
\* any more
IniciarVendaAt(t) ==
  /\ caixaAberto /\ ~vendaAt[t].aberta
  /\ {contexto[t].cliente, contexto[t].vendedor} \ {NuloAt} \subseteq selecionavel
  /\ vendaAt' = [vendaAt EXCEPT ![t] = [SemVenda EXCEPT !.aberta = TRUE, !.quem = contexto[t]]]
  /\ contexto' = [contexto EXCEPT ![t] = SemContexto]
  /\ UNCHANGED <<caixaAberto, selecionavel>>

\* adicionar_pagamento; a benefit is of the customer, a commission of the seller
PagarAt(t, p) ==
  /\ caixaAberto /\ vendaAt[t].aberta
  /\ vendaAt[t].pago[p] = NuloAt
  /\ vendaAt[t].quem.vendedor # NuloAt
  /\ vendaAt' = [vendaAt EXCEPT ![t].pago[p] = vendaAt[t].quem]
  /\ UNCHANGED <<caixaAberto, selecionavel, contexto>>

RemoverPagamentoAt(t, p) ==
  /\ caixaAberto /\ vendaAt[t].aberta
  /\ vendaAt[t].pago[p] # NuloAt
  /\ vendaAt' = [vendaAt EXCEPT ![t].pago[p] = NuloAt]
  /\ UNCHANGED <<caixaAberto, selecionavel, contexto>>

\* finalizar_venda; what is paid covers the total
FinalizarVendaAt(t) ==
  /\ caixaAberto /\ vendaAt[t].aberta
  /\ vendaAt[t].quem.vendedor # NuloAt /\ Pagos(t) # {}
  /\ vendaAt' = [vendaAt EXCEPT ![t] = SemVenda]
  /\ UNCHANGED <<caixaAberto, selecionavel, contexto>>

CancelarVendaAt(t) ==
  /\ vendaAt[t].aberta /\ SemPagamentoAtivo(t)
  /\ vendaAt' = [vendaAt EXCEPT ![t] = SemVenda]
  /\ UNCHANGED <<caixaAberto, selecionavel, contexto>>

NextAtendimento ==
  \/ \E x \in ClienteAt \cup VendedorAt : MudarSelecionavel(x)
  \/ AbrirCaixaAt
  \/ \E t \in TerminalAt :
       \/ FecharCaixaAt(t) \/ IniciarVendaAt(t) \/ FinalizarVendaAt(t) \/ CancelarVendaAt(t)
       \/ RemoverCliente(t) \/ RemoverVendedor(t)
       \/ \E c \in ClienteAt : SelecionarCliente(t, c)
       \/ \E v \in VendedorAt : SelecionarVendedor(t, v)
       \/ \E p \in PagamentoAt : PagarAt(t, p) \/ RemoverPagamentoAt(t, p)
SpecAtendimento == InitAtendimento /\ [][NextAtendimento]_varsAtendimento

-----------------------------------------------------------------------------
(* Properties *)

\* Every active payment was made for the customer and the seller the sale has
\* now: no benefit of one customer pays the sale of another (vendas.py
\* validar_venda_sem_pagamento_ativo in selecionar_* and remover_*).
PagamentoDoCliente ==
  \A t \in TerminalAt : \A p \in Pagos(t) : vendaAt[t].pago[p] = vendaAt[t].quem
=============================================================================
