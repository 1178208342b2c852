------------------------------- MODULE Retrato -------------------------------
(***************************************************************************)
(* The copy of a form of payment, its instalments and its rates that a     *)
(* payment keeps (vendas.py adicionar_pagamento), taken while the import   *)
(* of the forms rewrites the same tables (formas_pagamento.py).            *)
(*                                                                         *)
(* Both are transactions of several steps.  The payment holds the row of   *)
(* the hub from its start and locks the form, the term and the condition   *)
(* one after the other; the import locks what it writes, terms before      *)
(* forms, and writes the row of the hub last.  They can wait for each      *)
(* other; the database then rolls one back, as after any error: Desfazer.  *)
(***************************************************************************)
EXTENDS Naturals, FiniteSets

CONSTANTS
  FormaR,      \* FormaPagamentoHub
  PrazoR,      \* PrazoPagamentoHub
  SemPrazo,    \* a payment in one instalment
  OperR,       \* operacao_uuid of the payments
  Cadastros,   \* answers of the Central
  MaxImportR   \* bound: imports

\* a condition belongs to a form and a term of the same answer
ASSUME ConstantesRetrato ==
  /\ SemPrazo \notin PrazoR /\ MaxImportR \in Nat
  /\ \A c \in Cadastros :
       /\ c \in [formas : SUBSET FormaR, parceladas : SUBSET FormaR, prazos : SUBSET PrazoR,
                 condicoes : SUBSET (FormaR \X PrazoR)]
       /\ c.parceladas \subseteq c.formas
       /\ c.condicoes \subseteq c.formas \X c.prazos

Forma(f) == <<"forma", f>>
ParcelasForma(f) == <<"parcelas da forma", f>>
Prazo(p) == <<"prazo", p>>
ParcelasPrazo(p) == <<"parcelas do prazo", p>>
Condicao(f, p) == <<"condicao", f, p>>
DaForma(f) == {Forma(f), ParcelasForma(f)}
DoPrazo(p) == {Prazo(p), ParcelasPrazo(p)}
FormasR == {Forma(f) : f \in FormaR}
PrazosR == {Prazo(p) : p \in PrazoR}
CondicoesR == {Condicao(f, p) : f \in FormaR, p \in PrazoR}
LinhasR == (UNION {DaForma(f) : f \in FormaR}) \cup (UNION {DoPrazo(p) : p \in PrazoR})
           \cup CondicoesR

VARIABLES
  versaoR, \* HubConfig.formas_pagamento_gerado_em: the last import that was committed
  linhaR,  \* committed rows: the import that wrote each, active, form by instalments
  impR,    \* the import in progress: its step, its answer and what it wrote
  telaR,   \* what the last listing offered to the terminal
  txR,     \* the payment in progress: its step, what it asks, what it copied
  pagoR    \* VendaPagamentoHub: the versions of its copy

varsRetrato == <<versaoR, linhaR, impR, telaR, txR, pagoR>>

LinhaR == [versao : 0..MaxImportR, ativo : BOOLEAN, parcelado : BOOLEAN]
SemLinha == [versao |-> 0, ativo |-> FALSE, parcelado |-> FALSE]
ParadoR == [passo |-> "livre"]
NadaCopiado == [r \in {} |-> 0]
SemTela == [formas |-> {}, pares |-> {}, lendo |-> FALSE]

TypeOKRetrato ==
  /\ versaoR \in 0..MaxImportR
  /\ linhaR \in [LinhasR -> LinhaR]
  /\ impR = ParadoR \/
     /\ impR.passo \in {"prazos", "formas", "condicoes ausentes", "prazos ausentes",
                        "formas ausentes", "hub"}
     /\ impR.cadastro \in Cadastros
     /\ \A r \in DOMAIN impR.escrito : r \in LinhasR /\ impR.escrito[r] \in LinhaR
  /\ telaR.formas \subseteq FormaR /\ telaR.pares \subseteq FormaR \X PrazoR
  /\ txR = ParadoR \/
     /\ txR.passo \in {"forma", "parcelas", "prazo", "parcelas do prazo", "condicao", "gravar"}
     /\ txR.oper \in OperR /\ txR.forma \in FormaR /\ txR.prazo \in PrazoR \cup {SemPrazo}
     /\ DOMAIN txR.copia \subseteq LinhasR
  /\ \A o \in OperR : pagoR[o] = ParadoR \/ DOMAIN pagoR[o].copia \subseteq LinhasR

InitRetrato ==
  /\ versaoR = 0
  /\ linhaR = [r \in LinhasR |-> SemLinha]
  /\ impR = ParadoR /\ telaR = SemTela /\ txR = ParadoR
  /\ pagoR = [o \in OperR |-> ParadoR]

-----------------------------------------------------------------------------
(* Locks.  The payment holds the rows it copied for update; instalments are  *)
(* read without a lock.  The import holds the rows it wrote.                 *)

Bloqueaveis == FormasR \cup PrazosR \cup CondicoesR
DoPagamento == IF txR = ParadoR THEN {} ELSE DOMAIN txR.copia \cap Bloqueaveis
DaImportacao == IF impR = ParadoR THEN {} ELSE DOMAIN impR.escrito
HubLivre == txR = ParadoR

\* a row that did not exist references the row of the hub, which is then shared
Novas(L) == {r \in L \cap Bloqueaveis : linhaR[r].versao = 0}

-----------------------------------------------------------------------------
(* The import: sincronizar_formas_pagamento.                                 *)

SobreR(e, novas) == [r \in DOMAIN e \cup DOMAIN novas |-> IF r \in DOMAIN novas THEN novas[r] ELSE e[r]]
VistaR(r) == IF r \in DaImportacao THEN impR.escrito[r] ELSE linhaR[r]

\* what the other connections read after a step that wrote e
\* mutant: without the transaction
MutVisivel(e) == [r \in LinhasR |-> IF r \in DOMAIN e THEN e[r] ELSE linhaR[r]]
Visivel(e) == linhaR

Escrever(linhas) ==
  LET e == SobreR(impR.escrito, linhas)
      L == DOMAIN linhas
  IN /\ L \cap DoPagamento = {}
     /\ Novas(L) # {} => HubLivre
     /\ impR' = [impR EXCEPT !.escrito = e]
     /\ linhaR' = Visivel(e)
     /\ UNCHANGED <<versaoR, telaR, txR, pagoR>>

Presente(c, r) ==
  [versao |-> versaoR + 1, ativo |-> TRUE,
   parcelado |-> \E f \in c.parceladas : r = Forma(f)]

IniciarImportR(c) ==
  /\ impR = ParadoR
  /\ versaoR < MaxImportR
  /\ impR' = [passo |-> "prazos", cadastro |-> c, escrito |-> NadaCopiado]
  /\ UNCHANGED <<versaoR, linhaR, telaR, txR, pagoR>>

\* a term with its instalments
ImportarPrazo(p) ==
  LET c == impR.cadastro IN
  /\ impR.passo = "prazos"
  /\ p \in c.prazos /\ Prazo(p) \notin DaImportacao
  /\ Escrever([r \in DoPrazo(p) |-> Presente(c, r)])

\* a form with its instalments and its conditions
ImportarForma(f) ==
  LET c == impR.cadastro
      condicoes == {Condicao(f, p) : p \in {q \in PrazoR : <<f, q>> \in c.condicoes}}
  IN
  /\ impR.passo = "formas"
  /\ f \in c.formas /\ Forma(f) \notin DaImportacao
  /\ Escrever([r \in DaForma(f) \cup condicoes |-> Presente(c, r)])

\* the active rows that the answer lacks
Ausentes(L) == {r \in L : VistaR(r).ativo /\ r \notin DaImportacao}

AusentesDoPasso ==
  CASE impR.passo = "condicoes ausentes" -> Ausentes(CondicoesR)
    [] impR.passo = "prazos ausentes" -> Ausentes(PrazosR)
    [] impR.passo = "formas ausentes" -> Ausentes(FormasR)
    [] OTHER -> {}

InativarAusentes ==
  /\ impR # ParadoR /\ AusentesDoPasso # {}
  /\ Escrever([r \in AusentesDoPasso |-> [VistaR(r) EXCEPT !.ativo = FALSE]])

SeguinteR == [p \in {"prazos", "formas", "condicoes ausentes", "prazos ausentes", "formas ausentes"} |->
  CASE p = "prazos" -> "formas" [] p = "formas" -> "condicoes ausentes"
    [] p = "condicoes ausentes" -> "prazos ausentes"
    [] p = "prazos ausentes" -> "formas ausentes" [] OTHER -> "hub"]

Escritos(nome, S) == \A x \in S : <<nome, x>> \in DaImportacao

SeguirImport ==
  /\ impR.passo \in DOMAIN SeguinteR
  /\ impR.passo = "prazos" => Escritos("prazo", impR.cadastro.prazos)
  /\ impR.passo = "formas" => Escritos("forma", impR.cadastro.formas)
  /\ AusentesDoPasso = {}
  /\ impR' = [impR EXCEPT !.passo = SeguinteR[@]]
  /\ UNCHANGED <<versaoR, linhaR, telaR, txR, pagoR>>

\* hub.save waits for whoever holds the hub; then everything is visible at once
ConfirmarImport ==
  /\ impR.passo = "hub"
  /\ HubLivre
  /\ versaoR' = versaoR + 1
  /\ linhaR' = [r \in LinhasR |-> VistaR(r)]
  /\ impR' = ParadoR
  /\ UNCHANGED <<telaR, txR, pagoR>>

DesfazerImport ==
  /\ impR # ParadoR
  /\ impR' = ParadoR
  /\ UNCHANGED <<versaoR, linhaR, telaR, txR, pagoR>>

-----------------------------------------------------------------------------
(* The terminal: listar_formas_pagamento, adicionar_pagamento                *)

AtivoR(r) == linhaR[r].ativo

\* queries of their own: the forms, then their conditions with the terms
ListarFormas ==
  /\ telaR' = [formas |-> {f \in FormaR : AtivoR(Forma(f))}, pares |-> {}, lendo |-> TRUE]
  /\ UNCHANGED <<versaoR, linhaR, impR, txR, pagoR>>

ListarCondicoes ==
  /\ telaR.lendo
  /\ telaR' = [telaR EXCEPT !.lendo = FALSE,
       !.pares = {x \in telaR.formas \X PrazoR : AtivoR(Condicao(x[1], x[2]))}]
  /\ UNCHANGED <<versaoR, linhaR, impR, txR, pagoR>>

Oferecido(f, p) ==
  /\ ~telaR.lendo
  /\ IF p = SemPrazo THEN f \in telaR.formas ELSE <<f, p>> \in telaR.pares

\* an operation that was already registered is answered with its payment
PedirPagamento(o, f, p) ==
  /\ HubLivre /\ Novas(DaImportacao) = {}
  /\ pagoR[o] = ParadoR
  /\ Oferecido(f, p)
  /\ txR' = [passo |-> "forma", oper |-> o, forma |-> f, prazo |-> p, copia |-> NadaCopiado]
  /\ UNCHANGED <<versaoR, linhaR, impR, telaR, pagoR>>

\* copies row r, if it is active, and goes on to a step
Copiar(r, seguinte) ==
  /\ AtivoR(r)
  /\ txR' = [txR EXCEPT !.passo = seguinte, !.copia = SobreR(@, [x \in {r} |-> linhaR[x].versao])]
  /\ UNCHANGED <<versaoR, linhaR, impR, telaR, pagoR>>

\* FOR UPDATE reads the row when nobody else holds it
CopiarTravada(r, seguinte) == r \notin DaImportacao /\ Copiar(r, seguinte)

LerForma == txR.passo = "forma" /\ CopiarTravada(Forma(txR.forma), "parcelas")

\* the term that was asked is left aside when the form is not by instalments
LerParcelasR ==
  LET f == txR.forma IN
  /\ txR.passo = "parcelas"
  /\ linhaR[Forma(f)].parcelado => txR.prazo # SemPrazo
  /\ Copiar(ParcelasForma(f), IF linhaR[Forma(f)].parcelado THEN "prazo" ELSE "gravar")

LerPrazo == txR.passo = "prazo" /\ CopiarTravada(Prazo(txR.prazo), "parcelas do prazo")
LerParcelasDoPrazo == txR.passo = "parcelas do prazo" /\ Copiar(ParcelasPrazo(txR.prazo), "condicao")
LerCondicaoR ==
  txR.passo = "condicao" /\ CopiarTravada(Condicao(txR.forma, txR.prazo), "gravar")

\* the row of the payment and those of its instalments
GravarPagamentoR ==
  /\ txR.passo = "gravar"
  /\ pagoR' = [pagoR EXCEPT ![txR.oper] =
       [passo |-> "pago", forma |-> txR.forma, prazo |-> txR.prazo, copia |-> txR.copia]]
  /\ txR' = ParadoR
  /\ UNCHANGED <<versaoR, linhaR, impR, telaR>>

\* an invalid form, term or condition, an amount refused, a victim of the database
DesfazerPagamentoR ==
  /\ txR # ParadoR
  /\ txR' = ParadoR
  /\ UNCHANGED <<versaoR, linhaR, impR, telaR, pagoR>>

NextRetrato ==
  \/ \E c \in Cadastros : IniciarImportR(c)
  \/ \E p \in PrazoR : ImportarPrazo(p)
  \/ \E f \in FormaR : ImportarForma(f)
  \/ InativarAusentes \/ SeguirImport \/ ConfirmarImport \/ DesfazerImport
  \/ ListarFormas \/ ListarCondicoes
  \/ \E o \in OperR, f \in FormaR, p \in PrazoR \cup {SemPrazo} : PedirPagamento(o, f, p)
  \/ LerForma \/ LerParcelasR \/ LerPrazo \/ LerParcelasDoPrazo \/ LerCondicaoR
  \/ GravarPagamentoR \/ DesfazerPagamentoR
SpecRetrato == InitRetrato /\ [][NextRetrato]_varsRetrato

-----------------------------------------------------------------------------
(* Properties *)

\* A payment is recorded with one version of the register, the one in force when
\* it is recorded: form, instalments, term and rate are never of different imports,
\* nor of one that a later import had replaced, although the terminal chose from an
\* older listing and the two transactions read and write the same rows step by
\* step (vendas.py:549-636, formas_pagamento.py:34-182).
RetratoVigente ==
  [][\A o \in OperR : pagoR'[o] # pagoR[o] =>
       \A r \in DOMAIN pagoR'[o].copia : pagoR'[o].copia[r] = versaoR]_varsRetrato
=============================================================================
