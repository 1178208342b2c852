------------------------------- MODULE Espelho -------------------------------
(***************************************************************************)
(* The mirrors of the Central's registers (integracao/services: clientes,  *)
(* vendedores, operadores, formas_pagamento, tipos_despesa_pdv, catalogo)  *)
(* and the customers a terminal registers (core/services/clientes.py).     *)
(* One import is one transaction that goes through the answer item by item *)
(* and then marks what the answer lacks.  Two families: "cadastro" finds a *)
(* row by the Central's identifier alone, "cliente" also by its document   *)
(* and carries the exchange vouchers of the customer.  One import runs at  *)
(* a time; what else a row copies is data.                                 *)
(***************************************************************************)
EXTENDS Naturals, FiniteSets

CONSTANTS
  LinhaE,     \* rows of a table
  IdE,        \* retaguarda_id
  CodE,       \* codigo of a register, documento of a customer
  SemCod,     \* a customer without document
  ValeE,      \* exchange vouchers of the Central
  NuloE,
  MaxItens    \* bound of the model: items of an answer

ASSUME ConstantesEspelho ==
  /\ NuloE \notin IdE \cup CodE \cup LinhaE
  /\ SemCod \notin CodE
  /\ MaxItens \in Nat

VARIABLES
  familiaE, \* which mirror
  linhaE,   \* committed rows
  valeE,    \* committed ValeTrocaHub
  impE,     \* the import in progress, with the rows it wrote
  aceitaE,  \* the answer of the last import that was committed
  criadosE  \* vouchers made since that import began

varsEspelho == <<familiaE, linhaE, valeE, impE, aceitaE, criadosE>>

Linha == [usada : BOOLEAN, id : IdE \cup {NuloE}, cod : CodE \cup {SemCod}, presente : BOOLEAN]
Vazia == [usada |-> FALSE, id |-> NuloE, cod |-> SemCod, presente |-> FALSE]
Vale == [cliente : IdE \cup {NuloE}, aberto : BOOLEAN]
Item == [id : IdE, cod : CodE \cup {SemCod}, vales : SUBSET ValeE]
NadaEscrito == [x \in {} |-> x]
ImpLivre == [passo |-> "livre", resposta |-> {}, resta |-> {}, item |-> NuloE, alvo |-> NuloE,
             linha |-> NadaEscrito, vale |-> NadaEscrito, novos |-> {}]

TypeOKEspelho ==
  /\ familiaE \in {"cadastro", "cliente"}
  /\ linhaE \in [LinhaE -> Linha] /\ valeE \in [ValeE -> Vale]
  /\ impE.passo \in {"livre", "itens", "gravar"}
  /\ impE.resta \subseteq impE.resposta /\ impE.resposta \subseteq Item
  /\ impE.alvo \in LinhaE \cup {NuloE} /\ impE.novos \subseteq ValeE
  /\ \A r \in DOMAIN impE.linha : r \in LinhaE /\ impE.linha[r] \in Linha
  /\ \A v \in DOMAIN impE.vale : v \in ValeE /\ impE.vale[v] \in Vale
  /\ aceitaE \subseteq Item /\ criadosE \subseteq ValeE

InitEspelho ==
  /\ familiaE \in {"cadastro", "cliente"}
  /\ linhaE = [r \in LinhaE |-> Vazia]
  /\ valeE = [v \in ValeE |-> [cliente |-> NuloE, aberto |-> FALSE]]
  /\ impE = ImpLivre /\ aceitaE = {} /\ criadosE = {}

-----------------------------------------------------------------------------
(* The answer *)

\* an answer of this store, with fields of the right form; the Central gives a
\* voucher to one customer
DaLoja(R) ==
  /\ \A x \in R : familiaE = "cadastro" => x.cod # SemCod /\ x.vales = {}
  /\ \A x, y \in R : x # y => x.vales \cap y.vales = {}

\* mutant: a repeated identifier goes through
MutRespostaValida(R) ==
  DaLoja(R) /\ \A x, y \in R : x # y => x.cod = SemCod \/ x.cod # y.cod
RespostaValida(R) ==
  /\ DaLoja(R)
  /\ \A x, y \in R : x # y => x.id # y.id /\ (x.cod = SemCod \/ x.cod # y.cod)

IdsDe(R) == {x.id : x \in R}

-----------------------------------------------------------------------------
(* What the transaction of the import sees: its own writes over the          *)
(* committed rows.                                                           *)

LinhaVista(r) == IF r \in DOMAIN impE.linha THEN impE.linha[r] ELSE linhaE[r]
ValeVisto(v) == IF v \in DOMAIN impE.vale THEN impE.vale[v] ELSE valeE[v]
Usadas == {r \in LinhaE : LinhaVista(r).usada}

ComId(i) == {r \in Usadas : LinhaVista(r).id = i}
ComCodigo(c) == {r \in Usadas : c # SemCod /\ LinhaVista(r).cod = c}

\* the rows the item may be: by identifier, else a customer by document
Achadas(x) == IF ComId(x.id) # {} \/ familiaE = "cadastro" THEN ComId(x.id) ELSE ComCodigo(x.cod)

\* the unique keys of the table, (hub, retaguarda_id) and (hub, codigo) or
\* (hub, documento)
ChaveLivre(r, x) == (ComId(x.id) \cup ComCodigo(x.cod)) \subseteq {r}

Sobre(f, g) == [k \in DOMAIN f \cup DOMAIN g |-> IF k \in DOMAIN g THEN g[k] ELSE f[k]]

ReceberResposta(R) ==
  /\ impE = ImpLivre
  /\ RespostaValida(R)
  /\ impE' = [ImpLivre EXCEPT !.passo = "itens", !.resposta = R, !.resta = R]
  /\ UNCHANGED <<familiaE, linhaE, valeE, aceitaE, criadosE>>

LerItem(x) ==
  /\ impE.passo = "itens" /\ x \in impE.resta
  /\ \E a \in IF Achadas(x) = {} THEN {NuloE} ELSE Achadas(x) :
       impE' = [impE EXCEPT !.passo = "gravar", !.item = x, !.alvo = a]
  /\ UNCHANGED <<familiaE, linhaE, valeE, aceitaE, criadosE>>

\* _sincronizar_vales_cliente: vouchers of the customer that the answer lacks
\* are cancelled
\* mutant: only the vouchers of the answer are written
MutValesDoItem(x) == [v \in x.vales |-> [cliente |-> x.id, aberto |-> TRUE]]
ValesDoItem(x) ==
  [v \in x.vales \cup {w \in ValeE : ValeVisto(w).aberto /\ ValeVisto(w).cliente = x.id}
     |-> [cliente |-> x.id, aberto |-> v \in x.vales]]

\* the row found when the item was read, or a new one; a duplicate key is an
\* error that undoes the import (Desfazer)
GravarItem(r) ==
  LET x == impE.item IN
  /\ impE.passo = "gravar"
  /\ IF impE.alvo = NuloE THEN r \notin Usadas ELSE r = impE.alvo
  /\ ChaveLivre(r, x)
  /\ impE' = [impE EXCEPT
       !.passo = "itens", !.resta = @ \ {x}, !.item = NuloE, !.alvo = NuloE,
       !.linha = Sobre(@, [k \in {r} |-> [usada |-> TRUE, id |-> x.id, cod |-> x.cod, presente |-> TRUE]]),
       !.vale = Sobre(@, ValesDoItem(x))]
  /\ UNCHANGED <<familiaE, linhaE, valeE, aceitaE, criadosE>>

\* an exception, a lost database or the end of the process: the transaction is undone
\* mutant: what was written stays
MutDesfazer ==
  /\ impE # ImpLivre
  /\ linhaE' = [r \in LinhaE |-> LinhaVista(r)]
  /\ impE' = ImpLivre
  /\ UNCHANGED <<familiaE, valeE, aceitaE, criadosE>>
Desfazer ==
  /\ impE # ImpLivre
  /\ impE' = ImpLivre
  /\ UNCHANGED <<familiaE, linhaE, valeE, aceitaE, criadosE>>

\* rows the answer lacks: presente_retaguarda or ativo becomes false; a customer
\* without identifier is left alone
ComAusentes(R) ==
  [r \in LinhaE |-> IF LinhaVista(r).id \in IdE \ IdsDe(R)
                    THEN [LinhaVista(r) EXCEPT !.presente = FALSE] ELSE LinhaVista(r)]

Confirmar ==
  /\ impE.passo = "itens" /\ impE.resta = {}
  /\ linhaE' = ComAusentes(impE.resposta)
  /\ valeE' = [v \in ValeE |-> ValeVisto(v)]
  /\ aceitaE' = impE.resposta
  /\ criadosE' = impE.novos
  /\ impE' = ImpLivre
  /\ UNCHANGED familiaE

-----------------------------------------------------------------------------
(* Between the steps of an import *)

\* cadastrar_cliente_local: a document the import wrote is locked until its end
CadastrarClienteLocal(r, c) ==
  /\ familiaE = "cliente"
  /\ r \notin Usadas /\ ComCodigo(c) = {}
  /\ \A k \in LinhaE : linhaE[k].cod # c
  /\ linhaE' = [linhaE EXCEPT ![r] = [Vazia EXCEPT !.usada = TRUE, !.cod = c]]
  /\ UNCHANGED <<familiaE, valeE, impE, aceitaE, criadosE>>

\* a return made at the Central brings its voucher (devolucoes.py)
ValeDeDevolucao(v, i) ==
  /\ familiaE = "cliente"
  /\ valeE[v].cliente = NuloE /\ v \notin DOMAIN impE.vale
  /\ valeE' = [valeE EXCEPT ![v] = [cliente |-> i, aberto |-> TRUE]]
  /\ criadosE' = criadosE \cup {v}
  /\ impE' = IF impE = ImpLivre THEN impE ELSE [impE EXCEPT !.novos = @ \cup {v}]
  /\ UNCHANGED <<familiaE, linhaE, aceitaE>>

Respostas == {R \in SUBSET Item : Cardinality(R) <= MaxItens}

NextEspelho ==
  \/ \E R \in Respostas : ReceberResposta(R)
  \/ \E x \in impE.resta : LerItem(x)
  \/ \E r \in LinhaE : GravarItem(r)
  \/ Desfazer \/ Confirmar
  \/ \E r \in LinhaE, c \in CodE : CadastrarClienteLocal(r, c)
  \/ \E v \in ValeE, i \in IdE : ValeDeDevolucao(v, i)
SpecEspelho == InitEspelho /\ [][NextEspelho]_varsEspelho

-----------------------------------------------------------------------------
(* Properties *)

\* The rows a sale may use are those of one answer, the last that was accepted
\* whole: no row of an import that failed half-way, none the Central dropped,
\* whatever customers the terminals register meanwhile.
CadastroInteiro ==
  {<<linhaE[r].id, linhaE[r].cod>> : r \in {k \in LinhaE : linhaE[k].presente}}
    = {<<x.id, x.cod>> : x \in aceitaE}

\* The open vouchers of a customer are those of that answer and those of
\* returns made since its import began.
ValesDaCentral ==
  \A x \in aceitaE :
    LET abertos == {v \in ValeE : valeE[v].aberto /\ valeE[v].cliente = x.id} IN
    x.vales \subseteq abertos /\ abertos \subseteq x.vales \cup criadosE

\* The mirror is one whole answer of the Central (clientes.py
\* sincronizar_clientes, formas_pagamento.py sincronizar_formas_pagamento and
\* their like).
EspelhoInteiro == CadastroInteiro /\ ValesDaCentral
=============================================================================
