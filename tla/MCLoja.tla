------------------------------- MODULE MCLoja -------------------------------
(***************************************************************************)
(* The components of the store whose safety is checked, in one run: they    *)
(* share no variable, the initial state chooses one and the others stay     *)
(* still.                                                                   *)
(***************************************************************************)
EXTENDS Caixa, Acesso, Estoque, Reserva, Nfce, Valores, Conferencia, TLC

CONSTANTS a1, a2, b1, b2, c1, c2, \* interchangeable values of every component
          o1, o2, o3, o4, o5, o6, p1, p2, s1, s2

VARIABLE parte

varsLoja == <<parte, varsCaixa, varsAcesso, varsEstoque, varsReserva, varsNfce,
              varsValores, varsConferencia>>

\* Reserva: two sales, the first with all the forms of payment
MCTipoOper == o1 :> "CASHBACK" @@ o2 :> "VALE_TROCA" @@ o3 :> "VALE_TROCA" @@ o4 :> "DINHEIRO"
              @@ o5 :> "CASHBACK" @@ o6 :> "VALE_TROCA"
MCVendaOper == [o \in OperPag |-> IF o \in {o5, o6} THEN p2 ELSE p1]

\* Valores: prices of four decimals and each kind of promotion, one of them with a
\* discount above the price of its product
LinhaTabela(preco, promocao, valor, acumula) ==
  [preco |-> preco, promocao |-> promocao, valor |-> valor, acumula |-> acumula]
MCTabelas ==
  {s1 :> LinhaTabela(333333, "NENHUMA", 0, TRUE) @@ s2 :> LinhaTabela(150, "VALOR_FIXO", 10000, TRUE),
   s1 :> LinhaTabela(66667, "PERCENTUAL", 15, TRUE) @@ s2 :> LinhaTabela(100000, "PRECO_FIXO", 96667, FALSE)}
MCCashback == [percentual |-> 25, limite |-> 90, minimoUso |-> 2, minimoGeracao |-> 1]
MCAliquota == [icms |-> 18, pis |-> 2, cofins |-> 8]

\* Conferencia: two forms of payment in cash and one card
MCTipoForma == o1 :> "DINHEIRO" @@ o2 :> "DINHEIRO" @@ o3 :> "CREDITO"
MCTotalVenda == [v \in VendaCf |-> 2]
MCErros == {-1, 0}

InitLoja ==
  /\ parte \in {"caixa", "acesso", "estoque", "reserva", "nfce", "valores", "conferencia"}
  /\ InitCaixa /\ InitAcesso /\ InitEstoque /\ InitReserva /\ InitNfce
  /\ InitConferencia
  /\ InitValores /\ (parte /= "valores" => tabela = CHOOSE t \in Tabelas : TRUE)

\* bounds of the model: a login is served only in the first activation of the hub,
\* with one operator changed at most and no other request waiting; two are served
\* at once only in the first pairing
Servindo == {q \in LoginAc : login[q] # SemLogin}
ComLogin == Servindo # {} \/ \E s \in SessaoAc : sessaoAc[s].terminal # NuloAc
LoginsJuntos == Servindo = LoginAc \/ \E s \in SessaoAc : feita[s].juntas # {}
LimiteLogin ==
  /\ ComLogin => /\ ativacoes = 1
                 /\ Cardinality({o \in OperadorAc : operadorCentral[o].ativo # operadorAc[o].ativo}) <= 1
  /\ Servindo # {} => pedido = 0 /\ pedidoPar = {}
  /\ LoginsJuntos => credHub = 1 /\ Cardinality({c \in CodigoAc : codigo[c].status # "NENHUM"}) = 1

\* bounds of the model: two conclusions are at work at once only while the command
\* has nothing to do, and a conclusion and the command on one row only while one
\* sale is issued
LimiteNfce ==
  /\ (\A v \in VendaNf : proc[v] # Ocioso) => proc[ComandoNf] = Ocioso /\ lista = {}
  /\ disputada = {} \/ Cardinality(Emitidas) = 1

NextLoja ==
  /\ UNCHANGED parte
  /\ \/ /\ parte = "caixa" /\ NextCaixa
        /\ UNCHANGED <<varsAcesso, varsEstoque, varsReserva, varsNfce, varsValores, varsConferencia>>
     \/ /\ parte = "acesso" /\ NextAcesso /\ LimiteLogin'
        /\ UNCHANGED <<varsCaixa, varsEstoque, varsReserva, varsNfce, varsValores, varsConferencia>>
     \/ /\ parte = "estoque" /\ NextEstoque
        /\ UNCHANGED <<varsCaixa, varsAcesso, varsReserva, varsNfce, varsValores, varsConferencia>>
     \/ /\ parte = "reserva" /\ NextReserva
        /\ UNCHANGED <<varsCaixa, varsAcesso, varsEstoque, varsNfce, varsValores, varsConferencia>>
     \/ /\ parte = "nfce" /\ NextNfce /\ LimiteNfce'
        /\ UNCHANGED <<varsCaixa, varsAcesso, varsEstoque, varsReserva, varsValores, varsConferencia>>
     \/ /\ parte = "valores" /\ NextValores
        /\ UNCHANGED <<varsCaixa, varsAcesso, varsEstoque, varsReserva, varsNfce, varsConferencia>>
     \/ /\ parte = "conferencia" /\ NextConferencia
        /\ UNCHANGED <<varsCaixa, varsAcesso, varsEstoque, varsReserva, varsNfce, varsValores>>

SpecLoja == InitLoja /\ [][NextLoja]_varsLoja

\* a component has at most three sets of interchangeable values, and a value is
\* used in one set of each component: fewer permutations than with sets of its own
SimetriaLoja ==
  Permutations({a1, a2}) \cup Permutations({b1, b2}) \cup Permutations({c1, c2})

\* Every variable of the component that moves has the values of its type.
TypeOKLoja ==
  CASE parte = "caixa" -> TypeOKCaixa
    [] parte = "acesso" -> TypeOKAcesso
    [] parte = "estoque" -> TypeOKEstoque
    [] parte = "reserva" -> TypeOKReserva
    [] parte = "nfce" -> TypeOKNfce
    [] parte = "valores" -> TypeOKValores
    [] parte = "conferencia" -> TypeOKConferencia

============================================================================
