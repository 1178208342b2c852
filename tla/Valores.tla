------------------------------ MODULE Valores ------------------------------
(***************************************************************************)
(* The amounts of one sale, from the price of its items to its returns:    *)
(* promotions (beneficios.py), payments, change and cashback (vendas.py,   *)
(* cashback_online.py), the amounts of its NFC-e (nfce.py) and the credit  *)
(* of its returns (devolucoes.py), which depends on all the earlier ones   *)
(* and on what the Central confirmed for them (sync.py).                   *)
(* Money is in cents, prices and values of promotions in 1/10000.          *)
(***************************************************************************)
EXTENDS Integers, FiniteSets, SequencesExt

CONSTANTS
  Sku,         \* products
  Tabelas,     \* price lists: price and applicable promotion of each product
  MaxUnidades, \* bound: units in the sale
  MaxPagos,    \* bound: active payments
  Quantias,    \* bound: amounts paid besides the total, what they leave of it and one
               \* cent more than each of these two
  SaldoVale,   \* balance of the provisional credit of the customer
  Cashback,    \* CashbackConfigHub: percentual, limite, minimoUso, minimoGeracao
  Aliquota,    \* percentages of ICMS, PIS and COFINS
  MaxCorrecao  \* bound: cents by which the Central corrects the credits of the sale

Promocoes == {"NENHUMA", "PERCENTUAL", "VALOR_FIXO", "PRECO_FIXO"}

ASSUME ConstantesValores ==
  /\ IsFiniteSet(Sku) /\ Quantias \subseteq Nat
  /\ Cashback \in [percentual : Nat, limite : Nat, minimoUso : Nat, minimoGeracao : Nat]
  /\ MaxUnidades \in Nat /\ MaxPagos \in Nat /\ SaldoVale \in Nat /\ MaxCorrecao \in Nat
  /\ \A t \in Tabelas : t \in [Sku -> [preco : Nat, promocao : Promocoes, valor : Nat,
                                      acumula : BOOLEAN]]

VARIABLES
  tabela,   \* the catalogue and its promotions
  itens,    \* VendaItemHub: units (0 without the item), discount, value
  pagos,    \* the bag of ATIVO rows of VendaPagamentoHub: form and value
  fim,      \* VendaHub at its conclusion: status, troco, cashback generated
  devolucoes \* VendaDevolucaoHub: units, value, credit foreseen, credit, confirmed

varsValores == <<tabela, itens, pagos, fim, devolucoes>>

Formas == {"DINHEIRO", "PIX", "CASHBACK", "VALE_TROCA"}
SemItem == [qtd |-> 0, desconto |-> 0, total |-> 0]
Aberta == [status |-> "ABERTA", troco |-> 0, gerado |-> 0]

TypeOKValores ==
  /\ tabela \in Tabelas
  /\ \A s \in Sku : itens[s] \in [qtd : 0..MaxUnidades, desconto : Nat, total : Int]
  /\ IsABag(pagos) /\ \A p \in BagToSet(pagos) : p.forma \in Formas /\ p.valor > 0
  /\ fim \in [status : {"ABERTA", "FINALIZADA"}, troco : Nat, gerado : Nat]
  /\ \A i \in 1..Len(devolucoes) :
       devolucoes[i] \in [unidades : [Sku -> 0..MaxUnidades], valor : Nat \ {0},
                          previsto : Nat, vale : Nat, confirmada : BOOLEAN]

InitValores ==
  /\ tabela \in Tabelas
  /\ itens = [s \in Sku |-> SemItem]
  /\ pagos = EmptyBag
  /\ fim = Aberta
  /\ devolucoes = <<>>

-----------------------------------------------------------------------------
(* Rounding: vendas.money and nfce.money round halves up, beneficios.money,  *)
(* sync.money and the mirror of the Central's arithmetic round them to even. *)

HalfUp(n, d) ==
  IF n >= 0 THEN (2 * n + d) \div (2 * d) ELSE -((d - 2 * n) \div (2 * d))

HalfEven(n, d) ==
  LET q == n \div d
      r == n % d
  IN IF 2 * r > d \/ (2 * r = d /\ q % 2 = 1) THEN q + 1 ELSE q

Positivo(n) == IF n > 0 THEN n ELSE 0
Menor(a, b) == IF a < b THEN a ELSE b
SomaDe(f(_)) == SumFunction([s \in Sku |-> f(s)])

-----------------------------------------------------------------------------
(* Prices *)

Pedido(p, q) ==
  CASE p.promocao = "PERCENTUAL" -> HalfEven(p.preco * q * p.valor, 10000)
    [] p.promocao = "VALOR_FIXO" -> HalfEven(p.valor, 100) * q
    [] p.promocao = "PRECO_FIXO" -> HalfEven(Positivo((p.preco - p.valor) * q), 100)
    [] OTHER -> 0

\* the ceiling is the gross value of four decimals cut to cents
Desconto(p, q) == Menor(Pedido(p, q), (p.preco * q) \div 100)

\* aplicar_precificacao_item
Precificado(p, q) ==
  [qtd |-> q, desconto |-> Desconto(p, q), total |-> HalfUp(q * p.preco - 100 * Desconto(p, q), 100)]

\* VendaHub.total
TotalVal == SomaDe(LAMBDA s : itens[s].total)

\* adicionar_item, alterar_quantidade_item and remover_item leave a product with
\* q units and price it again, in a sale without an active payment
MudarItem(s, q) ==
  /\ fim.status = "ABERTA"
  /\ pagos = EmptyBag
  /\ q /= itens[s].qtd /\ q + SomaDe(LAMBDA t : IF t = s THEN 0 ELSE itens[t].qtd) <= MaxUnidades
  /\ itens' = [itens EXCEPT ![s] = Precificado(tabela[s], q)]
  /\ UNCHANGED <<tabela, pagos, fim, devolucoes>>

-----------------------------------------------------------------------------
(* Payments *)

Pago(F) ==
  SumFunctionOnSet([p \in BagToSet(pagos) |-> p.valor * pagos[p]], {p \in BagToSet(pagos) : p.forma \in F})

Pendente0 == Positivo(TotalVal - Pago(Formas))

\* no benefit takes a place that another form already paid
CabeSem(v, forma) == v <= Positivo(TotalVal - Pago(Formas \ {forma}))

CashbackAceito(total) ==
  /\ Pago({"VALE_TROCA"}) = 0
  /\ total <= TotalVal
  /\ CabeSem(total, "CASHBACK")
  /\ total <= HalfEven(TotalVal * Cashback.limite, 100)

\* a provisional credit pays once in a sale
ValeAceito(v) ==
  /\ Pago({"CASHBACK"}) = 0
  /\ v <= SaldoVale
  /\ CabeSem(v, "VALE_TROCA")

Pagaveis ==
  LET restos == {TotalVal - q : q \in Quantias \cup {0}}
  IN {v \in Quantias \cup restos \cup {r + 1 : r \in restos} : v > 0}

PagarValor(forma, v) ==
  /\ fim.status = "ABERTA"
  /\ Pendente0 > 0
  /\ BagCardinality(pagos) < MaxPagos
  /\ forma /= "DINHEIRO" => v <= Pendente0
  /\ forma = "CASHBACK" => v >= Cashback.minimoUso /\ CashbackAceito(Pago({"CASHBACK"}) + v)
  /\ forma = "VALE_TROCA" => Pago({"VALE_TROCA"}) = 0 /\ ValeAceito(v)
  /\ pagos' = pagos (+) SetToBag({[forma |-> forma, valor |-> v]})
  /\ UNCHANGED <<tabela, itens, fim, devolucoes>>

RemoverValor(p) ==
  /\ fim.status = "ABERTA"
  /\ pagos' = pagos (-) SetToBag({p})
  /\ UNCHANGED <<tabela, itens, fim, devolucoes>>

TrocoVal == Positivo(Pago(Formas) - TotalVal)

Geravel ==
  Positivo(SomaDe(LAMBDA s : IF tabela[s].acumula THEN itens[s].total ELSE 0) - Pago({"CASHBACK"}))

Gerado ==
  IF Pago({"VALE_TROCA"}) > 0 \/ Geravel < Cashback.minimoGeracao THEN 0
  ELSE HalfEven(Geravel * Cashback.percentual, 100)

\* validar_cashback and _consumir_vale, at the conclusion
CashbackConfere == Pago({"CASHBACK"}) > 0 => CashbackAceito(Pago({"CASHBACK"}))
ValeConfere == Pago({"VALE_TROCA"}) > 0 => ValeAceito(Pago({"VALE_TROCA"}))

FinalizarValor ==
  /\ fim.status = "ABERTA"
  /\ TotalVal > 0
  /\ Pago(Formas) >= TotalVal
  /\ Pago(Formas) > TotalVal => Pago({"DINHEIRO"}) > 0
  /\ CashbackConfere
  /\ ValeConfere
  /\ fim' = [status |-> "FINALIZADA", troco |-> TrocoVal, gerado |-> Gerado]
  /\ UNCHANGED <<tabela, itens, pagos, devolucoes>>

-----------------------------------------------------------------------------
(* The NFC-e of the sale: each line is computed again from its snapshot *)

VProd(s) == HalfUp(itens[s].qtd * tabela[s].preco, 100)
VDesc(s) == itens[s].desconto
VBc(s) == VProd(s) - VDesc(s)
VIcms(s) == HalfUp(VBc(s) * Aliquota.icms, 100)
VPis(s) == HalfUp(VBc(s) * Aliquota.pis, 100)
VCofins(s) == HalfUp(VBc(s) * Aliquota.cofins, 100)

TotaisNota ==
  [vProd |-> SomaDe(VProd), vDesc |-> SomaDe(VDesc), vBC |-> SomaDe(VBc),
   vICMS |-> SomaDe(VIcms), vPIS |-> SomaDe(VPis), vCOFINS |-> SomaDe(VCofins),
   vNF |-> TotalVal]

PagNota == [vPag |-> Pago(Formas), vTroco |-> fim.troco]

-----------------------------------------------------------------------------
(* Returns *)

Devolvidas(s) == FoldLeft(LAMBDA n, d : n + d.unidades[s], 0, devolucoes)

\* the value of the units, at the price they were sold for; exact while a sale has
\* less than six units of a product (the code divides with 28 digits first)
ValorDe(u) ==
  SomaDe(LAMBDA s : IF u[s] = 0 THEN 0 ELSE HalfUp(itens[s].total * u[s], itens[s].qtd))

\* the same at the Central: the discount of one unit is rounded first
BrutoCentral(u) ==
  SomaDe(LAMBDA s : IF u[s] = 0 THEN 0
                    ELSE HalfUp((tabela[s].preco - 100 * HalfUp(itens[s].desconto, itens[s].qtd)) * u[s], 100))

\* the cashback to give back when items of this gross value were returned
Alvo(bruto) ==
  LET usado == Pago({"CASHBACK"})
  IN IF bruto >= TotalVal THEN usado ELSE HalfEven(usado * bruto, TotalVal)

Incremento(bruto, h) == Positivo(Menor(Pago({"CASHBACK"}), Alvo(h.acumulado + bruto)) - h.restituido)

\* mutant: the credit the Central confirmed for an earlier return is not looked at
MutRestituidoEm(d, h) == Incremento(BrutoCentral(d.unidades), h)
\* what an earlier return gave back: of a confirmed one, what its official credit lacks
RestituidoEm(d, h) ==
  IF d.confirmada THEN Positivo(BrutoCentral(d.unidades) - d.vale)
  ELSE Incremento(BrutoCentral(d.unidades), h)

Historico ==
  FoldLeft(LAMBDA h, d : [acumulado |-> h.acumulado + BrutoCentral(d.unidades),
                          restituido |-> h.restituido + RestituidoEm(d, h)],
           [acumulado |-> 0, restituido |-> 0], devolucoes)

\* calcular_credito_liquido_devolucao
CreditoLiquido(u) ==
  IF Pago({"CASHBACK"}) = 0 THEN ValorDe(u)
  ELSE Positivo(BrutoCentral(u) - Incremento(BrutoCentral(u), Historico))

DevolverValor(u) ==
  /\ fim.status = "FINALIZADA"
  /\ \E s \in Sku : u[s] > 0
  /\ \A s \in Sku : Devolvidas(s) + u[s] <= itens[s].qtd
  /\ ValorDe(u) > 0
  /\ devolucoes' = Append(devolucoes,
       [unidades |-> u, valor |-> ValorDe(u), previsto |-> CreditoLiquido(u),
        vale |-> CreditoLiquido(u), confirmada |-> FALSE])
  /\ UNCHANGED <<tabela, itens, pagos, fim>>

Distancia(a, b) == IF a > b THEN a - b ELSE b - a
Correcao == FoldLeft(LAMBDA n, d : n + Distancia(d.vale, d.previsto), 0, devolucoes)

\* the Central confirms a return, in any order, with its own net credit c, never more
\* than the gross value; the hub keeps it in the credit it gave, when it gave one
ConfirmarValor(i, c) ==
  /\ ~devolucoes[i].confirmada
  /\ devolucoes[i].vale = 0 => c = 0
  /\ c > devolucoes[i].vale => c <= BrutoCentral(devolucoes[i].unidades)
  /\ Correcao + Distancia(c, devolucoes[i].previsto) <= MaxCorrecao
  /\ devolucoes' = [devolucoes EXCEPT ![i].vale = c, ![i].confirmada = TRUE]
  /\ UNCHANGED <<tabela, itens, pagos, fim>>

NextValores ==
  \/ \E s \in Sku, q \in 0..MaxUnidades : MudarItem(s, q)
  \/ \E forma \in Formas, v \in Pagaveis : PagarValor(forma, v)
  \/ \E p \in BagToSet(pagos) : RemoverValor(p)
  \/ FinalizarValor
  \/ \E u \in [Sku -> 0..MaxUnidades] : DevolverValor(u)
  \/ \E i \in 1..Len(devolucoes) :
       \E c \in Positivo(devolucoes[i].vale - MaxCorrecao)..(devolucoes[i].vale + MaxCorrecao) :
         ConfirmarValor(i, c)

SpecValores == InitValores /\ [][NextValores]_varsValores

-----------------------------------------------------------------------------
(* Properties *)

Creditos == FoldLeft(LAMBDA n, d : n + d.vale, 0, devolucoes)
BrutoTotal == FoldLeft(LAMBDA n, d : n + BrutoCentral(d.unidades), 0, devolucoes)

\* No item has a negative value, whatever its promotion.
ItensPositivos == \A s \in Sku : itens[s].total >= 0

\* Only money is given back at the till: the other forms never exceed the sale.
TrocoSoDeDinheiro ==
  /\ Pago(Formas \ {"DINHEIRO"}) <= TotalVal
  /\ fim.troco > 0 => Pago({"CASHBACK", "VALE_TROCA"}) = 0

\* What was paid with cashback earns none.
GeradoSobreODinheiro ==
  200 * fim.gerado <= 2 * Cashback.percentual * (TotalVal - Pago({"CASHBACK"})) + 100

\* The lines of the NFC-e add up to the sale, and its payments less the change too.
NotaFecha ==
  fim.status = "FINALIZADA" =>
    /\ TotaisNota.vProd - TotaisNota.vDesc = TotaisNota.vNF
    /\ PagNota.vPag - PagNota.vTroco = TotaisNota.vNF
    /\ \A s \in Sku : VBc(s) >= 0

\* The accounts of a sale up to its note, whatever its prices and its payments.
VendaFecha == ItensPositivos /\ TrocoSoDeDinheiro /\ GeradoSobreODinheiro /\ NotaFecha

\* With cashback in the sale, the credits of its returns are what was returned less
\* the share of the cashback, rounded once: the history of the returns adds nothing,
\* and a cent that the Central corrected moves the sum by one cent at most.
CreditoProporcional ==
  Pago({"CASHBACK"}) > 0 =>
    Creditos - (BrutoTotal - Alvo(BrutoTotal)) \in -Correcao..Correcao

\* Returning the sale never credits more than was paid without cashback: a cent for
\* each unit, by the rounding of its discount, and what the Central corrected.
SemCreditoDeMais ==
  Creditos <= TotalVal - Pago({"CASHBACK"}) + Correcao + SomaDe(Devolvidas)

\* A return given when the Central has confirmed all the earlier ones makes up for
\* what it corrected: its credit is what is due for all of them and was not given
\* yet, as far as the gross value of its own units goes.
CreditoRetomado ==
  LET devido == BrutoTotal' - Alvo(BrutoTotal') - Creditos
  IN /\ Len(devolucoes') > Len(devolucoes)
     /\ Pago({"CASHBACK"}) > 0
     /\ \A i \in 1..Len(devolucoes) : devolucoes[i].confirmada
     => Creditos' - Creditos = Menor(Positivo(devido), BrutoTotal' - BrutoTotal)

\* The accounts of a sale are right from its first payment on, and after each return.
ContasFecham ==
  /\ [](pagos /= EmptyBag =>
         VendaFecha /\ CreditoProporcional /\ SemCreditoDeMais)
  /\ [][CreditoRetomado]_varsValores

============================================================================
