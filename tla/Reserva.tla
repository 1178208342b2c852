------------------------------ MODULE Reserva ------------------------------
(***************************************************************************)
(* The payments of a sale and the credit they reserve at the Central:      *)
(* cashback is reserved when the payment is added (cashback_online.py),    *)
(* exchange credit when the sale is concluded (vales_troca.py).  A request *)
(* to the Central is made inside the transaction, under the lock of the    *)
(* hub: Pedir validates and sends, Gravar commits, Desfazer rolls back     *)
(* (an error after the answer, the answer lost, the hub stops).            *)
(* Every payment has the same value; a sale costs Preco of them.           *)
(***************************************************************************)
EXTENDS Naturals, FiniteSets

CONSTANTS
  VendaPag,      \* sales
  OperPag,       \* operation_uuid of the payments
  TipoOper,      \* their form: CASHBACK, VALE_TROCA or DINHEIRO
  VendaOper,     \* their sale
  Requisicao,    \* requests the hub serves at once
  Preco,         \* payments that a sale costs
  CreditoCliente \* payments that the customer's credit at the Central covers

ASSUME ConstantesReserva ==
  /\ TipoOper \in [OperPag -> {"CASHBACK", "VALE_TROCA", "DINHEIRO"}]
  /\ VendaOper \in [OperPag -> VendaPag]
  /\ Preco \in Nat \ {0} /\ CreditoCliente \in Nat

VARIABLES
  vendaPag,  \* VendaHub.status
  pag,       \* VendaPagamentoHub of each operation: status, reservation known
  reserva,   \* the reservation of each operation at the Central
  txPag,     \* the transaction of each request, while it waits for the Central
  solta      \* history: payments whose removal was undone after their release

varsReserva == <<vendaPag, pag, reserva, txPag, solta>>

LivrePag == [op |-> "livre"]
TxPag == {LivrePag} \cup [op : {"reservar", "remover"}, oper : OperPag]
                    \cup [op : {"finalizar"}, venda : VendaPag]

TypeOKReserva ==
  /\ vendaPag \in [VendaPag -> {"ABERTA", "FINALIZADA", "CANCELADA"}]
  /\ pag \in [OperPag -> [status : {"NENHUM", "ATIVO", "REMOVIDO"}, reservado : BOOLEAN]]
  /\ reserva \in [OperPag -> {"NENHUMA", "RESERVADA", "CANCELADA", "CONSUMIDA"}]
  /\ txPag \in [Requisicao -> TxPag]
  /\ solta \subseteq OperPag

InitReserva ==
  /\ vendaPag = [v \in VendaPag |-> "ABERTA"]
  /\ pag = [o \in OperPag |-> [status |-> "NENHUM", reservado |-> FALSE]]
  /\ reserva = [o \in OperPag |-> "NENHUMA"]
  /\ txPag = [r \in Requisicao |-> LivrePag]
  /\ solta = {}

-----------------------------------------------------------------------------
(* The Central *)

Usado == Cardinality({o \in OperPag : reserva[o] \in {"RESERVADA", "CONSUMIDA"}})

\* reserving is idempotent by operation; a cancelled one is not taken up again
Reservavel(O) ==
  /\ \A o \in O : reserva[o] \in {"NENHUMA", "RESERVADA"}
  /\ Usado + Cardinality({o \in O : reserva[o] = "NENHUMA"}) <= CreditoCliente
ComReserva(O) == [o \in OperPag |-> IF o \in O THEN "RESERVADA" ELSE reserva[o]]

-----------------------------------------------------------------------------
(* Payments *)

\* mutant: a request does not wait for those that hold the lock of the hub
MutTravaPag(r) == txPag[r] = LivrePag
TravaPag(r) == \A q \in Requisicao : txPag[q] = LivrePag

Ativos(v) == {o \in OperPag : VendaOper[o] = v /\ pag[o].status = "ATIVO"}
DoTipo(O, t) == {o \in O : TipoOper[o] = t}

\* cashback and exchange credit exclude each other; nothing exceeds the price
Aceito(o) ==
  /\ vendaPag[VendaOper[o]] = "ABERTA"
  /\ pag[o].status = "NENHUM"
  /\ Cardinality(Ativos(VendaOper[o])) < Preco
  /\ TipoOper[o] = "CASHBACK" => DoTipo(Ativos(VendaOper[o]), "VALE_TROCA") = {}
  /\ TipoOper[o] = "VALE_TROCA" => DoTipo(Ativos(VendaOper[o]), "CASHBACK") = {}

\* cashback is never taken without the Central
SemCentral(o) == TipoOper[o] # "CASHBACK"

\* adicionar_pagamento, adicionar_pagamento_vale_troca: local only
AdicionarPagamento(r, o) ==
  /\ TravaPag(r)
  /\ SemCentral(o)
  /\ Aceito(o)
  /\ pag' = [pag EXCEPT ![o].status = "ATIVO"]
  /\ UNCHANGED <<vendaPag, reserva, txPag, solta>>

\* adicionar_pagamento_cashback_online
PedirCashback(r, o) ==
  /\ TravaPag(r)
  /\ ~SemCentral(o)
  /\ Aceito(o)
  /\ Reservavel({o})
  /\ reserva' = ComReserva({o})
  /\ txPag' = [txPag EXCEPT ![r] = [op |-> "reservar", oper |-> o]]
  /\ UNCHANGED <<vendaPag, pag, solta>>

GravarCashback(r) ==
  /\ txPag[r].op = "reservar"
  /\ pag' = [pag EXCEPT ![txPag[r].oper] = [status |-> "ATIVO", reservado |-> TRUE]]
  /\ txPag' = [txPag EXCEPT ![r] = LivrePag]
  /\ UNCHANGED <<vendaPag, reserva, solta>>

\* the local record fails: the transaction rolls back and the reservation is
\* cancelled at the Central, which may fail too
FalharCashback(r) ==
  /\ txPag[r].op = "reservar"
  /\ \/ reserva' = [reserva EXCEPT ![txPag[r].oper] = "CANCELADA"]
     \/ UNCHANGED reserva
  /\ txPag' = [txPag EXCEPT ![r] = LivrePag]
  /\ UNCHANGED <<vendaPag, pag, solta>>

\* reservar_na_central, validar_resposta_reserva: no answer although a timeout is
\* followed by the same request again, or the answer of another sale, total or
\* version: the transaction rolls back, the reservation stays
RecusarResposta(r) ==
  /\ txPag[r].op = "reservar"
  /\ txPag' = [txPag EXCEPT ![r] = LivrePag]
  /\ UNCHANGED <<vendaPag, pag, reserva, solta>>

\* the release of the reservation that a payment knows
Liberada(o) == IF pag[o].reservado THEN "CANCELADA" ELSE reserva[o]

\* a reservation the hub knows is released first; a request the Central did not
\* process ends the removal and changes nothing
PedirRemocao(r, o) ==
  /\ TravaPag(r)
  /\ pag[o].status = "ATIVO"
  /\ vendaPag[VendaOper[o]] # "FINALIZADA"
  /\ reserva' = [reserva EXCEPT ![o] = Liberada(o)]
  /\ txPag' = [txPag EXCEPT ![r] = [op |-> "remover", oper |-> o]]
  /\ UNCHANGED <<vendaPag, pag, solta>>

GravarRemocao(r) ==
  /\ txPag[r].op = "remover"
  /\ pag' = [pag EXCEPT ![txPag[r].oper].status = "REMOVIDO"]
  /\ txPag' = [txPag EXCEPT ![r] = LivrePag]
  /\ UNCHANGED <<vendaPag, reserva, solta>>

-----------------------------------------------------------------------------
(* Conclusion *)

CancelarVendaPag(r, v) ==
  /\ TravaPag(r)
  /\ vendaPag[v] = "ABERTA"
  /\ Ativos(v) = {}
  /\ vendaPag' = [vendaPag EXCEPT ![v] = "CANCELADA"]
  /\ UNCHANGED <<pag, reserva, txPag, solta>>

\* preparar_reservas_vale_troca: the credits that finalizar_venda reserves
\* mutant: one of them only
MutAReservar(v) ==
  {o \in DoTipo(Ativos(v), "VALE_TROCA") : o = CHOOSE x \in DoTipo(Ativos(v), "VALE_TROCA") : TRUE}
AReservar(v) == DoTipo(Ativos(v), "VALE_TROCA")

PedirFinalizacao(r, v) ==
  /\ TravaPag(r)
  /\ vendaPag[v] = "ABERTA"
  /\ Cardinality(Ativos(v)) >= Preco
  /\ Reservavel(AReservar(v))
  /\ reserva' = ComReserva(AReservar(v))
  /\ txPag' = [txPag EXCEPT ![r] = [op |-> "finalizar", venda |-> v]]
  /\ UNCHANGED <<vendaPag, pag, solta>>

GravarFinalizacao(r) ==
  /\ txPag[r].op = "finalizar"
  /\ LET v == txPag[r].venda IN
       /\ vendaPag' = [vendaPag EXCEPT ![v] = "FINALIZADA"]
       /\ pag' = [o \in OperPag |-> IF o \in AReservar(v) THEN [pag[o] EXCEPT !.reservado = TRUE]
                                    ELSE pag[o]]
  /\ txPag' = [txPag EXCEPT ![r] = LivrePag]
  /\ UNCHANGED <<reserva, solta>>

\* the answer of the Central is lost or comes too late, an error after it, or the
\* hub stops: the transaction rolls back, the Central keeps what it did; of a
\* removal, the release of a reservation that the payment still names
DesfazerPag(r) ==
  /\ txPag[r] # LivrePag
  /\ solta' = solta \cup {o \in OperPag : txPag[r] = [op |-> "remover", oper |-> o] /\ pag[o].reservado}
  /\ txPag' = [txPag EXCEPT ![r] = LivrePag]
  /\ UNCHANGED <<vendaPag, pag, reserva>>

\* the Central processes the event of the concluded sale
ConsumirReserva(v) ==
  /\ vendaPag[v] = "FINALIZADA"
  /\ \E o \in Ativos(v) : reserva[o] = "RESERVADA"
  /\ reserva' = [o \in OperPag |-> IF o \in Ativos(v) /\ reserva[o] = "RESERVADA" THEN "CONSUMIDA"
                                   ELSE reserva[o]]
  /\ UNCHANGED <<vendaPag, pag, txPag, solta>>

NextReserva ==
  \/ \E r \in Requisicao :
       \/ GravarCashback(r) \/ FalharCashback(r) \/ RecusarResposta(r)
       \/ GravarRemocao(r) \/ GravarFinalizacao(r) \/ DesfazerPag(r)
       \/ \E o \in OperPag : AdicionarPagamento(r, o) \/ PedirCashback(r, o) \/ PedirRemocao(r, o)
       \/ \E v \in VendaPag : CancelarVendaPag(r, v) \/ PedirFinalizacao(r, v)
  \/ \E v \in VendaPag : ConsumirReserva(v)
SpecReserva == InitReserva /\ [][NextReserva]_varsReserva

-----------------------------------------------------------------------------
(* Properties *)

Comprometida == {"RESERVADA", "CONSUMIDA"}

\* A credit of the Central that pays a concluded sale is reserved for it or
\* consumed by it, through lost answers, errors after them, compensations and
\* conclusions that roll back.  One case is left: a cashback whose removal was
\* undone after the Central had released it stays active and is not validated
\* at the Central again (cashback_online.py liberar_reserva_pagamento_cashback,
\* vales_troca.py preparar_reservas_vale_troca, vendas.py finalizar_venda).
PagaComReserva ==
  \A o \in OperPag :
    vendaPag[VendaOper[o]] = "FINALIZADA" /\ pag[o].status = "ATIVO" =>
      /\ TipoOper[o] = "VALE_TROCA" => reserva[o] \in Comprometida
      /\ TipoOper[o] = "CASHBACK" => reserva[o] \in Comprometida \/ o \in solta

\* A concluded sale stays paid: no removal that waits for the Central meanwhile
\* takes one of its payments (vendas.py remover_pagamento, finalizar_venda).
PagamentoCobre ==
  \A v \in VendaPag : vendaPag[v] = "FINALIZADA" => Cardinality(Ativos(v)) >= Preco

\* What pays a concluded sale is there and is its own: its payments cover it, and
\* the only credit among them that the Central does not hold for it is a cashback
\* whose removal failed after the release (vendas.py, cashback_online.py).
PagamentoGarantido == PagaComReserva /\ PagamentoCobre
============================================================================
