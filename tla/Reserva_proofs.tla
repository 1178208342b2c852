---------------------------- MODULE Reserva_proofs ----------------------------
(***************************************************************************)
(* Proofs about Reserva, for any sales, payments, requests, price and      *)
(* credit of the customer.                                                 *)
(*                                                                         *)
(* The lock of the hub is held while a request waits for the Central, so   *)
(* one transaction at most is open (UmaTransacao) and what it validated    *)
(* stays true until it ends (Pedido).  The Central may act and the hub     *)
(* roll back: the only request that takes the reservation of an active     *)
(* cashback payment away is its removal, so a payment without one is being *)
(* removed or had a removal undone (solta).                                *)
(***************************************************************************)
EXTENDS Reserva, TLAPS

-----------------------------------------------------------------------------
(* The invariant *)

UmaTransacao ==
  \A r, q \in Requisicao : txPag[r] # LivrePag /\ txPag[q] # LivrePag => r = q

\* what a request validated under the lock, and asked the Central for
Pedido(r) ==
  /\ txPag[r].op = "reservar" =>
       /\ vendaPag[VendaOper[txPag[r].oper]] = "ABERTA"
       /\ pag[txPag[r].oper].status = "NENHUM"
       /\ reserva[txPag[r].oper] = "RESERVADA"
  /\ txPag[r].op = "remover" =>
       /\ vendaPag[VendaOper[txPag[r].oper]] # "FINALIZADA"
       /\ pag[txPag[r].oper].status = "ATIVO"
  /\ txPag[r].op = "finalizar" =>
       /\ vendaPag[txPag[r].venda] = "ABERTA"
       /\ Cardinality(Ativos(txPag[r].venda)) >= Preco
       /\ \A o \in AReservar(txPag[r].venda) : reserva[o] = "RESERVADA"

EmRemocao(o) == \E r \in Requisicao : txPag[r].op = "remover" /\ txPag[r].oper = o

\* an active cashback payment knows its reservation, which holds unless a removal
\* is under way or was undone
CashbackReservado(o) ==
  pag[o].status = "ATIVO" /\ TipoOper[o] = "CASHBACK" =>
    pag[o].reservado /\ (reserva[o] \in Comprometida \/ EmRemocao(o) \/ o \in solta)

\* exchange credit is reserved from the conclusion on
ValeReservado(o) ==
  pag[o].status = "ATIVO" /\ TipoOper[o] = "VALE_TROCA" /\ vendaPag[VendaOper[o]] = "FINALIZADA" =>
    reserva[o] \in Comprometida

InvPedidos ==
  /\ TypeOKReserva
  /\ UmaTransacao
  /\ \A r \in Requisicao : Pedido(r)
  /\ \A o \in OperPag : ValeReservado(o)
  /\ PagamentoCobre
InvReserva == InvPedidos /\ \A o \in OperPag : CashbackReservado(o)

-----------------------------------------------------------------------------
(* The lock *)

LEMMA TiposDaTransacao ==
  ASSUME TypeOKReserva, NEW r \in Requisicao
  PROVE  /\ txPag[r].op \in {"livre", "reservar", "remover", "finalizar"}
         /\ txPag[r].op \in {"reservar", "remover"} => txPag[r].oper \in OperPag
         /\ txPag[r].op = "finalizar" => txPag[r].venda \in VendaPag
         /\ txPag[r].op = "livre" <=> txPag[r] = LivrePag
  BY DEF TypeOKReserva, TxPag, LivrePag

TodasLivres == \A r \in Requisicao : txPag[r] = LivrePag

LEMMA LivreNadaPendente ==
  ASSUME TodasLivres
  PROVE  /\ UmaTransacao
         /\ \A r \in Requisicao : Pedido(r)
         /\ \A o \in OperPag : ~EmRemocao(o)
  BY DEF TodasLivres, UmaTransacao, Pedido, EmRemocao, LivrePag

\* the same of the state after a step
LEMMA LivreDepois ==
  ASSUME TodasLivres'
  PROVE  /\ UmaTransacao'
         /\ \A r \in Requisicao : Pedido(r)'
         /\ \A o \in OperPag : ~EmRemocao(o)'
  BY DEF TodasLivres, UmaTransacao, Pedido, EmRemocao, LivrePag

\* a transaction that ends was the only one
LEMMA TerminaUnica ==
  ASSUME TypeOKReserva, UmaTransacao, NEW r \in Requisicao, txPag[r] # LivrePag,
         txPag' = [txPag EXCEPT ![r] = LivrePag]
  PROVE  TodasLivres'
  BY DEF TypeOKReserva, UmaTransacao, TodasLivres

\* so is one that begins
LEMMA ComecaUnica ==
  ASSUME TypeOKReserva, NEW r \in Requisicao, TravaPag(r), NEW t,
         txPag' = [txPag EXCEPT ![r] = t], Pedido(r)'
  PROVE  UmaTransacao' /\ \A q \in Requisicao : Pedido(q)'
<1>1. \A q \in Requisicao : q # r => txPag'[q] = LivrePag
  BY DEF TypeOKReserva, TravaPag
<1>2. UmaTransacao'
  BY <1>1 DEF UmaTransacao
<1>3. \A q \in Requisicao : q # r => Pedido(q)'
  BY <1>1 DEF Pedido, LivrePag
<1>4. QED
  BY <1>2, <1>3

LEMMA AtivosMantidos ==
  ASSUME NEW v \in VendaPag,
         \A o \in OperPag : VendaOper[o] = v => (pag'[o].status = "ATIVO" <=> pag[o].status = "ATIVO")
  PROVE  Ativos(v)' = Ativos(v)
  BY DEF Ativos

\* a concluded sale stays covered by a step that leaves its payments
LEMMA CobreMantido ==
  ASSUME PagamentoCobre,
         \A v \in VendaPag : vendaPag'[v] = "FINALIZADA" => vendaPag[v] = "FINALIZADA",
         \A o \in OperPag : vendaPag[VendaOper[o]] = "FINALIZADA" =>
           (pag'[o].status = "ATIVO" <=> pag[o].status = "ATIVO")
  PROVE  PagamentoCobre'
<1>1. SUFFICES ASSUME NEW v \in VendaPag, vendaPag'[v] = "FINALIZADA"
               PROVE  Cardinality(Ativos(v)') >= Preco
  BY DEF PagamentoCobre
<1>2. Ativos(v)' = Ativos(v)
  BY <1>1, AtivosMantidos
<1>3. QED
  BY <1>1, <1>2 DEF PagamentoCobre

-----------------------------------------------------------------------------
(* Types *)

LinhaPag == [status : {"NENHUM", "ATIVO", "REMOVIDO"}, reservado : BOOLEAN]

LEMMA TipoInicialReserva == InitReserva => TypeOKReserva
  BY DEF InitReserva, TypeOKReserva, TxPag

LEMMA TipoComeca ==
  ASSUME TypeOKReserva, NEW r \in Requisicao,
         \/ \E o \in OperPag : AdicionarPagamento(r, o) \/ PedirCashback(r, o) \/ PedirRemocao(r, o)
         \/ \E v \in VendaPag : CancelarVendaPag(r, v) \/ PedirFinalizacao(r, v)
  PROVE  TypeOKReserva'
<1> USE DEF TypeOKReserva
<1>1. ASSUME NEW o \in OperPag, AdicionarPagamento(r, o) PROVE TypeOKReserva'
  <2>1. pag' = [pag EXCEPT ![o] = [pag[o] EXCEPT !.status = "ATIVO"]]
    BY <1>1 DEF AdicionarPagamento
  <2>2. [pag[o] EXCEPT !.status = "ATIVO"] \in LinhaPag
    BY DEF LinhaPag
  <2>3. QED
    BY <1>1, <2>1, <2>2 DEF AdicionarPagamento, LinhaPag
<1>2. ASSUME NEW o \in OperPag, PedirCashback(r, o) PROVE TypeOKReserva'
  BY <1>2 DEF PedirCashback, ComReserva, TxPag
<1>3. ASSUME NEW o \in OperPag, PedirRemocao(r, o) PROVE TypeOKReserva'
  BY <1>3 DEF PedirRemocao, Liberada, TxPag
<1>4. ASSUME NEW v \in VendaPag, CancelarVendaPag(r, v) PROVE TypeOKReserva'
  BY <1>4 DEF CancelarVendaPag
<1>5. ASSUME NEW v \in VendaPag, PedirFinalizacao(r, v) PROVE TypeOKReserva'
  BY <1>5 DEF PedirFinalizacao, ComReserva, TxPag
<1>6. QED
  BY <1>1, <1>2, <1>3, <1>4, <1>5

LEMMA TipoTermina ==
  ASSUME TypeOKReserva, NEW r \in Requisicao,
         \/ GravarCashback(r) \/ FalharCashback(r) \/ RecusarResposta(r)
         \/ GravarRemocao(r) \/ GravarFinalizacao(r) \/ DesfazerPag(r)
  PROVE  TypeOKReserva'
<1> USE DEF TypeOKReserva
<1>1. [txPag EXCEPT ![r] = LivrePag] \in [Requisicao -> TxPag]
  BY DEF TxPag
<1>2. CASE GravarCashback(r)
  BY <1>1, <1>2 DEF GravarCashback
<1>3. CASE FalharCashback(r)
  <2>1. reserva' \in [OperPag -> {"NENHUMA", "RESERVADA", "CANCELADA", "CONSUMIDA"}]
    <3>1. CASE reserva' = [reserva EXCEPT ![txPag[r].oper] = "CANCELADA"]
      BY <3>1
    <3>2. QED
      BY <1>3, <3>1 DEF FalharCashback
  <2>2. QED
    BY <1>1, <1>3, <2>1 DEF FalharCashback
<1>4. CASE RecusarResposta(r)
  BY <1>1, <1>4 DEF RecusarResposta
<1>5. CASE GravarRemocao(r)
  <2>1. PICK o \in OperPag : txPag[r].oper = o
    BY <1>5, TiposDaTransacao DEF GravarRemocao
  <2>2. pag' = [pag EXCEPT ![o] = [pag[o] EXCEPT !.status = "REMOVIDO"]]
    BY <1>5, <2>1 DEF GravarRemocao
  <2>3. [pag[o] EXCEPT !.status = "REMOVIDO"] \in LinhaPag
    BY DEF LinhaPag
  <2>4. pag' \in [OperPag -> LinhaPag]
    BY <2>2, <2>3 DEF LinhaPag
  <2>5. UNCHANGED <<vendaPag, reserva, solta>> /\ txPag' = [txPag EXCEPT ![r] = LivrePag]
    BY <1>5 DEF GravarRemocao
  <2>6. QED
    BY <1>1, <2>4, <2>5 DEF LinhaPag
<1>6. CASE GravarFinalizacao(r)
  <2>1. PICK v \in VendaPag :
          /\ vendaPag' = [vendaPag EXCEPT ![v] = "FINALIZADA"]
          /\ pag' = [o \in OperPag |-> IF o \in AReservar(v) THEN [pag[o] EXCEPT !.reservado = TRUE] ELSE pag[o]]
    BY <1>6, TiposDaTransacao DEF GravarFinalizacao
  <2>2. \A o \in OperPag : [pag[o] EXCEPT !.reservado = TRUE] \in LinhaPag /\ pag[o] \in LinhaPag
    BY DEF LinhaPag
  <2>3. pag' \in [OperPag -> LinhaPag]
    BY <2>1, <2>2
  <2>4. QED
    BY <1>1, <1>6, <2>1, <2>3 DEF GravarFinalizacao, LinhaPag
<1>7. CASE DesfazerPag(r)
  <2>1. solta' \subseteq OperPag
    BY <1>7 DEF DesfazerPag
  <2>2. QED
    BY <1>1, <1>7, <2>1 DEF DesfazerPag
<1>8. QED
  BY <1>2, <1>3, <1>4, <1>5, <1>6, <1>7

LEMMA TipoConsumir ==
  ASSUME TypeOKReserva, NEW v \in VendaPag, ConsumirReserva(v)
  PROVE  TypeOKReserva'
  BY DEF TypeOKReserva, ConsumirReserva

\* Sales, payments, reservations and transactions keep their types.
THEOREM TipoReserva == SpecReserva => []TypeOKReserva
<1>1. ASSUME TypeOKReserva, [NextReserva]_varsReserva PROVE TypeOKReserva'
  <2>1. CASE NextReserva
    BY <1>1, <2>1, TipoComeca, TipoTermina, TipoConsumir DEF NextReserva
  <2>2. CASE UNCHANGED varsReserva
    BY <1>1, <2>2 DEF TypeOKReserva, varsReserva
  <2>3. QED
    BY <1>1, <2>1, <2>2
<1>2. QED
  BY <1>1, TipoInicialReserva, PTL DEF SpecReserva

-----------------------------------------------------------------------------
(* The invariant is kept, wherever the hub stops *)

LEMMA InvInicialReserva == InitReserva => InvReserva
<1>1. InitReserva => TodasLivres
  BY DEF InitReserva, TodasLivres
<1>2. InitReserva => PagamentoCobre
  BY DEF InitReserva, PagamentoCobre
<1>3. ASSUME InitReserva, NEW o \in OperPag PROVE CashbackReservado(o) /\ ValeReservado(o)
  BY <1>3 DEF InitReserva, CashbackReservado, ValeReservado
<1>4. QED
  BY <1>1, <1>2, <1>3, TipoInicialReserva, LivreNadaPendente DEF InvReserva, InvPedidos

\* steps that send nothing: payments without the Central, a sale cancelled
LEMMA PedidosSemCentral ==
  ASSUME InvPedidos, TypeOKReserva', NEW r \in Requisicao,
         (\E o \in OperPag : AdicionarPagamento(r, o)) \/ \E v \in VendaPag : CancelarVendaPag(r, v)
  PROVE  InvPedidos'
<1> USE DEF InvPedidos
<1>1. TodasLivres'
  BY DEF AdicionarPagamento, CancelarVendaPag, TravaPag, TodasLivres
<1>2. UmaTransacao' /\ \A q \in Requisicao : Pedido(q)'
  BY <1>1, LivreDepois
<1>3. ASSUME NEW o \in OperPag, AdicionarPagamento(r, o) PROVE InvPedidos'
  <2>1. /\ vendaPag[VendaOper[o]] = "ABERTA" /\ UNCHANGED <<vendaPag, reserva>>
        /\ \A x \in OperPag : x # o => pag'[x] = pag[x]
    BY <1>3 DEF AdicionarPagamento, Aceito, TypeOKReserva
  <2>2. \A x \in OperPag : ValeReservado(x)'
    BY <2>1 DEF ValeReservado
  <2>3. PagamentoCobre'
    BY <2>1, CobreMantido
  <2>4. QED
    BY <1>2, <2>2, <2>3
<1>4. ASSUME NEW v \in VendaPag, CancelarVendaPag(r, v) PROVE InvPedidos'
  <2>1. UNCHANGED <<pag, reserva>> /\ \A x \in VendaPag : vendaPag'[x] = "FINALIZADA" => vendaPag[x] = "FINALIZADA"
    BY <1>4 DEF CancelarVendaPag, TypeOKReserva
  <2>2. \A x \in OperPag : ValeReservado(x)'
    BY <2>1, ConstantesReserva DEF ValeReservado
  <2>3. PagamentoCobre'
    BY <2>1, CobreMantido
  <2>4. QED
    BY <1>2, <2>2, <2>3
<1>5. QED
  BY <1>3, <1>4

\* steps that ask the Central
LEMMA PedidosAoPedir ==
  ASSUME InvPedidos, TypeOKReserva', NEW r \in Requisicao,
         \/ \E o \in OperPag : PedirCashback(r, o) \/ PedirRemocao(r, o)
         \/ \E v \in VendaPag : PedirFinalizacao(r, v)
  PROVE  InvPedidos'
<1> USE DEF InvPedidos
<1>1. ASSUME NEW o \in OperPag, PedirCashback(r, o) PROVE InvPedidos'
  <2>1. /\ TravaPag(r) /\ vendaPag[VendaOper[o]] = "ABERTA" /\ pag[o].status = "NENHUM" /\ TipoOper[o] = "CASHBACK"
        /\ UNCHANGED <<vendaPag, pag>>
        /\ reserva'[o] = "RESERVADA" /\ \A x \in OperPag : x # o => reserva'[x] = reserva[x]
        /\ txPag' = [txPag EXCEPT ![r] = [op |-> "reservar", oper |-> o]]
    BY <1>1 DEF PedirCashback, SemCentral, Aceito, ComReserva
  <2>2. Pedido(r)'
    <3>1. txPag'[r] = [op |-> "reservar", oper |-> o]
      BY <2>1 DEF TypeOKReserva
    <3>2. QED
      BY <2>1, <3>1 DEF Pedido
  <2>3. UmaTransacao' /\ \A q \in Requisicao : Pedido(q)'
    BY <2>1, <2>2, ComecaUnica
  <2>4. \A x \in OperPag : ValeReservado(x)'
    BY <2>1 DEF ValeReservado
  <2>5. QED
    BY <2>1, <2>3, <2>4, CobreMantido
<1>2. ASSUME NEW o \in OperPag, PedirRemocao(r, o) PROVE InvPedidos'
  <2>1. /\ TravaPag(r) /\ vendaPag[VendaOper[o]] # "FINALIZADA" /\ pag[o].status = "ATIVO"
        /\ UNCHANGED <<vendaPag, pag>>
        /\ \A x \in OperPag : x # o => reserva'[x] = reserva[x]
        /\ txPag' = [txPag EXCEPT ![r] = [op |-> "remover", oper |-> o]]
    BY <1>2 DEF PedirRemocao, TypeOKReserva
  <2>2. Pedido(r)'
    <3>1. txPag'[r] = [op |-> "remover", oper |-> o]
      BY <2>1 DEF TypeOKReserva
    <3>2. QED
      BY <2>1, <3>1 DEF Pedido
  <2>3. UmaTransacao' /\ \A q \in Requisicao : Pedido(q)'
    BY <2>1, <2>2, ComecaUnica
  <2>4. \A x \in OperPag : ValeReservado(x)'
    BY <2>1 DEF ValeReservado
  <2>5. QED
    BY <2>1, <2>3, <2>4, CobreMantido
<1>3. ASSUME NEW v \in VendaPag, PedirFinalizacao(r, v) PROVE InvPedidos'
  <2>1. /\ TravaPag(r) /\ vendaPag[v] = "ABERTA" /\ Cardinality(Ativos(v)) >= Preco
        /\ UNCHANGED <<vendaPag, pag>>
        /\ reserva' = ComReserva(AReservar(v))
        /\ txPag' = [txPag EXCEPT ![r] = [op |-> "finalizar", venda |-> v]]
    BY <1>3 DEF PedirFinalizacao
  <2>2. \A x \in OperPag : reserva'[x] = IF x \in AReservar(v) THEN "RESERVADA" ELSE reserva[x]
    BY <2>1 DEF ComReserva
  <2>3. Ativos(v)' = Ativos(v) /\ AReservar(v)' = AReservar(v)
    BY <2>1 DEF Ativos, AReservar, DoTipo
  <2>4. AReservar(v) \subseteq OperPag
    BY DEF AReservar, DoTipo, Ativos
  <2>5. Pedido(r)'
    <3>1. txPag'[r] = [op |-> "finalizar", venda |-> v]
      BY <2>1 DEF TypeOKReserva
    <3>2. \A o \in AReservar(v)' : reserva'[o] = "RESERVADA"
      BY <2>2, <2>3, <2>4
    <3>3. Cardinality(Ativos(v)') >= Preco
      BY <2>1, <2>3
    <3>4. vendaPag'[v] = "ABERTA"
      BY <2>1
    <3>5. (Cardinality(Ativos(txPag[r].venda)) >= Preco)' /\ (\A o \in AReservar(txPag[r].venda) : reserva[o] = "RESERVADA")'
      BY <3>1, <3>2, <3>3
    <3>6. QED
      BY <3>1, <3>4, <3>5 DEF Pedido
  <2>6. UmaTransacao' /\ \A q \in Requisicao : Pedido(q)'
    BY <2>1, <2>5, ComecaUnica
  <2>7. \A x \in OperPag : ValeReservado(x)'
    BY <2>1, <2>2 DEF ValeReservado, Comprometida
  <2>8. QED
    BY <2>1, <2>6, <2>7, CobreMantido
<1>4. QED
  BY <1>1, <1>2, <1>3

\* steps that end a request without concluding its sale
LEMMA PedidosAoTerminar ==
  ASSUME InvPedidos, TypeOKReserva', NEW r \in Requisicao,
         GravarCashback(r) \/ FalharCashback(r) \/ RecusarResposta(r) \/ GravarRemocao(r) \/ DesfazerPag(r)
  PROVE  InvPedidos'
<1> USE DEF InvPedidos
<1>1. txPag[r] # LivrePag /\ txPag' = [txPag EXCEPT ![r] = LivrePag] /\ UNCHANGED vendaPag
  BY DEF GravarCashback, FalharCashback, RecusarResposta, GravarRemocao, DesfazerPag, LivrePag
<1>2. UmaTransacao' /\ \A q \in Requisicao : Pedido(q)'
  <2>1. TodasLivres'
    BY <1>1, TerminaUnica
  <2>2. QED
    BY <2>1, LivreDepois
<1>3. Pedido(r)
  OBVIOUS
<1>4. ASSUME GravarCashback(r) \/ FalharCashback(r) \/ GravarRemocao(r)
      PROVE  InvPedidos'
  <2>1. PICK o \in OperPag : txPag[r].oper = o
    BY <1>4, TiposDaTransacao DEF GravarCashback, FalharCashback, GravarRemocao
  <2>2. vendaPag[VendaOper[o]] # "FINALIZADA"
    BY <1>3, <1>4, <2>1 DEF Pedido, GravarCashback, FalharCashback, GravarRemocao
  <2>3. \A x \in OperPag : x # o => pag'[x] = pag[x] /\ reserva'[x] = reserva[x]
    <3>1. CASE GravarCashback(r)
      BY <2>1, <3>1 DEF GravarCashback, TypeOKReserva
    <3>2. CASE FalharCashback(r)
      <4>1. CASE reserva' = [reserva EXCEPT ![o] = "CANCELADA"]
        BY <3>2, <4>1 DEF FalharCashback, TypeOKReserva
      <4>2. QED
        BY <2>1, <3>2, <4>1 DEF FalharCashback
    <3>3. CASE GravarRemocao(r)
      BY <2>1, <3>3 DEF GravarRemocao, TypeOKReserva
    <3>4. QED
      BY <1>4, <3>1, <3>2, <3>3
  <2>4. \A x \in OperPag : ValeReservado(x)'
    BY <1>1, <2>2, <2>3 DEF ValeReservado
  <2>5. PagamentoCobre'
    BY <1>1, <2>2, <2>3, CobreMantido
  <2>6. QED
    BY <1>2, <2>4, <2>5
<1>5. ASSUME RecusarResposta(r) \/ DesfazerPag(r) PROVE InvPedidos'
  <2>1. UNCHANGED <<vendaPag, pag, reserva>>
    BY <1>5 DEF RecusarResposta, DesfazerPag
  <2>2. \A x \in OperPag : ValeReservado(x)'
    BY <2>1 DEF ValeReservado
  <2>3. PagamentoCobre'
    BY <2>1, CobreMantido
  <2>4. QED
    BY <1>2, <2>2, <2>3
<1>6. QED
  BY <1>4, <1>5

\* the sale is concluded with what was validated before the Central was asked
LEMMA PedidosAoFinalizar ==
  ASSUME InvPedidos, TypeOKReserva', NEW r \in Requisicao, GravarFinalizacao(r)
  PROVE  InvPedidos'
<1> USE DEF InvPedidos
<1>1. UmaTransacao' /\ \A q \in Requisicao : Pedido(q)'
  <2>1. txPag[r] # LivrePag /\ txPag' = [txPag EXCEPT ![r] = LivrePag]
    BY DEF GravarFinalizacao, LivrePag
  <2>2. TodasLivres'
    BY <2>1, TerminaUnica
  <2>3. QED
    BY <2>2, LivreDepois
<1>2. PICK v \in VendaPag :
        /\ txPag[r].op = "finalizar" /\ txPag[r].venda = v
        /\ vendaPag' = [vendaPag EXCEPT ![v] = "FINALIZADA"]
        /\ pag' = [o \in OperPag |-> IF o \in AReservar(v) THEN [pag[o] EXCEPT !.reservado = TRUE] ELSE pag[o]]
        /\ UNCHANGED reserva
  BY TiposDaTransacao DEF GravarFinalizacao
<1>3. /\ Cardinality(Ativos(v)) >= Preco
      /\ \A o \in AReservar(v) : reserva[o] = "RESERVADA"
  <2>1. Pedido(r)
    OBVIOUS
  <2>2. QED
    BY <1>2, <2>1 DEF Pedido
<1>4. \A o \in OperPag : pag'[o].status = pag[o].status
  BY <1>2 DEF TypeOKReserva
<1>5. ASSUME NEW x \in OperPag PROVE ValeReservado(x)'
  <2>1. CASE VendaOper[x] = v
    BY <1>2, <1>3, <1>4, <2>1 DEF ValeReservado, AReservar, DoTipo, Ativos, Comprometida
  <2>2. CASE VendaOper[x] # v
    <3>1. vendaPag'[VendaOper[x]] = vendaPag[VendaOper[x]]
      BY <1>2, <2>2, ConstantesReserva DEF TypeOKReserva
    <3>2. QED
      BY <1>2, <1>4, <3>1 DEF ValeReservado
  <2>3. QED
    BY <2>1, <2>2
<1>6. ASSUME NEW w \in VendaPag, vendaPag'[w] = "FINALIZADA" PROVE Cardinality(Ativos(w)') >= Preco
  <2>1. Ativos(w)' = Ativos(w)
    BY <1>4, AtivosMantidos
  <2>2. w = v \/ vendaPag[w] = "FINALIZADA"
    BY <1>2, <1>6 DEF TypeOKReserva
  <2>3. QED
    BY <1>3, <2>1, <2>2 DEF PagamentoCobre
<1>7. PagamentoCobre'
  BY <1>6 DEF PagamentoCobre
<1>8. QED
  BY <1>1, <1>5, <1>7

\* the event is consumed while other sales wait for the Central
LEMMA PedidosAoConsumir ==
  ASSUME InvPedidos, TypeOKReserva', NEW v \in VendaPag, ConsumirReserva(v)
  PROVE  InvPedidos'
<1> USE DEF InvPedidos
<1>1. /\ vendaPag[v] = "FINALIZADA" /\ UNCHANGED <<vendaPag, pag, txPag>>
      /\ \A o \in OperPag : reserva'[o] = IF o \in Ativos(v) /\ reserva[o] = "RESERVADA" THEN "CONSUMIDA" ELSE reserva[o]
  BY DEF ConsumirReserva
<1>2. UmaTransacao'
  BY <1>1 DEF UmaTransacao
<1>3. ASSUME NEW r \in Requisicao PROVE Pedido(r)'
  <2>1. Pedido(r)
    OBVIOUS
  <2>2. CASE txPag[r].op = "reservar"
    <3>1. PICK o \in OperPag : txPag[r].oper = o
      BY <2>2, TiposDaTransacao
    <3>2. o \notin Ativos(v)
      BY <2>1, <2>2, <3>1 DEF Pedido, Ativos
    <3>3. QED
      BY <1>1, <2>1, <2>2, <3>1, <3>2 DEF Pedido
  <2>3. CASE txPag[r].op = "finalizar"
    <3>1. PICK w \in VendaPag : txPag[r].venda = w
      BY <2>3, TiposDaTransacao
    <3>2. w # v
      BY <1>1, <2>1, <2>3, <3>1 DEF Pedido
    <3>3. Ativos(w)' = Ativos(w) /\ AReservar(w)' = AReservar(w)
      BY <1>1 DEF Ativos, AReservar, DoTipo
    <3>4. \A o \in AReservar(w) : o \in OperPag /\ o \notin Ativos(v)
      BY <3>2 DEF AReservar, DoTipo, Ativos
    <3>5. vendaPag[w] = "ABERTA" /\ Cardinality(Ativos(w)) >= Preco /\ \A o \in AReservar(w) : reserva[o] = "RESERVADA"
      BY <2>1, <2>3, <3>1 DEF Pedido
    <3>6. (\A o \in AReservar(w) : reserva[o] = "RESERVADA")'
      BY <1>1, <3>3, <3>4, <3>5
    <3>7. (Cardinality(Ativos(w)) >= Preco)'
      BY <3>3, <3>5
    <3>8. txPag'[r].venda = w /\ txPag'[r].op = "finalizar" /\ vendaPag'[w] = "ABERTA"
      BY <1>1, <2>3, <3>1, <3>5
    <3>9. (Cardinality(Ativos(txPag[r].venda)) >= Preco)' /\ (\A o \in AReservar(txPag[r].venda) : reserva[o] = "RESERVADA")'
      BY <3>6, <3>7, <3>8
    <3>10. QED
      BY <3>8, <3>9 DEF Pedido
  <2>4. CASE txPag[r].op \in {"livre", "remover"}
    BY <1>1, <2>1, <2>4 DEF Pedido
  <2>5. QED
    BY <2>2, <2>3, <2>4, TiposDaTransacao
<1>4. \A x \in OperPag : ValeReservado(x)'
  BY <1>1 DEF ValeReservado, Comprometida
<1>5. PagamentoCobre'
  BY <1>1, CobreMantido
<1>6. QED
  BY <1>2, <1>3, <1>4, <1>5

\* Transactions exclude each other, so what each of them validated holds when it
\* is committed, wherever the hub stops (vendas.py
\* obter_venda_terminal_por_uuid_bloqueada).
THEOREM InvariantePedidos == SpecReserva => []InvPedidos
<1>1. ASSUME InvPedidos, [NextReserva]_varsReserva PROVE InvPedidos'
  <2>1. CASE NextReserva
    <3>1. TypeOKReserva'
      BY <1>1, <2>1, TipoComeca, TipoTermina, TipoConsumir DEF NextReserva, InvPedidos
    <3>2. QED
      BY <1>1, <2>1, <3>1, PedidosSemCentral, PedidosAoPedir, PedidosAoTerminar, PedidosAoFinalizar,
         PedidosAoConsumir DEF NextReserva
  <2>2. CASE UNCHANGED varsReserva
    BY <1>1, <2>2 DEF InvPedidos, TypeOKReserva, UmaTransacao, Pedido, ValeReservado, PagamentoCobre,
       Ativos, AReservar, DoTipo, varsReserva
  <2>3. QED
    BY <1>1, <2>1, <2>2
<1>2. InitReserva => InvPedidos
  BY InvInicialReserva DEF InvReserva
<1>3. QED
  BY <1>1, <1>2, PTL DEF SpecReserva

\* A concluded sale stays paid: no removal of a payment, whatever it waits for and
\* wherever the hub stops, meets the sale concluded (vendas.py remover_pagamento).
THEOREM PagamentoCobreSempre == SpecReserva => []PagamentoCobre
<1>1. InvPedidos => PagamentoCobre
  BY DEF InvPedidos
<1>2. QED
  BY <1>1, InvariantePedidos, PTL

-----------------------------------------------------------------------------
(* The reservation of a cashback payment is not lost when a removal ends *)

\* a request that is open is the only one that may be removing
LEMMA SoEste ==
  ASSUME InvPedidos, NEW r \in Requisicao, txPag[r] # LivrePag, NEW o \in OperPag, EmRemocao(o)
  PROVE  txPag[r].op = "remover" /\ txPag[r].oper = o
<1>1. PICK q \in Requisicao : txPag[q].op = "remover" /\ txPag[q].oper = o
  BY DEF EmRemocao
<1>2. q = r
  BY <1>1 DEF InvPedidos, UmaTransacao, LivrePag
<1>3. QED
  BY <1>1, <1>2

LEMMA CashbackAoPedir ==
  ASSUME InvReserva, NEW r \in Requisicao,
         \/ \E o \in OperPag : AdicionarPagamento(r, o) \/ PedirCashback(r, o) \/ PedirRemocao(r, o)
         \/ \E v \in VendaPag : CancelarVendaPag(r, v) \/ PedirFinalizacao(r, v),
         NEW x \in OperPag
  PROVE  CashbackReservado(x)'
<1>0. solta' = solta
  BY DEF AdicionarPagamento, PedirCashback, PedirRemocao, CancelarVendaPag, PedirFinalizacao
<1>1. CashbackReservado(x) /\ TypeOKReserva
  BY DEF InvReserva, InvPedidos
<1>2. ~EmRemocao(x)
  <2>1. TravaPag(r)
    BY DEF AdicionarPagamento, PedirCashback, PedirRemocao, CancelarVendaPag, PedirFinalizacao
  <2>2. QED
    BY <2>1 DEF TravaPag, EmRemocao, LivrePag
<1>3. ASSUME NEW o \in OperPag, AdicionarPagamento(r, o) PROVE CashbackReservado(x)'
  <2>1. TipoOper[o] # "CASHBACK" /\ UNCHANGED reserva /\ \A y \in OperPag : y # o => pag'[y] = pag[y]
    BY <1>1, <1>3 DEF AdicionarPagamento, SemCentral, TypeOKReserva
  <2>2. QED
    BY <1>0, <1>1, <1>2, <2>1 DEF CashbackReservado
<1>4. ASSUME NEW o \in OperPag, PedirCashback(r, o) PROVE CashbackReservado(x)'
  <2>1. pag[o].status = "NENHUM" /\ UNCHANGED pag /\ \A y \in OperPag : y # o => reserva'[y] = reserva[y]
    BY <1>4 DEF PedirCashback, Aceito, ComReserva
  <2>2. QED
    BY <1>0, <1>1, <1>2, <2>1 DEF CashbackReservado
<1>5. ASSUME NEW o \in OperPag, PedirRemocao(r, o) PROVE CashbackReservado(x)'
  <2>1. UNCHANGED pag /\ \A y \in OperPag : y # o => reserva'[y] = reserva[y]
    BY <1>1, <1>5 DEF PedirRemocao, TypeOKReserva
  <2>2. EmRemocao(o)'
    <3>1. txPag'[r] = [op |-> "remover", oper |-> o]
      BY <1>1, <1>5 DEF PedirRemocao, TypeOKReserva
    <3>2. QED
      BY <3>1 DEF EmRemocao
  <2>3. QED
    BY <1>0, <1>1, <1>2, <2>1, <2>2 DEF CashbackReservado
<1>6. ASSUME NEW v \in VendaPag, CancelarVendaPag(r, v) PROVE CashbackReservado(x)'
  BY <1>1, <1>2, <1>6 DEF CancelarVendaPag, CashbackReservado
<1>7. ASSUME NEW v \in VendaPag, PedirFinalizacao(r, v) PROVE CashbackReservado(x)'
  <2>1. UNCHANGED pag /\ reserva'[x] \in {reserva[x], "RESERVADA"}
    BY <1>7 DEF PedirFinalizacao, ComReserva
  <2>2. QED
    BY <1>0, <1>1, <1>2, <2>1 DEF CashbackReservado, Comprometida
<1>8. QED
  BY <1>3, <1>4, <1>5, <1>6, <1>7

\* a removal of a known reservation ends with the payment removed or in solta
LEMMA CashbackAoTerminar ==
  ASSUME InvReserva, NEW r \in Requisicao,
         \/ GravarCashback(r) \/ FalharCashback(r) \/ RecusarResposta(r)
         \/ GravarRemocao(r) \/ GravarFinalizacao(r) \/ DesfazerPag(r),
         NEW x \in OperPag
  PROVE  CashbackReservado(x)'
<1>0. GravarCashback(r) \/ FalharCashback(r) \/ RecusarResposta(r) \/ GravarRemocao(r) \/ GravarFinalizacao(r)
      => solta' = solta
  BY DEF GravarCashback, FalharCashback, RecusarResposta, GravarRemocao, GravarFinalizacao
<1>1. CashbackReservado(x) /\ TypeOKReserva /\ Pedido(r) /\ InvPedidos
  BY DEF InvReserva, InvPedidos
<1>2. txPag[r] # LivrePag
  BY DEF GravarCashback, FalharCashback, RecusarResposta, GravarRemocao, GravarFinalizacao, DesfazerPag, LivrePag
<1>3. EmRemocao(x) => txPag[r].op = "remover" /\ txPag[r].oper = x
  BY <1>1, <1>2, SoEste
<1>4. CASE GravarCashback(r)
  <2>1. PICK o \in OperPag : txPag[r].oper = o
    BY <1>1, <1>4, TiposDaTransacao DEF GravarCashback
  <2>2. /\ reserva[o] = "RESERVADA" /\ UNCHANGED reserva /\ ~EmRemocao(x)
        /\ pag' = [pag EXCEPT ![o] = [status |-> "ATIVO", reservado |-> TRUE]]
    BY <1>1, <1>3, <1>4, <2>1 DEF GravarCashback, Pedido
  <2>3. pag'[o].reservado /\ \A y \in OperPag : y # o => pag'[y] = pag[y]
    BY <1>1, <2>2 DEF TypeOKReserva
  <2>4. QED
    BY <1>0, <1>1, <1>4, <2>2, <2>3 DEF CashbackReservado, Comprometida
<1>5. CASE FalharCashback(r)
  <2>1. PICK o \in OperPag : txPag[r].oper = o
    BY <1>1, <1>5, TiposDaTransacao DEF FalharCashback
  <2>2. pag[o].status = "NENHUM" /\ UNCHANGED pag /\ ~EmRemocao(x)
    BY <1>1, <1>3, <1>5, <2>1 DEF FalharCashback, Pedido
  <2>3. \A y \in OperPag : y # o => reserva'[y] = reserva[y]
    <3>1. CASE reserva' = [reserva EXCEPT ![o] = "CANCELADA"]
      BY <1>1, <3>1 DEF TypeOKReserva
    <3>2. QED
      BY <1>5, <2>1, <3>1 DEF FalharCashback
  <2>4. QED
    BY <1>0, <1>1, <1>5, <2>2, <2>3 DEF CashbackReservado
<1>6. CASE RecusarResposta(r)
  BY <1>1, <1>3, <1>6 DEF RecusarResposta, CashbackReservado
<1>7. CASE GravarRemocao(r)
  <2>1. PICK o \in OperPag : txPag[r].oper = o
    BY <1>1, <1>7, TiposDaTransacao DEF GravarRemocao
  <2>2. UNCHANGED reserva /\ pag'[o].status = "REMOVIDO" /\ \A y \in OperPag : y # o => pag'[y] = pag[y]
    BY <1>1, <1>7, <2>1 DEF GravarRemocao, TypeOKReserva
  <2>3. QED
    BY <1>0, <1>1, <1>7, <1>3, <2>1, <2>2 DEF CashbackReservado
<1>8. CASE GravarFinalizacao(r)
  <2>1. UNCHANGED reserva /\ ~EmRemocao(x) /\ pag'[x].status = pag[x].status /\ (pag[x].reservado => pag'[x].reservado)
    BY <1>1, <1>3, <1>8 DEF GravarFinalizacao, TypeOKReserva
  <2>2. QED
    BY <1>0, <1>1, <1>8, <2>1 DEF CashbackReservado
<1>9. CASE DesfazerPag(r)
  <2>1. UNCHANGED <<pag, reserva>> /\ solta \subseteq solta'
    BY <1>9 DEF DesfazerPag
  <2>2. EmRemocao(x) /\ pag[x].reservado => x \in solta'
    <3>1. ASSUME EmRemocao(x) PROVE txPag[r] = [op |-> "remover", oper |-> x]
      BY <1>1, <1>2, <1>3, <3>1 DEF TypeOKReserva, TxPag
    <3>2. QED
      BY <1>9, <3>1 DEF DesfazerPag
  <2>3. QED
    BY <1>1, <2>1, <2>2 DEF CashbackReservado
<1>10. QED
  BY <1>4, <1>5, <1>6, <1>7, <1>8, <1>9

LEMMA CashbackAoConsumir ==
  ASSUME InvReserva, NEW v \in VendaPag, ConsumirReserva(v), NEW x \in OperPag
  PROVE  CashbackReservado(x)'
<1>1. CashbackReservado(x)
  BY DEF InvReserva
<1>2. UNCHANGED <<pag, txPag, solta>> /\ reserva'[x] \in {reserva[x], "CONSUMIDA"}
  BY DEF ConsumirReserva
<1>3. QED
  BY <1>1, <1>2 DEF CashbackReservado, EmRemocao, Comprometida

\* What pays a concluded sale is there and is its own, through lost answers, errors
\* after them, compensations and rollbacks: its payments cover it, its exchange
\* credits are reserved or consumed, and so is its cashback unless a removal of it
\* was undone after the release (cashback_online.py, vales_troca.py, vendas.py).
THEOREM PagamentoGarantidoSempre == SpecReserva => []PagamentoGarantido
<1>1. ASSUME InvReserva, InvPedidos', [NextReserva]_varsReserva PROVE InvReserva'
  <2>1. CASE NextReserva
    <3>1. \A x \in OperPag : CashbackReservado(x)'
      BY <1>1, <2>1, CashbackAoPedir, CashbackAoTerminar, CashbackAoConsumir DEF NextReserva
    <3>2. QED
      BY <1>1, <3>1 DEF InvReserva
  <2>2. CASE UNCHANGED varsReserva
    <3>1. \A x \in OperPag : CashbackReservado(x)'
      BY <1>1, <2>2 DEF InvReserva, CashbackReservado, EmRemocao, varsReserva
    <3>2. QED
      BY <1>1, <3>1 DEF InvReserva
  <2>3. QED
    BY <1>1, <2>1, <2>2
<1>2. InvReserva => PagamentoGarantido
  <2>1. SUFFICES ASSUME InvReserva, NEW o \in OperPag, vendaPag[VendaOper[o]] = "FINALIZADA",
                        pag[o].status = "ATIVO"
                 PROVE  /\ TipoOper[o] = "VALE_TROCA" => reserva[o] \in Comprometida
                        /\ TipoOper[o] = "CASHBACK" => reserva[o] \in Comprometida \/ o \in solta
    BY DEF PagamentoGarantido, PagaComReserva, InvReserva, InvPedidos, Comprometida
  <2>2. CASE TipoOper[o] = "VALE_TROCA"
    BY <2>1, <2>2 DEF InvReserva, InvPedidos, ValeReservado
  <2>3. CASE TipoOper[o] = "CASHBACK"
    <3>1. ~EmRemocao(o)
      BY <2>1 DEF InvReserva, InvPedidos, EmRemocao, Pedido
    <3>2. QED
      BY <2>1, <2>3, <3>1 DEF InvReserva, CashbackReservado
  <2>4. QED
    BY <2>2, <2>3
<1>3. QED
  BY <1>1, <1>2, InvariantePedidos, InvInicialReserva, PTL DEF SpecReserva

============================================================================
