----------------------------- MODULE Numeracao -----------------------------
(***************************************************************************)
(* The numbers of commercial documents: core/services/numeracao_vendas.py  *)
(* and its twin for returns, numeracao_devolucoes.py.  The Central         *)
(* reserves ranges for a store, a hub registers them and the conclusions   *)
(* of sales on its terminals consume them, each inside its transaction;    *)
(* the worker and the commands refill them.  For returns read a company    *)
(* where a store is named.                                                 *)
(***************************************************************************)
EXTENDS Naturals, FiniteSets

CONSTANTS
  Hub,               \* installations, each with its own database
  Terminal,          \* terminals of a hub that conclude documents at once
  Repositor,         \* callers of garantir_faixa_venda_suficiente in a hub
  Loja,              \* stores
  LojaInicial,       \* the store each hub is activated for
  Reposicao,         \* LIMITE_REPOSICAO_PREVENTIVA_VENDA (20 in the code)
  Tamanhos,          \* sizes of the ranges that the Central reserves (100)
  LimiteNumero,      \* LIMITE_NUMERO_VENDA (9999999)
  MaxReativacoes,    \* bound of the model: activations of a hub for another store
  Nada               \* no transaction, no answer

ASSUME Parametros ==
  /\ LojaInicial \in [Hub -> Loja]
  /\ Reposicao \in Nat
  /\ Tamanhos \subseteq Nat \ {0}
  /\ LimiteNumero \in Nat \ {0}
  /\ MaxReativacoes \in Nat

Numero == 1..LimiteNumero

Faixa == [inicio : Numero, fim : Numero]

Documento == [loja : Loja, numero : Numero]

Conclusao == [faixa : Faixa, loja : Loja, numero : Numero]

\* a range the Central answers, and loja_id of the hub object the caller has read
Resposta == [lida : Loja, loja : Loja, inicio : Nat, fim : Nat]

ASSUME NadaDistinto == Nada \notin Conclusao \cup Resposta

VARIABLES
  loja,         \* HubConfig.loja_id
  faixas,       \* rows of FaixaNumeracaoVendaHub
  proximo,      \* proximo_numero of each row
  conclusao,    \* open transactions that have consumed a number
  emitido,      \* documents of the concluded sales
  reposicao,    \* answers of the Central not registered yet
  livre,        \* the Central: first number of a store not reserved yet
  reservas,     \* the Central: every reservation it has made
  reativacoes   \* activations so far

vars == <<loja, faixas, proximo, conclusao, emitido, reposicao, livre, reservas, reativacoes>>

TypeOK ==
  /\ loja \in [Hub -> Loja]
  /\ faixas \in [Hub -> SUBSET Faixa]
  /\ proximo \in [Hub -> [Faixa -> Nat \ {0}]]
  /\ conclusao \in [Hub -> [Terminal -> Conclusao \cup {Nada}]]
  /\ emitido \in [Hub -> SUBSET Documento]
  /\ reposicao \in [Hub -> [Repositor -> Resposta \cup {Nada}]]
  /\ livre \in [Loja -> Nat \ {0}]
  /\ reservas \subseteq [hub : Hub, loja : Loja, inicio : Nat, fim : Nat]
  /\ reativacoes \in 0..MaxReativacoes

Init ==
  /\ loja = LojaInicial
  /\ faixas = [h \in Hub |-> {}]
  /\ proximo = [h \in Hub |-> [f \in Faixa |-> f.inicio]]
  /\ conclusao = [h \in Hub |-> [t \in Terminal |-> Nada]]
  /\ emitido = [h \in Hub |-> {}]
  /\ reposicao = [h \in Hub |-> [r \in Repositor |-> Nada]]
  /\ livre = [l \in Loja |-> 1]
  /\ reservas = {}
  /\ reativacoes = 0

----------------------------------------------------------------------------
(* Conclusions: consumir_documento_venda inside the transaction of finalizar_venda. *)

ComSaldo(h) == {f \in faixas[h] : proximo[h][f] <= f.fim}

\* order_by("inicio", "id").first()
Primeira(h, f) == f \in ComSaldo(h) /\ \A g \in ComSaldo(h) : f.inicio <= g.inicio

\* rows locked by select_for_update
Travadas(h) == {f \in faixas[h] : \E t \in Terminal : conclusao[h][t] # Nada /\ conclusao[h][t].faixa = f}

\* mutant: the range is read without select_for_update
MutConsumirSemTrava(h, t) ==
  /\ conclusao[h][t] = Nada
  /\ \E f \in faixas[h] :
        /\ Primeira(h, f)
        /\ conclusao' = [conclusao EXCEPT ![h][t] =
              [faixa |-> f, loja |-> loja[h], numero |-> proximo[h][f]]]
  /\ UNCHANGED <<loja, faixas, proximo, emitido, reposicao, livre, reservas, reativacoes>>

Consumir(h, t) ==
  /\ conclusao[h][t] = Nada
  /\ \E f \in faixas[h] :
        /\ Primeira(h, f) /\ f \notin Travadas(h)
        /\ conclusao' = [conclusao EXCEPT ![h][t] =
              [faixa |-> f, loja |-> loja[h], numero |-> proximo[h][f]]]
  /\ UNCHANGED <<loja, faixas, proximo, emitido, reposicao, livre, reservas, reativacoes>>

DocumentoDe(c) == [loja |-> c.loja, numero |-> c.numero]

\* the transaction commits; VendaHub.documento is unique
Concluir(h, t) ==
  LET c == conclusao[h][t] IN
  /\ c # Nada
  /\ DocumentoDe(c) \notin emitido[h]
  /\ proximo' = [proximo EXCEPT ![h][c.faixa] = c.numero + 1]
  /\ emitido' = [emitido EXCEPT ![h] = @ \cup {DocumentoDe(c)}]
  /\ conclusao' = [conclusao EXCEPT ![h][t] = Nada]
  /\ UNCHANGED <<loja, faixas, reposicao, livre, reservas, reativacoes>>

\* mutant: the number was taken in a transaction of its own, committed before
MutDesistirConsome(h, t) ==
  /\ conclusao[h][t] # Nada
  /\ proximo' = [proximo EXCEPT ![h][conclusao[h][t].faixa] = conclusao[h][t].numero + 1]
  /\ conclusao' = [conclusao EXCEPT ![h][t] = Nada]
  /\ UNCHANGED <<loja, faixas, emitido, reposicao, livre, reservas, reativacoes>>

\* the transaction rolls back: an error after the number was taken, or a crash
Desistir(h, t) ==
  /\ conclusao[h][t] # Nada
  /\ conclusao' = [conclusao EXCEPT ![h][t] = Nada]
  /\ UNCHANGED <<loja, faixas, proximo, emitido, reposicao, livre, reservas, reativacoes>>

----------------------------------------------------------------------------
(* Refill: garantir_faixa_venda_suficiente. *)

\* numeros_disponiveis_venda (the ranges of a hub are disjoint)
Disponiveis(h) == Cardinality(UNION {proximo[h][f] .. f.fim : f \in faixas[h]})

\* The Central answers a new range, or one it has answered before; its store is not
\* always the one the caller has read.
ReservarNova(h, r, l, tamanho) ==
  LET fim == livre[l] + tamanho - 1 IN
  /\ reposicao[h][r] = Nada
  /\ Disponiveis(h) <= Reposicao
  /\ livre[l] <= LimiteNumero
  /\ livre' = [livre EXCEPT ![l] = fim + 1]
  /\ reservas' = reservas \cup {[hub |-> h, loja |-> l, inicio |-> livre[l], fim |-> fim]}
  /\ reposicao' = [reposicao EXCEPT ![h][r] =
        [lida |-> loja[h], loja |-> l, inicio |-> livre[l], fim |-> fim]]
  /\ UNCHANGED <<loja, faixas, proximo, conclusao, emitido, reativacoes>>

ReservarRepetida(h, r, s) ==
  /\ reposicao[h][r] = Nada
  /\ Disponiveis(h) <= Reposicao
  /\ s.hub = h
  /\ reposicao' = [reposicao EXCEPT ![h][r] =
        [lida |-> loja[h], loja |-> s.loja, inicio |-> s.inicio, fim |-> s.fim]]
  /\ UNCHANGED <<loja, faixas, proximo, conclusao, emitido, livre, reservas, reativacoes>>

\* mutants: the limit of the numbers, the store of the range are not checked
MutAceitaSemLimite(p) == p.loja = p.lida /\ p.inicio \in 1..p.fim

MutAceitaOutraLoja(p) == p.inicio \in 1..p.fim /\ p.fim <= LimiteNumero

\* _validar_payload_faixa, with the hub object read before the request
Aceita(p) == p.loja = p.lida /\ p.inicio \in 1..p.fim /\ p.fim <= LimiteNumero

\* fim__gte=inicio, inicio__lte=fim
Sobrepoe(f, g) == f.inicio <= g.fim /\ g.inicio <= f.fim

\* registrar_faixa_venda_hub: a range already registered is left as it is
Registrar(h, r) ==
  LET p == reposicao[h][r]
      f == [inicio |-> p.inicio, fim |-> p.fim]
  IN
  /\ p # Nada
  /\ Aceita(p)
  /\ \A g \in Travadas(h) : ~Sobrepoe(f, g)
  /\ f \notin faixas[h] => \A g \in faixas[h] : ~Sobrepoe(f, g)
  /\ faixas' = [faixas EXCEPT ![h] = @ \cup {f}]
  /\ proximo' = IF f \in faixas[h] THEN proximo ELSE [proximo EXCEPT ![h][f] = f.inicio]
  /\ reposicao' = [reposicao EXCEPT ![h][r] = Nada]
  /\ UNCHANGED <<loja, conclusao, emitido, livre, reservas, reativacoes>>

\* tentar_repor_faixa_venda gives up: a lost answer, or a range refused
Abandonar(h, r) ==
  /\ reposicao[h][r] # Nada
  /\ reposicao' = [reposicao EXCEPT ![h][r] = Nada]
  /\ UNCHANGED <<loja, faixas, proximo, conclusao, emitido, livre, reservas, reativacoes>>

\* ativar_hub_local for another store: the ranges stay
Reativar(h, l) ==
  /\ reativacoes < MaxReativacoes
  /\ l # loja[h]
  /\ loja' = [loja EXCEPT ![h] = l]
  /\ reativacoes' = reativacoes + 1
  /\ UNCHANGED <<faixas, proximo, conclusao, emitido, reposicao, livre, reservas>>

----------------------------------------------------------------------------

Concluindo(h, t) == Consumir(h, t) \/ Concluir(h, t) \/ Desistir(h, t)

Repondo(h, r) ==
  \/ \E l \in Loja, tamanho \in Tamanhos : ReservarNova(h, r, l, tamanho)
  \/ \E s \in reservas : ReservarRepetida(h, r, s)
  \/ Registrar(h, r)
  \/ Abandonar(h, r)

Next ==
  \E h \in Hub : \/ \E t \in Terminal : Concluindo(h, t)
                 \/ \E r \in Repositor : Repondo(h, r)
                 \/ \E l \in Loja : Reativar(h, l)

Spec == Init /\ [][Next]_vars

----------------------------------------------------------------------------
(* Safety. *)

\* While no hub changes its store, no document has the number of another of its store,
\* in whatever hub: neither the concluded ones nor the ones that open transactions hold,
\* which VendaHub.documento (unique) would refuse to one of them.
DocumentoUnico ==
  reativacoes = 0 =>
  \A h, k \in Hub :
     /\ h # k => emitido[h] \cap emitido[k] = {}
     /\ \A t \in Terminal : conclusao[h][t] # Nada =>
           /\ DocumentoDe(conclusao[h][t]) \notin emitido[k]
           /\ \A u \in Terminal :
                 /\ conclusao[k][u] # Nada
                 /\ DocumentoDe(conclusao[h][t]) = DocumentoDe(conclusao[k][u])
                 => h = k /\ t = u

\* The numbers of a range are issued in order and without gaps, whatever rolls back,
\* arrives again or is activated meanwhile: the issued ones are those before
\* proximo_numero.
SemBuraco ==
  \A h \in Hub : \A f \in faixas[h] :
     {d.numero : d \in emitido[h]} \cap (f.inicio .. f.fim) = f.inicio .. (proximo[h][f] - 1)

\* A document is numbered from a range that the Central reserved for its store:
\* "Faixa de vendas pertence a outra loja." is the refusal of any other.
DocumentoDaLoja ==
  \A h \in Hub : \A d \in emitido[h] :
     \E s \in reservas : s.hub = h /\ s.loja = d.loja /\ d.numero \in s.inicio .. s.fim

(* The inductive invariants behind them. *)

\* The ranges of a hub are disjoint and cover every number it has issued; a number
\* held by an open transaction is the next of its range, and no other has that range.
Livro ==
  \A h \in Hub :
     /\ \A f, g \in faixas[h] : Sobrepoe(f, g) => f = g
     /\ \A f \in faixas[h] : proximo[h][f] \in f.inicio .. (f.fim + 1)
     /\ \A d \in emitido[h] : \E f \in faixas[h] : d.numero \in f.inicio .. f.fim
     /\ \A t \in Terminal : conclusao[h][t] # Nada =>
           /\ conclusao[h][t].faixa \in faixas[h]
           /\ conclusao[h][t].numero = proximo[h][conclusao[h][t].faixa]
           /\ conclusao[h][t].numero <= conclusao[h][t].faixa.fim
     /\ \A t, u \in Terminal :
           /\ conclusao[h][t] # Nada /\ conclusao[h][u] # Nada
           /\ conclusao[h][t].faixa = conclusao[h][u].faixa
           => t = u

\* While no hub changes its store, its ranges are reservations of that store.
Origem ==
  /\ \A s \in reservas : s.fim < livre[s.loja]
  /\ \A s, z \in reservas : s.loja = z.loja /\ Sobrepoe(s, z) => s = z
  /\ \A h \in Hub :
        /\ \A f \in faixas[h] : [hub |-> h, loja |-> loja[h], inicio |-> f.inicio, fim |-> f.fim] \in reservas
        /\ \A r \in Repositor : reposicao[h][r] # Nada =>
              /\ reposicao[h][r].lida = loja[h]
              /\ [hub |-> h, loja |-> reposicao[h][r].loja, inicio |-> reposicao[h][r].inicio,
                  fim |-> reposicao[h][r].fim] \in reservas
        /\ \A t \in Terminal : conclusao[h][t] # Nada => conclusao[h][t].loja = loja[h]
        /\ \A d \in emitido[h] : d.loja = loja[h]

============================================================================
