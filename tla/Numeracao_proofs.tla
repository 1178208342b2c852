-------------------------- MODULE Numeracao_proofs --------------------------
(***************************************************************************)
(* Proofs about Numeracao, for any hubs, terminals, callers and stores.    *)
(*                                                                         *)
(* SemBuraco holds whatever is activated; it is inductive together with    *)
(* Livro, which says that the ranges of a hub are disjoint and cover what  *)
(* it has issued.  DocumentoUnico and DocumentoDaLoja hold while no hub is *)
(* activated for another store and rest on Origem: the ranges of a hub are *)
(* reservations of its store.                                              *)
(***************************************************************************)
EXTENDS Numeracao, TLAPS

\* Every variable keeps its type (rows, open transactions, answers, reservations).
THEOREM TipoCorreto == Spec => []TypeOK
<1>1. Init => TypeOK
  <2> SUFFICES ASSUME Init PROVE TypeOK
    OBVIOUS
  <2>1. proximo \in [Hub -> [Faixa -> Nat \ {0}]]
    BY DEF Init, Faixa, Numero
  <2>2. loja \in [Hub -> Loja] /\ reativacoes \in 0..MaxReativacoes
    BY Parametros DEF Init
  <2>3. QED
    BY <2>1, <2>2 DEF Init, TypeOK
<1>2. TypeOK /\ [Next]_vars => TypeOK'
  <2> SUFFICES ASSUME TypeOK, [Next]_vars PROVE TypeOK'
    OBVIOUS
  <2> USE DEF TypeOK
  <2>1. ASSUME NEW h \in Hub, NEW t \in Terminal, Consumir(h, t) PROVE TypeOK'
    <3>1. PICK f \in faixas[h] : /\ Primeira(h, f)
                                 /\ conclusao' = [conclusao EXCEPT ![h][t] =
                                      [faixa |-> f, loja |-> loja[h], numero |-> proximo[h][f]]]
      BY <2>1 DEF Consumir
    <3> DEFINE c == [faixa |-> f, loja |-> loja[h], numero |-> proximo[h][f]]
    <3>2. f \in Faixa
      OBVIOUS
    <3>3. proximo[h][f] \in Numero
      <4>1. proximo[h][f] \in Nat \ {0} /\ f.fim \in Numero
        BY <3>2 DEF Faixa
      <4>2. proximo[h][f] <= f.fim
        BY <3>1 DEF Primeira, ComSaldo
      <4>3. QED
        BY <4>1, <4>2, Parametros DEF Numero
    <3>4. c \in Conclusao
      BY <3>2, <3>3 DEF Conclusao
    <3>5. conclusao' = [conclusao EXCEPT ![h][t] = c]
      BY <3>1
    <3> HIDE DEF c
    <3>6. conclusao' \in [Hub -> [Terminal -> Conclusao \cup {Nada}]]
      BY <3>4, <3>5
    <3>7. QED
      BY <2>1, <3>6 DEF Consumir
  <2>2. ASSUME NEW h \in Hub, NEW t \in Terminal, Concluir(h, t) PROVE TypeOK'
    <3>1. conclusao[h][t] \in Conclusao
      BY <2>2 DEF Concluir
    <3>2. /\ DocumentoDe(conclusao[h][t]) \in Documento
          /\ conclusao[h][t].faixa \in Faixa
          /\ conclusao[h][t].numero + 1 \in Nat \ {0}
      BY <3>1 DEF Conclusao, Documento, DocumentoDe, Numero
    <3>3. /\ proximo' \in [Hub -> [Faixa -> Nat \ {0}]]
          /\ emitido' \in [Hub -> SUBSET Documento]
          /\ conclusao' \in [Hub -> [Terminal -> Conclusao \cup {Nada}]]
      BY <2>2, <3>2 DEF Concluir
    <3>4. QED
      BY <2>2, <3>3 DEF Concluir
  <2>3. ASSUME NEW h \in Hub, NEW t \in Terminal, Desistir(h, t) PROVE TypeOK'
    BY <2>3 DEF Desistir
  <2>4. ASSUME NEW h \in Hub, NEW r \in Repositor, NEW l \in Loja, NEW tamanho \in Tamanhos,
               ReservarNova(h, r, l, tamanho)
        PROVE  TypeOK'
    <3>1. livre[l] \in Nat \ {0} /\ tamanho \in Nat \ {0} /\ livre[l] + tamanho - 1 \in Nat \ {0}
      BY Parametros
    <3>2. [lida |-> loja[h], loja |-> l, inicio |-> livre[l], fim |-> livre[l] + tamanho - 1] \in Resposta
      BY <3>1 DEF Resposta
    <3>3. reposicao' \in [Hub -> [Repositor -> Resposta \cup {Nada}]]
      BY <2>4, <3>2 DEF ReservarNova
    <3>4. livre' \in [Loja -> Nat \ {0}]
      BY <2>4, <3>1 DEF ReservarNova
    <3>5. reservas' \subseteq [hub : Hub, loja : Loja, inicio : Nat, fim : Nat]
      BY <2>4, <3>1 DEF ReservarNova
    <3>6. QED
      BY <2>4, <3>3, <3>4, <3>5 DEF ReservarNova
  <2>5. ASSUME NEW h \in Hub, NEW r \in Repositor, NEW s \in reservas, ReservarRepetida(h, r, s)
        PROVE  TypeOK'
    <3>1. [lida |-> loja[h], loja |-> s.loja, inicio |-> s.inicio, fim |-> s.fim] \in Resposta
      BY DEF Resposta
    <3>2. reposicao' \in [Hub -> [Repositor -> Resposta \cup {Nada}]]
      BY <2>5, <3>1 DEF ReservarRepetida
    <3>3. QED
      BY <2>5, <3>2 DEF ReservarRepetida
  <2>6. ASSUME NEW h \in Hub, NEW r \in Repositor, Registrar(h, r) PROVE TypeOK'
    <3> DEFINE p == reposicao[h][r]
               f == [inicio |-> p.inicio, fim |-> p.fim]
    <3>1. p \in Resposta /\ Aceita(p)
      BY <2>6 DEF Registrar
    <3>2. f \in Faixa /\ f.inicio \in Nat \ {0}
      BY <3>1, Parametros DEF Aceita, Resposta, Faixa, Numero
    <3>3. faixas' = [faixas EXCEPT ![h] = @ \cup {f}]
      BY <2>6 DEF Registrar
    <3>4. proximo' = IF f \in faixas[h] THEN proximo ELSE [proximo EXCEPT ![h][f] = f.inicio]
      BY <2>6 DEF Registrar
    <3>5. reposicao' = [reposicao EXCEPT ![h][r] = Nada]
      BY <2>6 DEF Registrar
    <3> HIDE DEF f, p
    <3>6. faixas' \in [Hub -> SUBSET Faixa]
      BY <3>2, <3>3
    <3>7. proximo' \in [Hub -> [Faixa -> Nat \ {0}]]
      BY <3>2, <3>4
    <3>8. reposicao' \in [Hub -> [Repositor -> Resposta \cup {Nada}]]
      BY <3>5
    <3>9. QED
      BY <2>6, <3>6, <3>7, <3>8 DEF Registrar
  <2>7. ASSUME NEW h \in Hub, NEW r \in Repositor, Abandonar(h, r) PROVE TypeOK'
    BY <2>7 DEF Abandonar
  <2>8. ASSUME NEW h \in Hub, NEW l \in Loja, Reativar(h, l) PROVE TypeOK'
    BY <2>8, Parametros DEF Reativar
  <2>9. CASE UNCHANGED vars
    BY <2>9 DEF vars
  <2>10. QED
    BY <2>1, <2>2, <2>3, <2>4, <2>5, <2>6, <2>7, <2>8, <2>9 DEF Next, Concluindo, Repondo
<1>3. QED
  BY <1>1, <1>2, PTL DEF Spec
----------------------------------------------------------------------------
(* The ranges of one hub, whatever it is activated for. *)

LivroSemBuraco == Livro /\ SemBuraco

LEMMA LivroInicio == Init => LivroSemBuraco
BY DEF Init, LivroSemBuraco, Livro, SemBuraco

\* The facts of a hub that a step on another hub, or on what Livro does not mention,
\* leaves alone.
LEMMA LivroIgual ==
  ASSUME LivroSemBuraco,
         UNCHANGED <<faixas, proximo, emitido>>,
         \A h \in Hub, t \in Terminal : conclusao'[h][t] \in {conclusao[h][t], Nada}
  PROVE  LivroSemBuraco'
<1>1. SemBuraco'
  BY DEF LivroSemBuraco, SemBuraco
<1>2. Livro'
  BY DEF LivroSemBuraco, Livro
<1>3. QED
  BY <1>1, <1>2 DEF LivroSemBuraco

LEMMA LivroConsumir ==
  ASSUME TypeOK, TypeOK', LivroSemBuraco, NEW h \in Hub, NEW t \in Terminal, Consumir(h, t)
  PROVE  LivroSemBuraco'
<1>1. PICK f \in faixas[h] : /\ Primeira(h, f) /\ f \notin Travadas(h)
                             /\ conclusao' = [conclusao EXCEPT ![h][t] =
                                  [faixa |-> f, loja |-> loja[h], numero |-> proximo[h][f]]]
  BY DEF Consumir
<1>2. UNCHANGED <<faixas, proximo, emitido>>
  BY DEF Consumir
<1>3. /\ conclusao'[h][t] = [faixa |-> f, loja |-> loja[h], numero |-> proximo[h][f]]
      /\ \A k \in Hub, u \in Terminal : k # h \/ u # t => conclusao'[k][u] = conclusao[k][u]
  BY <1>1 DEF TypeOK
<1>4. proximo[h][f] <= f.fim
  BY <1>1 DEF Primeira, ComSaldo
<1>5. \A u \in Terminal : conclusao[h][u] # Nada => conclusao[h][u].faixa # f
  BY <1>1 DEF Travadas
<1>6. SemBuraco'
  BY <1>2 DEF LivroSemBuraco, SemBuraco
<1>7. ASSUME NEW k \in Hub, NEW u \in Terminal, conclusao'[k][u] # Nada
      PROVE  /\ conclusao'[k][u].faixa \in faixas'[k]
             /\ conclusao'[k][u].numero = proximo'[k][conclusao'[k][u].faixa]
             /\ conclusao'[k][u].numero <= conclusao'[k][u].faixa.fim
  <2>1. CASE k = h /\ u = t
    BY <2>1, <1>2, <1>3, <1>4
  <2>2. CASE k # h \/ u # t
    BY <2>2, <1>2, <1>3, <1>7 DEF LivroSemBuraco, Livro
  <2>3. QED
    BY <2>1, <2>2
<1>8. ASSUME NEW k \in Hub, NEW u \in Terminal, NEW w \in Terminal,
             conclusao'[k][u] # Nada, conclusao'[k][w] # Nada,
             conclusao'[k][u].faixa = conclusao'[k][w].faixa
      PROVE  u = w
  <2>1. CASE k = h /\ (u = t \/ w = t)
    BY <2>1, <1>3, <1>5, <1>8
  <2>2. CASE k # h \/ (u # t /\ w # t)
    BY <2>2, <1>3, <1>8 DEF LivroSemBuraco, Livro
  <2>3. QED
    BY <2>1, <2>2
<1>9. Livro'
  BY <1>2, <1>7, <1>8 DEF LivroSemBuraco, Livro
<1>10. QED
  BY <1>6, <1>9 DEF LivroSemBuraco

LEMMA LivroConcluir ==
  ASSUME TypeOK, TypeOK', LivroSemBuraco, NEW h \in Hub, NEW t \in Terminal, Concluir(h, t)
  PROVE  LivroSemBuraco'
<1> DEFINE c == conclusao[h][t]
           n == c.numero
           g == c.faixa
<1>1. /\ c # Nada /\ c \in Conclusao
      /\ g \in faixas[h] /\ n = proximo[h][g] /\ n <= g.fim
      /\ n \in g.inicio .. (g.fim + 1)
  BY DEF Concluir, TypeOK, LivroSemBuraco, Livro
<1>2. /\ g \in Faixa /\ n \in Nat /\ g.inicio \in Nat /\ g.fim \in Nat
  BY <1>1 DEF Conclusao, Faixa, Numero
<1>3. /\ proximo' = [proximo EXCEPT ![h][g] = n + 1]
      /\ emitido' = [emitido EXCEPT ![h] = @ \cup {DocumentoDe(c)}]
      /\ conclusao' = [conclusao EXCEPT ![h][t] = Nada]
      /\ faixas' = faixas
  BY DEF Concluir
<1>4. /\ \A k \in Hub : k # h => proximo'[k] = proximo[k] /\ emitido'[k] = emitido[k]
      /\ proximo'[h][g] = n + 1
      /\ \A f \in Faixa : f # g => proximo'[h][f] = proximo[h][f]
      /\ emitido'[h] = emitido[h] \cup {DocumentoDe(c)}
      /\ conclusao'[h][t] = Nada
      /\ \A k \in Hub, u \in Terminal : k # h \/ u # t => conclusao'[k][u] = conclusao[k][u]
  <2> HIDE DEF n, g
  <2>1. QED
    BY <1>2, <1>3 DEF TypeOK
<1>5. DocumentoDe(c).numero = n
  BY DEF DocumentoDe
<1>6. \A k \in Hub : faixas[k] \subseteq Faixa
  BY DEF TypeOK
<1> HIDE DEF c, n, g
<1>7. ASSUME NEW k \in Hub, NEW f \in faixas[k]
      PROVE  {d.numero : d \in emitido'[k]} \cap (f.inicio .. f.fim) = f.inicio .. (proximo'[k][f] - 1)
  <2>0. {d.numero : d \in emitido[k]} \cap (f.inicio .. f.fim) = f.inicio .. (proximo[k][f] - 1)
    BY DEF LivroSemBuraco, SemBuraco
  <2>1. CASE k # h
    BY <2>0, <2>1, <1>4
  <2>2. CASE k = h /\ f = g
    <3>1. {d.numero : d \in emitido'[h]} = {d.numero : d \in emitido[h]} \cup {n}
      BY <1>4, <1>5
    <3>2. {d.numero : d \in emitido[h]} \cap (g.inicio .. g.fim) = g.inicio .. (n - 1)
      BY <2>0, <2>2, <1>1
    <3>3. n \in g.inicio .. g.fim
      BY <1>1, <1>2
    <3>4. g.inicio .. n = (g.inicio .. (n - 1)) \cup {n}
      BY <1>2, <3>3
    <3>5. {d.numero : d \in emitido'[h]} \cap (g.inicio .. g.fim) = g.inicio .. n
      BY <3>1, <3>2, <3>3, <3>4
    <3>6. proximo'[h][g] - 1 = n
      BY <1>2, <1>4
    <3>7. {d.numero : d \in emitido'[h]} \cap (g.inicio .. g.fim) = g.inicio .. (proximo'[h][g] - 1)
      BY <3>5, <3>6
    <3>8. QED
      BY <2>2, <3>7
  <2>3. CASE k = h /\ f # g
    <3>1. {d.numero : d \in emitido'[h]} = {d.numero : d \in emitido[h]} \cup {n}
      BY <1>4, <1>5
    <3>2. f \in Faixa /\ f.inicio \in Nat /\ f.fim \in Nat
      BY <1>6 DEF Faixa, Numero
    <3>3. n \notin f.inicio .. f.fim
      <4>1. ~Sobrepoe(f, g)
        BY <2>3, <1>1 DEF LivroSemBuraco, Livro
      <4>2. QED
        BY <4>1, <3>2, <1>1, <1>2 DEF Sobrepoe
    <3>4. QED
      BY <2>0, <2>3, <3>1, <3>2, <3>3, <1>4
  <2>4. QED
    BY <2>1, <2>2, <2>3
<1>8. SemBuraco'
  BY <1>3, <1>7 DEF SemBuraco
<1>9. ASSUME NEW k \in Hub, NEW f \in faixas[k] PROVE proximo'[k][f] \in f.inicio .. (f.fim + 1)
  <2>1. CASE k = h /\ f = g
    BY <2>1, <1>1, <1>2, <1>4
  <2>2. CASE k # h \/ f # g
    <3>1. proximo'[k][f] = proximo[k][f]
      BY <2>2, <1>4, <1>6
    <3>2. QED
      BY <3>1 DEF LivroSemBuraco, Livro
  <2>3. QED
    BY <2>1, <2>2
<1>10. ASSUME NEW k \in Hub, NEW d \in emitido'[k] PROVE \E f \in faixas[k] : d.numero \in f.inicio .. f.fim
  <2>1. CASE d \in emitido[k]
    BY <2>1 DEF LivroSemBuraco, Livro
  <2>2. CASE d \notin emitido[k]
    <3>1. k = h /\ d.numero = n
      BY <2>2, <1>4, <1>5
    <3>2. QED
      BY <3>1, <1>1, <1>2
  <2>3. QED
    BY <2>1, <2>2
<1>11. ASSUME NEW k \in Hub, NEW u \in Terminal, conclusao'[k][u] # Nada
       PROVE  /\ conclusao'[k][u] = conclusao[k][u]
              /\ proximo'[k][conclusao[k][u].faixa] = proximo[k][conclusao[k][u].faixa]
  <2>1. (k # h \/ u # t) /\ conclusao'[k][u] = conclusao[k][u]
    BY <1>4, <1>11
  <2>2. CASE k # h
    BY <2>1, <2>2, <1>4
  <2>3. CASE k = h
    <3>1. conclusao[h][u] # Nada /\ conclusao[h][t] # Nada /\ u # t
      BY <2>1, <2>3, <1>1, <1>11 DEF c
    <3>2. conclusao[h][u].faixa \in faixas[h] /\ conclusao[h][u].faixa # conclusao[h][t].faixa
      BY <3>1 DEF LivroSemBuraco, Livro
    <3>3. g = conclusao[h][t].faixa
      BY DEF g, c
    <3>4. QED
      BY <2>1, <2>3, <3>2, <3>3, <1>4, <1>6
  <2>4. QED
    BY <2>2, <2>3
<1>12. Livro'
  BY <1>3, <1>9, <1>10, <1>11 DEF LivroSemBuraco, Livro
<1>13. QED
  BY <1>8, <1>12 DEF LivroSemBuraco

LEMMA LivroRegistrar ==
  ASSUME TypeOK, TypeOK', LivroSemBuraco, NEW h \in Hub, NEW r \in Repositor, Registrar(h, r)
  PROVE  LivroSemBuraco'
<1> DEFINE p == reposicao[h][r]
           f == [inicio |-> p.inicio, fim |-> p.fim]
<1>1. p \in Resposta /\ Aceita(p)
  BY DEF Registrar, TypeOK
<1>2. f \in Faixa /\ f.inicio \in Nat \ {0} /\ f.fim \in Nat /\ f.inicio <= f.fim
  BY <1>1, Parametros DEF Aceita, Resposta, Faixa, Numero
<1>3. /\ f \notin faixas[h] => \A g \in faixas[h] : ~Sobrepoe(f, g)
      /\ faixas' = [faixas EXCEPT ![h] = @ \cup {f}]
      /\ proximo' = IF f \in faixas[h] THEN proximo ELSE [proximo EXCEPT ![h][f] = f.inicio]
      /\ conclusao' = conclusao /\ emitido' = emitido
  BY DEF Registrar
<1> HIDE DEF p, f
<1>4. CASE f \in faixas[h]
  <2>1. faixas' = faixas /\ proximo' = proximo
    BY <1>3, <1>4 DEF TypeOK
  <2>2. QED
    BY <2>1, <1>3, LivroIgual
<1>5. CASE f \notin faixas[h]
  <2>1. /\ \A k \in Hub : k # h => faixas'[k] = faixas[k] /\ proximo'[k] = proximo[k]
        /\ faixas'[h] = faixas[h] \cup {f}
        /\ proximo'[h][f] = f.inicio
        /\ \A g \in Faixa : g # f => proximo'[h][g] = proximo[h][g]
    BY <1>2, <1>3, <1>5 DEF TypeOK
  <2>2. /\ \A k \in Hub : faixas[k] \subseteq Faixa
        /\ \A g \in Faixa : g.inicio \in Nat /\ g.fim \in Nat
    BY DEF TypeOK, Faixa, Numero
  <2>3. ASSUME NEW k \in Hub, NEW g \in faixas'[k]
        PROVE  \/ k = h /\ g = f
               \/ g \in faixas[k] /\ proximo'[k][g] = proximo[k][g]
    BY <2>1, <2>2, <1>5
  <2>4. \A g \in faixas[h] : ~Sobrepoe(f, g) /\ ~Sobrepoe(g, f)
    BY <1>3, <1>5 DEF Sobrepoe
  <2>5. ASSUME NEW k \in Hub, NEW g \in faixas'[k], NEW j \in faixas'[k], Sobrepoe(g, j) PROVE g = j
    <3>1. CASE k # h
      BY <3>1, <2>1, <2>5 DEF LivroSemBuraco, Livro
    <3>2. CASE k = h /\ g \in faixas[h] /\ j \in faixas[h]
      BY <3>2, <2>5 DEF LivroSemBuraco, Livro
    <3>3. CASE k = h /\ (g = f \/ j = f)
      BY <3>3, <2>1, <2>4, <2>5
    <3>4. QED
      BY <3>1, <3>2, <3>3, <2>1
  <2>6. ASSUME NEW k \in Hub, NEW g \in faixas'[k] PROVE proximo'[k][g] \in g.inicio .. (g.fim + 1)
    <3>1. CASE k = h /\ g = f
      BY <3>1, <2>1, <1>2
    <3>2. CASE g \in faixas[k] /\ proximo'[k][g] = proximo[k][g]
      BY <3>2 DEF LivroSemBuraco, Livro
    <3>3. QED
      BY <3>1, <3>2, <2>3
  <2>7. ASSUME NEW k \in Hub, NEW g \in faixas'[k]
        PROVE  {d.numero : d \in emitido[k]} \cap (g.inicio .. g.fim) = g.inicio .. (proximo'[k][g] - 1)
    <3>1. CASE k = h /\ g = f
      <4>1. ASSUME NEW d \in emitido[h] PROVE d.numero \notin f.inicio .. f.fim
        <5>1. PICK j \in faixas[h] : d.numero \in j.inicio .. j.fim
          BY DEF LivroSemBuraco, Livro
        <5>2. ~(f.inicio <= j.fim /\ j.inicio <= f.fim)
          BY <2>4 DEF Sobrepoe
        <5>3. j \in Faixa
          BY <2>2
        <5>4. j.inicio \in Nat /\ j.fim \in Nat
          BY <5>3, <2>2
        <5>5. QED
          BY <5>1, <5>2, <5>4, <1>2
      <4>2. {d.numero : d \in emitido[h]} \cap (f.inicio .. f.fim) = {}
        BY <4>1
      <4>3. f.inicio .. (f.inicio - 1) = {}
        BY <1>2
      <4>4. QED
        BY <3>1, <4>2, <4>3, <2>1
    <3>2. CASE g \in faixas[k] /\ proximo'[k][g] = proximo[k][g]
      BY <3>2 DEF LivroSemBuraco, SemBuraco
    <3>3. QED
      BY <3>1, <3>2, <2>3
  <2>8. SemBuraco'
    BY <2>7, <1>3 DEF SemBuraco
  <2>9. ASSUME NEW k \in Hub, NEW u \in Terminal, conclusao[k][u] # Nada
        PROVE  /\ conclusao[k][u].faixa \in faixas'[k]
               /\ conclusao[k][u].numero = proximo'[k][conclusao[k][u].faixa]
    <3>1. /\ conclusao[k][u].faixa \in faixas[k]
          /\ conclusao[k][u].numero = proximo[k][conclusao[k][u].faixa]
      BY <2>9 DEF LivroSemBuraco, Livro
    <3>2. CASE k # h
      BY <3>1, <3>2, <2>1
    <3>3. CASE k = h
      BY <3>1, <3>3, <2>1, <2>2, <1>5
    <3>4. QED
      BY <3>2, <3>3
  <2>10. \A k \in Hub : faixas[k] \subseteq faixas'[k]
    BY <2>1
  <2>11. Livro'
    BY <2>5, <2>6, <2>9, <2>10, <1>3 DEF LivroSemBuraco, Livro
  <2>12. QED
    BY <2>8, <2>11 DEF LivroSemBuraco
<1>6. QED
  BY <1>4, <1>5

LEMMA LivroPasso ==
  ASSUME TypeOK, TypeOK', LivroSemBuraco, [Next]_vars
  PROVE  LivroSemBuraco'
<1>1. ASSUME NEW h \in Hub, NEW t \in Terminal, Desistir(h, t) PROVE LivroSemBuraco'
  <2>1. \A k \in Hub, u \in Terminal : conclusao'[k][u] \in {conclusao[k][u], Nada}
    BY <1>1 DEF Desistir, TypeOK
  <2>2. QED
    BY <1>1, <2>1, LivroIgual DEF Desistir
<1>2. ASSUME UNCHANGED <<faixas, proximo, emitido, conclusao>> PROVE LivroSemBuraco'
  BY <1>2, LivroIgual
<1>3. ASSUME NEW h \in Hub, NEW r \in Repositor, Repondo(h, r) PROVE LivroSemBuraco'
  BY <1>2, <1>3, LivroRegistrar DEF Repondo, ReservarNova, ReservarRepetida, Abandonar
<1>4. ASSUME NEW h \in Hub, NEW l \in Loja, Reativar(h, l) PROVE LivroSemBuraco'
  BY <1>2, <1>4 DEF Reativar
<1>5. CASE UNCHANGED vars
  BY <1>2, <1>5 DEF vars
<1>6. QED
  BY <1>1, <1>3, <1>4, <1>5, LivroConsumir, LivroConcluir DEF Next, Concluindo

\* The inductive invariant: the ranges of a hub are disjoint, cover what it has issued,
\* and are consumed by one transaction at a time.
THEOREM LivroVale == Spec => [](Livro /\ SemBuraco)
<1>1. TypeOK /\ TypeOK' /\ LivroSemBuraco /\ [Next]_vars => LivroSemBuraco'
  BY LivroPasso
<1>2. Spec => []LivroSemBuraco
  BY <1>1, LivroInicio, TipoCorreto, PTL DEF Spec
<1>3. QED
  BY <1>2, PTL DEF LivroSemBuraco

\* The numbers of every range are issued in order and without gaps: a rollback gives
\* the number back and a range that arrives again is left as it is.
THEOREM SemBuracoVale == Spec => []SemBuraco
BY LivroVale, PTL

----------------------------------------------------------------------------
(* Documents of one store on several hubs, when no hub changes its store. *)

LEMMA OrigemReservarNova ==
  ASSUME TypeOK, Origem, NEW h \in Hub, NEW r \in Repositor, NEW l \in Loja, NEW tamanho \in Tamanhos,
         ReservarNova(h, r, l, tamanho)
  PROVE  Origem'
<1> DEFINE fim == livre[l] + tamanho - 1
           nova == [hub |-> h, loja |-> l, inicio |-> livre[l], fim |-> fim]
           resposta == [lida |-> loja[h], loja |-> l, inicio |-> livre[l], fim |-> fim]
<1>1. livre[l] \in Nat \ {0} /\ tamanho \in Nat \ {0} /\ fim \in Nat /\ livre[l] <= fim
  BY Parametros DEF TypeOK
<1>2. /\ livre' = [livre EXCEPT ![l] = fim + 1]
      /\ reservas' = reservas \cup {nova}
      /\ reposicao' = [reposicao EXCEPT ![h][r] = resposta]
      /\ UNCHANGED <<loja, faixas, conclusao, emitido>>
  BY DEF ReservarNova
<1>3. /\ nova.hub = h /\ nova.loja = l /\ nova.inicio = livre[l] /\ nova.fim = fim
      /\ resposta.lida = loja[h] /\ resposta.loja = l /\ resposta.inicio = livre[l] /\ resposta.fim = fim
  OBVIOUS
<1>a. nova = [hub |-> h, loja |-> resposta.loja, inicio |-> resposta.inicio, fim |-> resposta.fim]
  OBVIOUS
<1> HIDE DEF fim, nova, resposta
<1>4. /\ livre'[l] = fim + 1
      /\ \A m \in Loja : m # l => livre'[m] = livre[m]
  BY <1>1, <1>2 DEF TypeOK
<1>5. ASSUME NEW s \in reservas PROVE s.loja \in Loja /\ s.inicio \in Nat /\ s.fim \in Nat /\ s.fim < livre[s.loja]
  BY DEF TypeOK, Origem
<1>6. ASSUME NEW s \in reservas' PROVE s.fim < livre'[s.loja]
  <2>1. CASE s = nova
    BY <2>1, <1>1, <1>3, <1>4
  <2>2. CASE s \in reservas /\ s.loja = l
    BY <2>2, <1>1, <1>4, <1>5
  <2>3. CASE s \in reservas /\ s.loja # l
    BY <2>3, <1>4, <1>5
  <2>4. QED
    BY <2>1, <2>2, <2>3, <1>2
<1>7. ASSUME NEW s \in reservas, s.loja = l PROVE ~Sobrepoe(s, nova) /\ ~Sobrepoe(nova, s)
  BY <1>1, <1>3, <1>5, <1>7 DEF Sobrepoe
<1>8. ASSUME NEW s \in reservas', NEW z \in reservas', s.loja = z.loja, Sobrepoe(s, z) PROVE s = z
  <2>1. CASE s \in reservas /\ z \in reservas
    BY <2>1, <1>8 DEF Origem
  <2>2. CASE s = nova \/ z = nova
    BY <2>2, <1>2, <1>3, <1>7, <1>8
  <2>3. QED
    BY <2>1, <2>2, <1>2
<1>9. ASSUME NEW k \in Hub, NEW q \in Repositor, reposicao'[k][q] # Nada
      PROVE  /\ reposicao'[k][q].lida = loja[k]
             /\ [hub |-> k, loja |-> reposicao'[k][q].loja, inicio |-> reposicao'[k][q].inicio,
                 fim |-> reposicao'[k][q].fim] \in reservas'
  <2>1. CASE k = h /\ q = r
    <3>1. reposicao'[k][q] = resposta
      BY <2>1, <1>2 DEF TypeOK
    <3>2. QED
      BY <2>1, <3>1, <1>2, <1>3, <1>a
  <2>2. CASE k # h \/ q # r
    <3>1. reposicao'[k][q] = reposicao[k][q]
      BY <2>2, <1>2 DEF TypeOK
    <3>2. QED
      BY <3>1, <1>2, <1>9 DEF Origem
  <2>3. QED
    BY <2>1, <2>2
<1>10. QED
  BY <1>2, <1>6, <1>8, <1>9 DEF Origem

LEMMA OrigemPasso ==
  ASSUME TypeOK, Livro, Origem, [Next]_vars, reativacoes' = 0
  PROVE  Origem'
<1>1. ASSUME NEW h \in Hub, NEW t \in Terminal, Consumir(h, t) PROVE Origem'
  <2>1. PICK f \in faixas[h] : conclusao' = [conclusao EXCEPT ![h][t] =
                                  [faixa |-> f, loja |-> loja[h], numero |-> proximo[h][f]]]
    BY <1>1 DEF Consumir
  <2>2. UNCHANGED <<loja, faixas, emitido, reposicao, livre, reservas>>
    BY <1>1 DEF Consumir
  <2>3. ASSUME NEW k \in Hub, NEW u \in Terminal, conclusao'[k][u] # Nada
        PROVE  conclusao'[k][u].loja = loja[k]
    <3>1. CASE k = h /\ u = t
      BY <3>1, <2>1 DEF TypeOK
    <3>2. CASE k # h \/ u # t
      BY <3>2, <2>1, <2>3 DEF TypeOK, Origem
    <3>3. QED
      BY <3>1, <3>2
  <2>4. QED
    BY <2>2, <2>3 DEF Origem
<1>2. ASSUME NEW h \in Hub, NEW t \in Terminal, Concluir(h, t) PROVE Origem'
  <2>1. /\ UNCHANGED <<loja, faixas, reposicao, livre, reservas>>
        /\ conclusao[h][t] # Nada
        /\ emitido' = [emitido EXCEPT ![h] = @ \cup {DocumentoDe(conclusao[h][t])}]
        /\ conclusao' = [conclusao EXCEPT ![h][t] = Nada]
    BY <1>2 DEF Concluir
  <2>2. DocumentoDe(conclusao[h][t]).loja = loja[h]
    BY <2>1 DEF Origem, DocumentoDe
  <2>3. \A k \in Hub : \A d \in emitido'[k] : d.loja = loja[k]
    BY <2>1, <2>2 DEF TypeOK, Origem
  <2>4. \A k \in Hub, u \in Terminal : conclusao'[k][u] \in {conclusao[k][u], Nada}
    BY <2>1 DEF TypeOK
  <2>5. QED
    BY <2>1, <2>3, <2>4 DEF Origem
<1>3. ASSUME NEW h \in Hub, NEW t \in Terminal, Desistir(h, t) PROVE Origem'
  <2>1. \A k \in Hub, u \in Terminal : conclusao'[k][u] \in {conclusao[k][u], Nada}
    BY <1>3 DEF Desistir, TypeOK
  <2>2. QED
    BY <1>3, <2>1 DEF Desistir, Origem
<1>4. ASSUME NEW h \in Hub, NEW r \in Repositor, NEW s \in reservas, ReservarRepetida(h, r, s)
      PROVE  Origem'
  <2> DEFINE resposta == [lida |-> loja[h], loja |-> s.loja, inicio |-> s.inicio, fim |-> s.fim]
  <2>1. /\ UNCHANGED <<loja, faixas, conclusao, emitido, livre, reservas>>
        /\ s.hub = h
        /\ reposicao' = [reposicao EXCEPT ![h][r] = resposta]
    BY <1>4 DEF ReservarRepetida
  <2>2. [hub |-> h, loja |-> resposta.loja, inicio |-> resposta.inicio, fim |-> resposta.fim] = s
    BY <2>1 DEF TypeOK
  <2>3. resposta.lida = loja[h]
    OBVIOUS
  <2> HIDE DEF resposta
  <2>4. ASSUME NEW k \in Hub, NEW q \in Repositor, reposicao'[k][q] # Nada
        PROVE  /\ reposicao'[k][q].lida = loja[k]
               /\ [hub |-> k, loja |-> reposicao'[k][q].loja, inicio |-> reposicao'[k][q].inicio,
                   fim |-> reposicao'[k][q].fim] \in reservas
    <3>1. CASE k = h /\ q = r
      <4>1. reposicao'[k][q] = resposta
        BY <3>1, <2>1 DEF TypeOK
      <4>2. QED
        BY <3>1, <4>1, <2>2, <2>3
    <3>2. CASE k # h \/ q # r
      <4>1. reposicao'[k][q] = reposicao[k][q]
        BY <3>2, <2>1 DEF TypeOK
      <4>2. QED
        BY <4>1, <2>4 DEF Origem
    <3>3. QED
      BY <3>1, <3>2
  <2>5. QED
    BY <2>1, <2>4 DEF Origem
<1>5. ASSUME NEW h \in Hub, NEW r \in Repositor, Registrar(h, r) PROVE Origem'
  <2> DEFINE p == reposicao[h][r]
             f == [inicio |-> p.inicio, fim |-> p.fim]
  <2>1. /\ p # Nada /\ Aceita(p)
        /\ faixas' = [faixas EXCEPT ![h] = @ \cup {f}]
        /\ reposicao' = [reposicao EXCEPT ![h][r] = Nada]
        /\ UNCHANGED <<loja, conclusao, emitido, livre, reservas>>
    BY <1>5 DEF Registrar
  <2>2. [hub |-> h, loja |-> loja[h], inicio |-> f.inicio, fim |-> f.fim] \in reservas
    BY <2>1 DEF Origem, Aceita
  <2> HIDE DEF f
  <2>3. \A k \in Hub : \A g \in faixas'[k] :
           [hub |-> k, loja |-> loja[k], inicio |-> g.inicio, fim |-> g.fim] \in reservas
    BY <2>1, <2>2 DEF TypeOK, Origem
  <2>4. \A k \in Hub, q \in Repositor : reposicao'[k][q] \in {reposicao[k][q], Nada}
    BY <2>1 DEF TypeOK
  <2>5. QED
    BY <2>1, <2>3, <2>4 DEF Origem
<1>6. ASSUME NEW h \in Hub, NEW r \in Repositor, Abandonar(h, r) PROVE Origem'
  <2>1. \A k \in Hub, q \in Repositor : reposicao'[k][q] \in {reposicao[k][q], Nada}
    BY <1>6 DEF Abandonar, TypeOK
  <2>2. QED
    BY <1>6, <2>1 DEF Abandonar, Origem
<1>7. ASSUME NEW h \in Hub, NEW l \in Loja, Reativar(h, l) PROVE Origem'
  <2>1. reativacoes' = reativacoes + 1 /\ reativacoes \in Nat
    BY <1>7, Parametros DEF Reativar, TypeOK
  <2>2. QED
    BY <2>1
<1>8. CASE UNCHANGED vars
  BY <1>8 DEF vars, Origem
<1>9. QED
  BY <1>1, <1>2, <1>3, <1>4, <1>5, <1>6, <1>7, <1>8, OrigemReservarNova
     DEF Next, Concluindo, Repondo

LEMMA OrigemInicio == Init => Origem
BY DEF Init, Origem

\* A number of a store is in the ranges of one hub at most.
LEMMA NumeroDeUmHub ==
  ASSUME TypeOK, Origem, NEW h \in Hub, NEW k \in Hub, NEW f \in faixas[h], NEW g \in faixas[k],
         loja[h] = loja[k], NEW n \in Nat, n \in f.inicio .. f.fim, n \in g.inicio .. g.fim
  PROVE  h = k
<1> DEFINE s == [hub |-> h, loja |-> loja[h], inicio |-> f.inicio, fim |-> f.fim]
           z == [hub |-> k, loja |-> loja[k], inicio |-> g.inicio, fim |-> g.fim]
<1>1. s \in reservas /\ z \in reservas
  BY DEF Origem
<1>2. f.inicio \in Nat /\ f.fim \in Nat /\ g.inicio \in Nat /\ g.fim \in Nat
  BY DEF TypeOK, Faixa, Numero
<1>3. s.loja = z.loja /\ Sobrepoe(s, z)
  BY <1>2 DEF Sobrepoe
<1>4. s = z
  BY <1>1, <1>3 DEF Origem
<1>5. QED
  BY <1>4

OrigemSemReativacao == reativacoes = 0 => Origem

LEMMA OrigemVale == Spec => []OrigemSemReativacao
<1>1. Init => OrigemSemReativacao
  BY OrigemInicio DEF OrigemSemReativacao
<1>2. TypeOK /\ TypeOK' /\ Livro /\ OrigemSemReativacao /\ [Next]_vars => OrigemSemReativacao'
  <2> SUFFICES ASSUME TypeOK, TypeOK', Livro, OrigemSemReativacao, [Next]_vars, reativacoes' = 0
               PROVE  Origem'
    BY DEF OrigemSemReativacao
  <2>1. CASE reativacoes = 0
    BY <2>1, OrigemPasso DEF OrigemSemReativacao
  <2>2. CASE reativacoes # 0
    <3>1. reativacoes' = reativacoes + 1 \/ reativacoes' = reativacoes
      <4>1. ASSUME NEW h \in Hub, NEW t \in Terminal, Concluindo(h, t) PROVE reativacoes' = reativacoes
        BY <4>1 DEF Concluindo, Consumir, Concluir, Desistir
      <4>2. ASSUME NEW h \in Hub, NEW r \in Repositor, Repondo(h, r) PROVE reativacoes' = reativacoes
        BY <4>2 DEF Repondo, ReservarNova, ReservarRepetida, Registrar, Abandonar
      <4>3. ASSUME NEW h \in Hub, NEW l \in Loja, Reativar(h, l) PROVE reativacoes' = reativacoes + 1
        BY <4>3 DEF Reativar
      <4>4. QED
        BY <4>1, <4>2, <4>3 DEF Next, vars
    <3>2. reativacoes \in Nat
      BY Parametros DEF TypeOK
    <3>3. QED
      BY <2>2, <3>1, <3>2
  <2>3. QED
    BY <2>1, <2>2
<1>3. QED
  BY <1>1, <1>2, TipoCorreto, LivroVale, PTL DEF Spec

\* Without reactivations, a document is numbered from a range reserved for its store.
THEOREM DocumentoDaLojaVale == ASSUME MaxReativacoes = 0 PROVE Spec => []DocumentoDaLoja
<1>1. Livro /\ Origem => DocumentoDaLoja
  <2> SUFFICES ASSUME Livro, Origem, NEW h \in Hub, NEW d \in emitido[h]
               PROVE  \E s \in reservas : s.hub = h /\ s.loja = d.loja /\ d.numero \in s.inicio .. s.fim
    BY DEF DocumentoDaLoja
  <2>1. PICK f \in faixas[h] : d.numero \in f.inicio .. f.fim
    BY DEF Livro
  <2>2. [hub |-> h, loja |-> loja[h], inicio |-> f.inicio, fim |-> f.fim] \in reservas /\ d.loja = loja[h]
    BY DEF Origem
  <2>3. QED
    BY <2>1, <2>2
<1>2. TypeOK /\ OrigemSemReativacao => Origem
  BY DEF TypeOK, OrigemSemReativacao
<1>3. QED
  BY <1>1, <1>2, TipoCorreto, LivroVale, OrigemVale, PTL

\* While no hub changes its store no two documents of a store have the same number,
\* concluded or about to be, on one hub or on several.
THEOREM DocumentoUnicoVale == Spec => []DocumentoUnico
<1>1. TypeOK /\ Livro /\ SemBuraco /\ OrigemSemReativacao => DocumentoUnico
  <2> SUFFICES ASSUME TypeOK, Livro, SemBuraco, Origem, NEW h \in Hub, NEW k \in Hub
               PROVE  /\ h # k => emitido[h] \cap emitido[k] = {}
                      /\ \A t \in Terminal : conclusao[h][t] # Nada =>
                            /\ DocumentoDe(conclusao[h][t]) \notin emitido[k]
                            /\ \A u \in Terminal :
                                  /\ conclusao[k][u] # Nada
                                  /\ DocumentoDe(conclusao[h][t]) = DocumentoDe(conclusao[k][u])
                                  => h = k /\ t = u
    BY DEF DocumentoUnico, OrigemSemReativacao
  <2>1. ASSUME NEW j \in Hub, NEW d \in emitido[j]
        PROVE  /\ d.loja = loja[j] /\ d.numero \in Nat
               /\ \E f \in faixas[j] : d.numero \in f.inicio .. f.fim
    BY DEF TypeOK, Documento, Numero, Livro, Origem
  <2>2. ASSUME NEW j \in Hub, NEW t \in Terminal, conclusao[j][t] # Nada
        PROVE  LET c == conclusao[j][t] IN
               /\ c.loja = loja[j] /\ c.numero \in Nat
               /\ c.faixa \in faixas[j] /\ c.numero \in c.faixa.inicio .. c.faixa.fim
               /\ c.numero = proximo[j][c.faixa]
               /\ DocumentoDe(c).loja = c.loja /\ DocumentoDe(c).numero = c.numero
    <3> DEFINE c == conclusao[j][t]
    <3>1. /\ c \in Conclusao /\ c.faixa \in faixas[j] /\ c.numero = proximo[j][c.faixa]
          /\ c.numero <= c.faixa.fim /\ c.loja = loja[j]
      BY <2>2 DEF TypeOK, Livro, Origem
    <3>2. c.numero \in c.faixa.inicio .. (c.faixa.fim + 1)
      BY <3>1 DEF Livro
    <3>3. c.numero \in Nat /\ c.faixa.inicio \in Nat /\ c.faixa.fim \in Nat
      BY <3>1 DEF Conclusao, Faixa, Numero
    <3>4. DocumentoDe(c).loja = c.loja /\ DocumentoDe(c).numero = c.numero
      BY DEF DocumentoDe
    <3>5. QED
      BY <3>1, <3>2, <3>3, <3>4
  <2>3. ASSUME h # k PROVE emitido[h] \cap emitido[k] = {}
    <3> SUFFICES ASSUME NEW d \in emitido[h], d \in emitido[k] PROVE FALSE
      OBVIOUS
    <3>1. QED
      BY <2>1, <2>3, NumeroDeUmHub
  <2>4. ASSUME NEW t \in Terminal, conclusao[h][t] # Nada, DocumentoDe(conclusao[h][t]) \in emitido[k]
        PROVE  FALSE
    <3> DEFINE c == conclusao[h][t]
               d == DocumentoDe(c)
    <3>1. /\ c.loja = loja[h] /\ c.numero \in Nat
          /\ c.faixa \in faixas[h] /\ c.numero \in c.faixa.inicio .. c.faixa.fim
          /\ c.numero = proximo[h][c.faixa]
          /\ d.loja = c.loja /\ d.numero = c.numero
      BY <2>2, <2>4
    <3>2. d \in emitido[k]
      BY <2>4
    <3> HIDE DEF c, d
    <3>3. h = k
      BY <3>1, <3>2, <2>1, NumeroDeUmHub
    <3>4. d.numero \in c.faixa.inicio .. (proximo[h][c.faixa] - 1)
      BY <3>1, <3>2, <3>3 DEF SemBuraco
    <3>5. QED
      BY <3>1, <3>4
  <2>5. ASSUME NEW t \in Terminal, conclusao[h][t] # Nada, NEW u \in Terminal, conclusao[k][u] # Nada,
               DocumentoDe(conclusao[h][t]) = DocumentoDe(conclusao[k][u])
        PROVE  h = k /\ t = u
    <3> DEFINE c == conclusao[h][t]
               b == conclusao[k][u]
    <3>1. /\ c.loja = loja[h] /\ c.numero \in Nat
          /\ c.faixa \in faixas[h] /\ c.numero \in c.faixa.inicio .. c.faixa.fim
      BY <2>2, <2>5
    <3>2. /\ b.loja = loja[k] /\ b.faixa \in faixas[k] /\ b.numero \in b.faixa.inicio .. b.faixa.fim
      BY <2>2, <2>5
    <3>3. c.loja = b.loja /\ c.numero = b.numero
      BY <2>2, <2>5
    <3>4. h = k
      BY <3>1, <3>2, <3>3, NumeroDeUmHub
    <3>5. c.faixa \in Faixa /\ b.faixa \in Faixa
      BY <3>1, <3>2 DEF TypeOK
    <3>6. Sobrepoe(c.faixa, b.faixa)
      BY <3>1, <3>2, <3>3, <3>5 DEF Sobrepoe, Faixa, Numero
    <3>7. c.faixa = b.faixa
      BY <3>1, <3>2, <3>4, <3>6 DEF Livro
    <3>8. QED
      BY <3>4, <3>7, <2>5 DEF Livro
  <2>6. QED
    BY <2>3, <2>4, <2>5
<1>2. QED
  BY <1>1, TipoCorreto, LivroVale, OrigemVale, PTL


=============================================================================
