---------------------------- MODULE Apoio_proofs ----------------------------
(***************************************************************************)
(* Proofs about what supports the sale: the customer and the seller of a   *)
(* sale (Atendimento), the pictures of the catalogue (Imagens), the        *)
(* identity of the terminals and the sessions of the operators (Acesso),   *)
(* the mirrors of the registers (Espelho), the local backups (Copia), the  *)
(* scripts of the machine (Instalacao) and the copy of a form that a       *)
(* payment keeps (Retrato), for any terminals, customers, products,        *)
(* versions, codes, sessions, answers of the Central, FULLs, processes,    *)
(* secrets, forms and terms.                                               *)
(***************************************************************************)
EXTENDS Acesso, Imagens, Atendimento, Espelho, Copia, Instalacao, Retrato,
        FiniteSetTheorems, SequenceTheorems, TLAPS

-----------------------------------------------------------------------------
(* Atendimento: who chooses finds no active payment *)

LinhaVenda ==
  [aberta : BOOLEAN, quem : Contexto, pago : [PagamentoAt -> Contexto \cup {NuloAt}]]

InvAtendimento == TypeOKAtendimento /\ PagamentoDoCliente

LEMMA TiposDoAtendimento ==
  ASSUME TypeOKAtendimento
  PROVE  /\ SemContexto \in Contexto /\ SemVenda \in LinhaVenda
         /\ SemVenda.pago = SemPagamento
         /\ vendaAt \in [TerminalAt -> LinhaVenda] /\ contexto \in [TerminalAt -> Contexto]
         /\ \A t \in TerminalAt : vendaAt[t] \in LinhaVenda /\ contexto[t] \in Contexto
<1>1. SemContexto \in Contexto
  BY DEF SemContexto, Contexto
<1>2. SemPagamento \in [PagamentoAt -> Contexto \cup {NuloAt}]
  BY DEF SemPagamento
<1>3. SemVenda \in LinhaVenda
  BY <1>1, <1>2, Zenon DEF SemVenda, LinhaVenda
<1>4. SemVenda.pago = SemPagamento
  BY DEF SemVenda
<1>5. vendaAt \in [TerminalAt -> LinhaVenda] /\ contexto \in [TerminalAt -> Contexto]
  BY Zenon DEF TypeOKAtendimento, LinhaVenda
<1> QED
  BY <1>1, <1>3, <1>4, <1>5

\* a change of one sale keeps the rest
LEMMA MudaVenda ==
  ASSUME InvAtendimento, NEW t \in TerminalAt, NEW n \in LinhaVenda,
         vendaAt' = [vendaAt EXCEPT ![t] = n],
         \A p \in PagamentoAt : n.pago[p] # NuloAt => n.pago[p] = n.quem
  PROVE  vendaAt' \in [TerminalAt -> LinhaVenda] /\ PagamentoDoCliente'
<1>1. vendaAt \in [TerminalAt -> LinhaVenda]
  BY TiposDoAtendimento DEF InvAtendimento
<1>2. vendaAt' \in [TerminalAt -> LinhaVenda]
  BY <1>1
<1>3. \A x \in TerminalAt : vendaAt'[x] = IF x = t THEN n ELSE vendaAt[x]
  BY <1>1
<1> QED
  BY <1>2, <1>3 DEF InvAtendimento, PagamentoDoCliente, Pagos

LEMMA PassoAtendimento == InvAtendimento /\ [NextAtendimento]_varsAtendimento => InvAtendimento'
<1> SUFFICES ASSUME InvAtendimento, [NextAtendimento]_varsAtendimento PROVE InvAtendimento'
  OBVIOUS
<1>0. vendaAt \in [TerminalAt -> LinhaVenda] /\ contexto \in [TerminalAt -> Contexto]
  BY TiposDoAtendimento DEF InvAtendimento
\* whoever the operator chooses or removes
<1>a. ASSUME NEW t \in TerminalAt, NEW q \in Contexto, SemPagamentoAtivo(t), Anotar(t, q)
      PROVE  InvAtendimento'
  <2>1. caixaAberto' = caixaAberto /\ selecionavel' = selecionavel
    BY <1>a DEF Anotar
  <2>2. CASE vendaAt[t].aberta
    <3>1. vendaAt' = [vendaAt EXCEPT ![t].quem = q] /\ contexto' = contexto
      BY <1>a, <2>2 DEF Anotar
    <3>2. PICK n : n = [vendaAt[t] EXCEPT !.quem = q]
      OBVIOUS
    <3>3. vendaAt[t] \in LinhaVenda
      BY <1>0
    <3>4. n \in LinhaVenda /\ n.pago = vendaAt[t].pago
      BY <3>2, <3>3 DEF LinhaVenda
    <3>5. \A p \in PagamentoAt : n.pago[p] = NuloAt
      BY <1>a, <3>4 DEF SemPagamentoAtivo, Pagos
    <3>6. vendaAt' = [vendaAt EXCEPT ![t] = n]
      BY <3>1, <3>2
    <3>7. vendaAt' \in [TerminalAt -> LinhaVenda] /\ PagamentoDoCliente'
      BY <3>4, <3>5, <3>6, MudaVenda
    <3> QED
      BY <2>1, <3>1, <3>7 DEF InvAtendimento, TypeOKAtendimento, LinhaVenda
  <2>3. CASE ~vendaAt[t].aberta
    <3>1. contexto' = [contexto EXCEPT ![t] = q] /\ vendaAt' = vendaAt
      BY <1>a, <2>3 DEF Anotar
    <3> QED
      BY <1>0, <2>1, <3>1 DEF InvAtendimento, TypeOKAtendimento, PagamentoDoCliente, Pagos
  <2> QED
    BY <2>2, <2>3
<1>b. \A t \in TerminalAt : QuemNo(t) \in Contexto
  BY <1>0 DEF QuemNo, LinhaVenda
<1>c. \A q \in Contexto, c \in ClienteAt \cup {NuloAt}, v \in VendedorAt \cup {NuloAt} :
        ComCliente(q, c) \in Contexto /\ ComVendedor(q, v) \in Contexto
  BY DEF ComCliente, ComVendedor, Contexto
<1>1. ASSUME NEW t \in TerminalAt, RemoverCliente(t) \/ RemoverVendedor(t) PROVE InvAtendimento'
  BY <1>1, <1>a, <1>b, <1>c DEF RemoverCliente, RemoverVendedor
<1>2. ASSUME NEW t \in TerminalAt, NEW c \in ClienteAt, SelecionarCliente(t, c) PROVE InvAtendimento'
  BY <1>2, <1>a, <1>b, <1>c DEF SelecionarCliente
<1>3. ASSUME NEW t \in TerminalAt, NEW v \in VendedorAt, SelecionarVendedor(t, v) PROVE InvAtendimento'
  BY <1>3, <1>a, <1>b, <1>c DEF SelecionarVendedor
<1>4. ASSUME NEW x \in ClienteAt \cup VendedorAt, MudarSelecionavel(x) PROVE InvAtendimento'
  BY <1>4 DEF MudarSelecionavel, InvAtendimento, TypeOKAtendimento, PagamentoDoCliente, Pagos
<1>5. CASE AbrirCaixaAt
  <2>1. caixaAberto' = TRUE /\ UNCHANGED <<selecionavel, contexto, vendaAt>>
    BY <1>5, Zenon DEF AbrirCaixaAt
  <2> QED
    BY <2>1 DEF InvAtendimento, TypeOKAtendimento, PagamentoDoCliente, Pagos
<1>6. ASSUME NEW t \in TerminalAt, FecharCaixaAt(t) PROVE InvAtendimento'
  <2>1. /\ caixaAberto' = FALSE /\ UNCHANGED <<selecionavel, vendaAt>>
        /\ contexto' = [contexto EXCEPT ![t] = SemContexto]
    BY <1>6, Zenon DEF FecharCaixaAt
  <2>2. contexto' \in [TerminalAt -> Contexto]
    BY <1>0, <2>1, TiposDoAtendimento DEF InvAtendimento
  <2> QED
    BY <2>1, <2>2 DEF InvAtendimento, TypeOKAtendimento, PagamentoDoCliente, Pagos
<1>7. ASSUME NEW t \in TerminalAt, FinalizarVendaAt(t) \/ CancelarVendaAt(t) PROVE InvAtendimento'
  <2>1. vendaAt' = [vendaAt EXCEPT ![t] = SemVenda] /\ UNCHANGED <<caixaAberto, selecionavel, contexto>>
    BY <1>7 DEF FinalizarVendaAt, CancelarVendaAt
  <2>2. \A p \in PagamentoAt : SemVenda.pago[p] = NuloAt
    BY TiposDoAtendimento DEF InvAtendimento, SemPagamento
  <2>3. vendaAt' \in [TerminalAt -> LinhaVenda] /\ PagamentoDoCliente'
    BY <2>1, <2>2, MudaVenda, TiposDoAtendimento DEF InvAtendimento
  <2> QED
    BY <2>1, <2>3 DEF InvAtendimento, TypeOKAtendimento, LinhaVenda
<1>8. ASSUME NEW t \in TerminalAt, IniciarVendaAt(t) PROVE InvAtendimento'
  <2>1. PICK n : n = [SemVenda EXCEPT !.aberta = TRUE, !.quem = contexto[t]]
    OBVIOUS
  <2>2. n \in LinhaVenda /\ n.pago = SemPagamento
    BY <1>0, <2>1, TiposDoAtendimento DEF LinhaVenda, InvAtendimento
  <2>3. /\ vendaAt' = [vendaAt EXCEPT ![t] = n] /\ contexto' = [contexto EXCEPT ![t] = SemContexto]
        /\ UNCHANGED <<caixaAberto, selecionavel>>
    BY <1>8, <2>1, Zenon DEF IniciarVendaAt
  <2>4. \A p \in PagamentoAt : n.pago[p] = NuloAt
    BY <2>2 DEF SemPagamento
  <2>5. vendaAt' \in [TerminalAt -> LinhaVenda] /\ PagamentoDoCliente'
    BY <2>2, <2>3, <2>4, MudaVenda
  <2>6. contexto' \in [TerminalAt -> Contexto]
    BY <1>0, <2>3, TiposDoAtendimento DEF InvAtendimento
  <2> QED
    BY <2>3, <2>5, <2>6 DEF InvAtendimento, TypeOKAtendimento, LinhaVenda
<1>9. ASSUME NEW t \in TerminalAt, NEW p \in PagamentoAt, PagarAt(t, p) \/ RemoverPagamentoAt(t, p)
      PROVE  InvAtendimento'
  <2>1. PICK x \in {NuloAt, vendaAt[t].quem} :
             vendaAt' = [vendaAt EXCEPT ![t].pago[p] = x] /\ UNCHANGED <<caixaAberto, selecionavel, contexto>>
    BY <1>9 DEF PagarAt, RemoverPagamentoAt
  <2>2. PICK l \in LinhaVenda : l = vendaAt[t]
    BY <1>0
  <2>3. PICK g : g = [l.pago EXCEPT ![p] = x]
    OBVIOUS
  <2>4. l.pago \in [PagamentoAt -> Contexto \cup {NuloAt}] /\ l.quem \in Contexto
    BY <2>2 DEF LinhaVenda
  <2>5. /\ g \in [PagamentoAt -> Contexto \cup {NuloAt}]
        /\ \A y \in PagamentoAt : g[y] = IF y = p THEN x ELSE l.pago[y]
    BY <2>1, <2>2, <2>3, <2>4
  <2>6. PICK n : n = [l EXCEPT !.pago = g]
    OBVIOUS
  <2>7. n \in LinhaVenda /\ n.pago = g /\ n.quem = l.quem
    BY <2>2, <2>5, <2>6 DEF LinhaVenda
  <2>8. vendaAt' = [vendaAt EXCEPT ![t] = n]
    BY <2>1, <2>2, <2>3, <2>6
  <2>9. \A y \in PagamentoAt : n.pago[y] # NuloAt => n.pago[y] = n.quem
    BY <2>1, <2>2, <2>5, <2>7 DEF InvAtendimento, PagamentoDoCliente, Pagos
  <2>10. vendaAt' \in [TerminalAt -> LinhaVenda] /\ PagamentoDoCliente'
    BY <2>7, <2>8, <2>9, MudaVenda
  <2> QED
    BY <2>1, <2>10 DEF InvAtendimento, TypeOKAtendimento, LinhaVenda
<1>10. CASE UNCHANGED varsAtendimento
  BY <1>10 DEF varsAtendimento, InvAtendimento, TypeOKAtendimento, PagamentoDoCliente, Pagos
<1> QED
  BY <1>1, <1>2, <1>3, <1>4, <1>5, <1>6, <1>7, <1>8, <1>9, <1>10 DEF NextAtendimento

\* Every active payment was made for the customer and the seller the sale has
\* now, for any terminals, customers and payments (validar_venda_sem_pagamento_ativo).
THEOREM PagamentoDoClienteSempre == SpecAtendimento => []PagamentoDoCliente
<1>1. InitAtendimento => InvAtendimento
  <2> SUFFICES ASSUME InitAtendimento PROVE InvAtendimento
    OBVIOUS
  <2>1. SemContexto \in Contexto
    BY DEF SemContexto, Contexto
  <2>2. SemPagamento \in [PagamentoAt -> Contexto \cup {NuloAt}]
    BY DEF SemPagamento
  <2>3. SemVenda \in LinhaVenda
    BY <2>1, <2>2, Zenon DEF SemVenda, LinhaVenda
  <2>4. SemVenda.pago = SemPagamento
    BY DEF SemVenda
  <2>5. TypeOKAtendimento
    BY <2>1, <2>3, Zenon DEF InitAtendimento, TypeOKAtendimento, LinhaVenda
  <2>6. PagamentoDoCliente
    BY <2>4 DEF InitAtendimento, PagamentoDoCliente, Pagos, SemPagamento
  <2> QED
    BY <2>5, <2>6 DEF InvAtendimento
<1>2. InvAtendimento => PagamentoDoCliente
  BY DEF InvAtendimento
<1> QED
  BY <1>1, <1>2, PassoAtendimento, PTL DEF SpecAtendimento

-----------------------------------------------------------------------------
(* Imagens: what an import still fetches is of the answer it wrote, and the *)
(* picture it has fetched is not older than that answer                     *)

\* i fetches only products that its answer has a picture of
Fiel(i) ==
  /\ i.passo \in {"baixar", "gravar", "associar"} => i.resta \subseteq ComImagem(i.resposta)
  /\ i.passo \in {"gravar", "associar"} => i.produto \in i.resta
  /\ i.passo = "gravar" => i.resposta[i.produto] <= i.foto

\* the Central does not go back to an older picture
Atual(i) == \A p \in ProdutoIm : i.resposta[p] <= centralIm[p]

\* the file named is the one of the row's version; a file of a name holds a
\* picture not older than every version of that name
NomeDaLinha ==
  \A p \in ProdutoIm : linhaIm[p].local # 0 =>
    linhaIm[p].versao # 0 /\ linhaIm[p].local = NomeVersao[linhaIm[p].versao]
FotosIm ==
  \A p \in ProdutoIm, n \in NomeIm :
    arquivoIm[<<p, n>>] # 0 => \E v \in 1..arquivoIm[<<p, n>>] : NomeVersao[v] = n

InvImagens ==
  /\ TypeOKImagens /\ NomeDaLinha /\ FotosIm
  /\ \A q \in ImportadorIm : Fiel(importador[q]) /\ Atual(importador[q])

\* a step of one import keeps the others
LEMMA MudaImportador ==
  ASSUME InvImagens, NEW q \in ImportadorIm, NEW n \in Importacao, Fiel(n), Atual(n),
         importador' = [importador EXCEPT ![q] = n], centralIm' = centralIm
  PROVE  /\ importador' \in [ImportadorIm -> Importacao]
         /\ \A x \in ImportadorIm : Fiel(importador[x])' /\ Atual(importador[x])'
<1>1. importador \in [ImportadorIm -> Importacao]
  BY Zenon DEF InvImagens, TypeOKImagens
<1>2. \A x \in ImportadorIm : importador'[x] = IF x = q THEN n ELSE importador[x]
  BY <1>1
<1>3. importador' \in [ImportadorIm -> Importacao]
  BY <1>1
<1>4. \A x \in ImportadorIm : Fiel(importador[x])' /\ Atual(importador[x])'
  BY <1>2 DEF InvImagens, Fiel, Atual
<1> QED
  BY <1>3, <1>4

LEMMA ImLivreFiel == ConstantesImagens => ImLivre \in Importacao /\ Fiel(ImLivre)
<1> SUFFICES ASSUME ConstantesImagens PROVE ImLivre \in Importacao /\ Fiel(ImLivre)
  OBVIOUS
<1>1. 0 \in VersaoIm
  BY DEF ConstantesImagens, VersaoIm
<1>2. [p \in ProdutoIm |-> 0] \in [ProdutoIm -> VersaoIm]
  BY <1>1
<1>3. ImLivre \in Importacao
  BY <1>1, <1>2 DEF ImLivre, Importacao
<1>4. ImLivre.passo = "livre"
  BY DEF ImLivre
<1> QED
  BY <1>3, <1>4 DEF Fiel

LEMMA PassoImagens == InvImagens /\ [NextImagens]_varsImagens => InvImagens'
<1> SUFFICES ASSUME InvImagens, [NextImagens]_varsImagens PROVE InvImagens'
  OBVIOUS
<1> USE ConstantesImagens
<1>0. /\ importador \in [ImportadorIm -> Importacao] /\ semImagem \subseteq ProdutoIm
      /\ linhaIm \in [ProdutoIm -> [versao : VersaoIm, local : VersaoIm]]
      /\ centralIm \in [ProdutoIm -> VersaoIm]
      /\ arquivoIm \in [Arquivos -> VersaoIm] /\ importacoes \in 0..MaxImport /\ 0 \in VersaoIm
  BY DEF InvImagens, TypeOKImagens, VersaoIm
\* a step that touches one import alone
<1>a. ASSUME NEW q \in ImportadorIm, NEW n \in Importacao, Fiel(n), Atual(n),
             importador' = [importador EXCEPT ![q] = n],
             UNCHANGED <<centralIm, semImagem, linhaIm, arquivoIm, importacoes>>
      PROVE  InvImagens'
  <2>1. /\ importador' \in [ImportadorIm -> Importacao]
        /\ \A x \in ImportadorIm : Fiel(importador[x])' /\ Atual(importador[x])'
    BY <1>a, MudaImportador
  <2> QED
    BY <1>a, <2>1 DEF InvImagens, TypeOKImagens, NomeDaLinha, FotosIm
<1>1. ASSUME NEW p \in ProdutoIm, TrocarImagem(p) PROVE InvImagens'
  <2>1. /\ centralIm' \in [ProdutoIm -> VersaoIm] /\ semImagem' \subseteq ProdutoIm
        /\ \A x \in ProdutoIm : centralIm[x] <= centralIm'[x]
    <3>1. CASE centralIm[p] < NumVersao /\ centralIm' = [centralIm EXCEPT ![p] = @ + 1]
               /\ semImagem' = semImagem \ {p}
      <4>1. centralIm[p] \in 0..NumVersao /\ centralIm[p] + 1 \in 0..NumVersao
        BY <1>0, <3>1 DEF VersaoIm
      <4>2. \A x \in ProdutoIm : centralIm'[x] = IF x = p THEN centralIm[p] + 1 ELSE centralIm[x]
        BY <1>0, <3>1
      <4>3. \A x \in ProdutoIm : centralIm[x] \in Nat
        BY <1>0 DEF VersaoIm
      <4>4. \A x \in ProdutoIm : centralIm'[x] \in VersaoIm
        BY <1>0, <4>1, <4>2 DEF VersaoIm
      <4>5. centralIm' \in [ProdutoIm -> VersaoIm]
        BY <1>0, <3>1, <4>4
      <4>6. \A x \in ProdutoIm : centralIm[x] <= centralIm'[x]
        BY <4>2, <4>3
      <4> QED
        BY <1>0, <3>1, <4>5, <4>6
    <3>2. CASE semImagem' = semImagem \cup {p} /\ UNCHANGED centralIm
      <4>1. \A x \in ProdutoIm : centralIm[x] \in Nat
        BY <1>0 DEF VersaoIm
      <4> QED
        BY <1>0, <3>2, <4>1
    <3> QED
      BY <1>1, <3>1, <3>2 DEF TrocarImagem
  <2>2. UNCHANGED <<linhaIm, arquivoIm, importador, importacoes>>
    BY <1>1 DEF TrocarImagem
  <2>3. ASSUME NEW x \in ImportadorIm PROVE Fiel(importador[x])' /\ Atual(importador[x])'
    <3>1. PICK i \in Importacao : i = importador[x]
      BY <1>0
    <3>2. Fiel(i) /\ Atual(i)
      BY <3>1 DEF InvImagens
    <3>3. \A y \in ProdutoIm : i.resposta[y] \in VersaoIm
      BY <3>1 DEF Importacao
    <3>4. Atual(importador[x])'
      BY <1>0, <2>1, <2>2, <3>1, <3>2, <3>3 DEF Atual, VersaoIm
    <3> QED
      BY <2>2, <3>1, <3>2, <3>4 DEF Fiel
  <2> QED
    BY <2>1, <2>2, <2>3 DEF InvImagens, TypeOKImagens, NomeDaLinha, FotosIm
<1>2. ASSUME NEW q \in ImportadorIm, NEW F \in SUBSET ProdutoIm, PedirCatalogo(q, F) PROVE InvImagens'
  <2>0. Catalogo \in [ProdutoIm -> VersaoIm] /\ \A p \in ProdutoIm : Catalogo[p] <= centralIm[p]
    BY <1>0 DEF Catalogo, VersaoIm
  <2>1. PICK n : n = [ImLivre EXCEPT !.passo = "resposta", !.fora = F, !.resposta = Catalogo]
    OBVIOUS
  <2>2. n \in Importacao /\ n.passo = "resposta" /\ n.resposta = Catalogo
    BY <2>0, <2>1, ImLivreFiel DEF Importacao
  <2>3. /\ importador' = [importador EXCEPT ![q] = n] /\ importacoes' = importacoes + 1
        /\ importacoes < MaxImport /\ UNCHANGED <<centralIm, semImagem, linhaIm, arquivoIm>>
    BY <1>2, <2>1 DEF PedirCatalogo
  <2>4. Fiel(n) /\ Atual(n)
    BY <2>0, <2>2 DEF Fiel, Atual
  <2>5. /\ importador' \in [ImportadorIm -> Importacao]
        /\ \A x \in ImportadorIm : Fiel(importador[x])' /\ Atual(importador[x])'
    BY <2>2, <2>3, <2>4, MudaImportador
  <2>6. importacoes' \in 0..MaxImport
    BY <1>0, <2>3
  <2> QED
    BY <2>3, <2>5, <2>6 DEF InvImagens, TypeOKImagens, NomeDaLinha, FotosIm
<1>3. ASSUME NEW q \in ImportadorIm, GravarCatalogo(q) PROVE InvImagens'
  <2>1. PICK i \in Importacao : i = importador[q]
    BY <1>0
  <2>2. PICK n : n = [i EXCEPT !.passo = "baixar", !.resta = ComImagem(i.resposta) \ i.fora]
    OBVIOUS
  <2>3. /\ n \in Importacao /\ n.passo = "baixar" /\ n.resta \subseteq ComImagem(n.resposta)
        /\ n.resposta = i.resposta
    BY <2>1, <2>2 DEF Importacao, ComImagem
  <2>4. Fiel(n) /\ Atual(n)
    BY <2>1, <2>3 DEF Fiel, Atual, InvImagens
  <2>5. /\ importador' = [importador EXCEPT ![q] = n]
        /\ UNCHANGED <<centralIm, semImagem, arquivoIm, importacoes>>
        /\ linhaIm' = [p \in ProdutoIm |-> IF p \in i.fora THEN linhaIm[p]
                        ELSE [versao |-> i.resposta[p], local |-> ImagemDaLinha(p, i.resposta[p])]]
    BY <1>3, <2>1, <2>2 DEF GravarCatalogo
  <2>6. \A p \in ProdutoIm : i.resposta[p] \in VersaoIm
    BY <2>1 DEF Importacao
  <2>7. \A p \in ProdutoIm, v \in VersaoIm :
          /\ ImagemDaLinha(p, v) \in VersaoIm
          /\ ImagemDaLinha(p, v) # 0 => v # 0 /\ ImagemDaLinha(p, v) = NomeVersao[v]
    BY <1>0 DEF ImagemDaLinha, InvImagens, NomeDaLinha
  <2>8. linhaIm' \in [ProdutoIm -> [versao : VersaoIm, local : VersaoIm]]
    BY <1>0, <2>5, <2>6, <2>7
  <2>9. NomeDaLinha'
    BY <2>5, <2>6, <2>7 DEF InvImagens, NomeDaLinha
  <2>10. /\ importador' \in [ImportadorIm -> Importacao]
         /\ \A x \in ImportadorIm : Fiel(importador[x])' /\ Atual(importador[x])'
    BY <2>3, <2>4, <2>5, MudaImportador
  <2> QED
    BY <2>5, <2>8, <2>9, <2>10 DEF InvImagens, TypeOKImagens, FotosIm
<1>4. ASSUME NEW q \in ImportadorIm, Associar(q) PROVE InvImagens'
  <2>1. PICK i \in Importacao : i = importador[q]
    BY <1>0
  <2>2. i.passo = "associar" /\ Fiel(i) /\ Atual(i)
    BY <1>4, <2>1 DEF Associar, InvImagens
  <2>3. i.produto \in i.resta /\ i.resta \subseteq ComImagem(i.resposta)
    BY <2>2 DEF Fiel
  <2>4. PICK p \in ProdutoIm : p = i.produto
    BY <2>3 DEF ComImagem
  <2>5. PICK v \in 1..NumVersao : v = i.resposta[p]
    BY <2>1, <2>3, <2>4 DEF Importacao, ComImagem, VersaoIm
  <2>6. PICK n : n = [i EXCEPT !.passo = "baixar", !.resta = @ \ {p}, !.produto = NuloIm]
    OBVIOUS
  <2>7. /\ n \in Importacao /\ n.passo = "baixar" /\ n.resta \subseteq ComImagem(n.resposta)
        /\ n.resposta = i.resposta
    BY <2>1, <2>3, <2>6 DEF Importacao
  <2>8. Fiel(n) /\ Atual(n)
    BY <2>2, <2>7 DEF Fiel, Atual
  <2>9. /\ importador' = [importador EXCEPT ![q] = n]
        /\ UNCHANGED <<centralIm, semImagem, arquivoIm, importacoes>>
        /\ linhaIm' = IF linhaIm[p].versao = v THEN [linhaIm EXCEPT ![p].local = NomeVersao[v]]
                                               ELSE linhaIm
    BY <1>4, <2>1, <2>4, <2>5, <2>6 DEF Associar, MesmaVersao, ArquivoPedido
  <2>10. NomeVersao[v] \in VersaoIm
    BY DEF VersaoIm
  <2>11. linhaIm' \in [ProdutoIm -> [versao : VersaoIm, local : VersaoIm]]
    BY <1>0, <2>9, <2>10
  <2>12. NomeDaLinha'
    BY <1>0, <2>9 DEF InvImagens, NomeDaLinha
  <2>13. /\ importador' \in [ImportadorIm -> Importacao]
         /\ \A x \in ImportadorIm : Fiel(importador[x])' /\ Atual(importador[x])'
    BY <2>7, <2>8, <2>9, MudaImportador
  <2> QED
    BY <2>9, <2>11, <2>12, <2>13 DEF InvImagens, TypeOKImagens, FotosIm
<1>5. ASSUME NEW q \in ImportadorIm, NEW p \in ProdutoIm, UsarArquivo(q, p) \/ Baixar(q, p)
      PROVE  InvImagens'
  <2>1. PICK i \in Importacao : i = importador[q]
    BY <1>0
  <2>2. /\ i.passo = "baixar" /\ p \in i.resta /\ i.resta \subseteq ComImagem(i.resposta) /\ Atual(i)
    BY <1>5, <2>1 DEF UsarArquivo, Baixar, InvImagens, Fiel
  <2>3. PICK n : /\ importador' = [importador EXCEPT ![q] = n]
                 /\ \/ n = [i EXCEPT !.passo = "associar", !.produto = p]
                    \/ n = [i EXCEPT !.passo = "gravar", !.produto = p, !.foto = centralIm[p]]
    <3>1. CASE UsarArquivo(q, p)
      <4>1. PICK m : m = [i EXCEPT !.passo = "associar", !.produto = p]
        OBVIOUS
      <4> QED
        BY <2>1, <3>1, <4>1 DEF UsarArquivo
    <3>2. CASE Baixar(q, p)
      <4>1. PICK m : m = [i EXCEPT !.passo = "gravar", !.produto = p, !.foto = centralIm[p]]
        OBVIOUS
      <4> QED
        BY <2>1, <3>2, <4>1 DEF Baixar
    <3> QED
      BY <1>5, <3>1, <3>2
  <2>4. centralIm[p] \in VersaoIm
    BY <1>0
  <2>5. /\ n \in Importacao /\ n.produto = p /\ n.resta = i.resta /\ n.resposta = i.resposta
        /\ n.passo = "associar" \/ (n.passo = "gravar" /\ n.foto = centralIm[p])
    BY <2>1, <2>3, <2>4 DEF Importacao
  <2>6. Fiel(n) /\ Atual(n)
    BY <2>2, <2>5 DEF Fiel, Atual
  <2>7. UNCHANGED <<centralIm, semImagem, linhaIm, arquivoIm, importacoes>>
    BY <1>5 DEF UsarArquivo, Baixar
  <2> QED
    BY <1>a, <2>3, <2>5, <2>6, <2>7
<1>6. ASSUME NEW q \in ImportadorIm, GravarArquivo(q) PROVE InvImagens'
  <2>1. PICK i \in Importacao : i = importador[q]
    BY <1>0
  <2>2. i.passo = "gravar" /\ Fiel(i) /\ Atual(i)
    BY <1>6, <2>1 DEF GravarArquivo, InvImagens
  <2>3. i.produto \in i.resta /\ i.resta \subseteq ComImagem(i.resposta)
    BY <2>2 DEF Fiel
  <2>4. PICK p \in ProdutoIm : p = i.produto
    BY <2>3 DEF ComImagem
  <2>5. PICK v \in 1..NumVersao : v = i.resposta[p]
    BY <2>1, <2>3, <2>4 DEF Importacao, ComImagem, VersaoIm
  <2>6. PICK f \in VersaoIm : f = i.foto
    BY <2>1 DEF Importacao
  <2>7. v <= f
    BY <2>2, <2>4, <2>5, <2>6 DEF Fiel
  <2>8. PICK n : n = [i EXCEPT !.passo = "associar", !.foto = 0]
    OBVIOUS
  <2>9. n \in Importacao /\ n.passo = "associar" /\ n.resta = i.resta /\ n.produto = i.produto
        /\ n.resposta = i.resposta
    BY <1>0, <2>1, <2>8 DEF Importacao
  <2>10. Fiel(n) /\ Atual(n)
    BY <2>2, <2>3, <2>9 DEF Fiel, Atual
  <2>11. /\ importador' = [importador EXCEPT ![q] = n]
         /\ UNCHANGED <<centralIm, semImagem, linhaIm, importacoes>>
         /\ arquivoIm' = [arquivoIm EXCEPT ![<<p, NomeVersao[v]>>] = f]
    BY <1>6, <2>1, <2>4, <2>5, <2>6, <2>8 DEF GravarArquivo, ArquivoPedido
  <2>12. NomeVersao[v] \in NomeIm /\ <<p, NomeVersao[v]>> \in Arquivos
    BY DEF NomeIm, Arquivos
  <2>13. arquivoIm' \in [Arquivos -> VersaoIm]
    BY <1>0, <2>11
  <2>14. v \in 1..f
    BY <2>7 DEF VersaoIm
  <2>15. FotosIm'
    <3> SUFFICES ASSUME NEW x \in ProdutoIm, NEW m \in NomeIm, arquivoIm'[<<x, m>>] # 0
                 PROVE  \E w \in 1..arquivoIm'[<<x, m>>] : NomeVersao[w] = m
      BY DEF FotosIm
    <3>1. <<x, m>> \in Arquivos
      BY DEF Arquivos
    <3>2. CASE <<x, m>> = <<p, NomeVersao[v]>>
      <4>1. arquivoIm'[<<x, m>>] = f /\ m = NomeVersao[v]
        BY <1>0, <2>11, <2>12, <3>2
      <4> QED
        BY <2>14, <4>1
    <3>3. CASE <<x, m>> # <<p, NomeVersao[v]>>
      <4>1. arquivoIm'[<<x, m>>] = arquivoIm[<<x, m>>]
        BY <1>0, <2>11, <3>1, <3>3
      <4> QED
        BY <4>1 DEF InvImagens, FotosIm
    <3> QED
      BY <3>2, <3>3
  <2>16. /\ importador' \in [ImportadorIm -> Importacao]
         /\ \A x \in ImportadorIm : Fiel(importador[x])' /\ Atual(importador[x])'
    BY <2>9, <2>10, <2>11, MudaImportador
  <2> QED
    BY <2>11, <2>13, <2>15, <2>16 DEF InvImagens, TypeOKImagens, NomeDaLinha
\* the steps that touch the import alone
<1>7. ASSUME NEW q \in ImportadorIm, NEW p \in ProdutoIm, BaixarFalhou(q, p) PROVE InvImagens'
  <2>1. PICK i \in Importacao : i = importador[q]
    BY <1>0
  <2>2. PICK n : n = [i EXCEPT !.resta = @ \ {p}]
    OBVIOUS
  <2>3. i.passo = "baixar" /\ Fiel(i) /\ Atual(i)
    BY <1>7, <2>1 DEF BaixarFalhou, InvImagens
  <2>4. /\ n \in Importacao /\ n.passo = "baixar" /\ n.resta \subseteq ComImagem(n.resposta)
        /\ n.resposta = i.resposta
    BY <2>1, <2>2, <2>3 DEF Importacao, Fiel
  <2>5. Fiel(n) /\ Atual(n)
    BY <2>3, <2>4 DEF Fiel, Atual
  <2>6. /\ importador' = [importador EXCEPT ![q] = n]
        /\ UNCHANGED <<centralIm, semImagem, linhaIm, arquivoIm, importacoes>>
    BY <1>7, <2>1, <2>2 DEF BaixarFalhou
  <2> QED
    BY <1>a, <2>4, <2>5, <2>6
<1>8. ASSUME NEW q \in ImportadorIm, Varrer(q) \/ LerUsados(q) PROVE InvImagens'
  <2>1. PICK i \in Importacao : i = importador[q]
    BY <1>0
  <2>2. PICK s \in {"varrer", "remover"}, R \in {{a \in Arquivos : arquivoIm[a] # 0}, i.resta \ EmUso} :
             /\ importador' = [importador EXCEPT ![q].passo = s, ![q].resta = R]
             /\ UNCHANGED <<centralIm, semImagem, linhaIm, arquivoIm, importacoes>>
    BY <1>8, <2>1 DEF Varrer, LerUsados
  <2>3. PICK n : n = [i EXCEPT !.passo = s, !.resta = R]
    OBVIOUS
  <2>4. n \in Importacao /\ n.passo \in {"varrer", "remover"} /\ n.resposta = i.resposta
    BY <1>0, <2>1, <2>2, <2>3 DEF Importacao
  <2>5. Fiel(n) /\ Atual(n)
    BY <2>1, <2>4 DEF Fiel, Atual, InvImagens
  <2>6. importador' = [importador EXCEPT ![q] = n]
    BY <2>1, <2>2, <2>3
  <2> QED
    BY <1>a, <2>2, <2>4, <2>5, <2>6
<1>9. ASSUME NEW q \in ImportadorIm, NEW a \in Arquivos, Remover(q, a) PROVE InvImagens'
  <2>1. PICK i \in Importacao : i = importador[q]
    BY <1>0
  <2>2. PICK n : n = [i EXCEPT !.resta = @ \ {a}]
    OBVIOUS
  <2>3. n \in Importacao /\ n.passo = "remover" /\ n.resposta = i.resposta
    BY <1>9, <2>1, <2>2 DEF Remover, Importacao
  <2>4. Fiel(n) /\ Atual(n)
    BY <2>1, <2>3 DEF Fiel, Atual, InvImagens
  <2>5. /\ importador' = [importador EXCEPT ![q] = n] /\ arquivoIm' = [arquivoIm EXCEPT ![a] = 0]
        /\ UNCHANGED <<centralIm, semImagem, linhaIm, importacoes>>
    BY <1>9, <2>1, <2>2 DEF Remover
  <2>6. /\ importador' \in [ImportadorIm -> Importacao]
        /\ \A x \in ImportadorIm : Fiel(importador[x])' /\ Atual(importador[x])'
    BY <2>3, <2>4, <2>5, MudaImportador
  <2>7. arquivoIm' \in [Arquivos -> VersaoIm]
    BY <1>0, <2>5
  <2>8. \A x \in Arquivos : arquivoIm'[x] = 0 \/ arquivoIm'[x] = arquivoIm[x]
    BY <1>0, <2>5
  <2>9. FotosIm'
    <3> SUFFICES ASSUME NEW x \in ProdutoIm, NEW m \in NomeIm, arquivoIm'[<<x, m>>] # 0
                 PROVE  \E w \in 1..arquivoIm'[<<x, m>>] : NomeVersao[w] = m
      BY DEF FotosIm
    <3>1. arquivoIm'[<<x, m>>] = arquivoIm[<<x, m>>]
      BY <2>8 DEF Arquivos
    <3> QED
      BY <3>1 DEF InvImagens, FotosIm
  <2> QED
    BY <2>5, <2>6, <2>7, <2>9 DEF InvImagens, TypeOKImagens, NomeDaLinha
<1>10. ASSUME NEW q \in ImportadorIm, Terminar(q) PROVE InvImagens'
  <2>1. Atual(ImLivre)
    BY <1>0 DEF Atual, ImLivre, VersaoIm
  <2> QED
    BY <1>10, <1>a, <2>1, ImLivreFiel DEF Terminar
<1>11. CASE UNCHANGED varsImagens
  BY <1>11 DEF varsImagens, InvImagens, TypeOKImagens, NomeDaLinha, FotosIm, Fiel, Atual
<1> QED
  BY <1>1, <1>2, <1>3, <1>4, <1>5, <1>6, <1>7, <1>8, <1>9, <1>10, <1>11 DEF NextImagens

\* The file a row names is the one of its version's name and holds no picture older
\* than every version of that name, for any products, versions, names and imports
\* at once, while the Central changes its pictures (catalogo.py
\* _associar_imagem_produto, retaguarda.py baixar_catalogo_imagem).
THEOREM ImagemCertaSempre == SpecImagens => []ImagemCerta
<1>1. InitImagens => InvImagens
  <2> SUFFICES ASSUME InitImagens PROVE InvImagens
    OBVIOUS
  <2> USE ConstantesImagens
  <2>1. 0 \in VersaoIm
    BY DEF VersaoIm
  <2>2. importador \in [ImportadorIm -> Importacao] /\ \A q \in ImportadorIm : Fiel(importador[q])
    BY ImLivreFiel DEF InitImagens
  <2>3. \A q \in ImportadorIm : Atual(importador[q])
    BY DEF InitImagens, Atual, ImLivre
  <2>4. TypeOKImagens
    BY <2>1, <2>2 DEF InitImagens, TypeOKImagens
  <2>5. NomeDaLinha /\ FotosIm
    BY DEF InitImagens, NomeDaLinha, FotosIm, Arquivos
  <2> QED
    BY <2>2, <2>3, <2>4, <2>5 DEF InvImagens
<1>2. InvImagens => ImagemCerta
  <2> SUFFICES ASSUME InvImagens, NEW p \in ProdutoIm, linhaIm[p].local # 0
               PROVE  /\ linhaIm[p].versao # 0 /\ linhaIm[p].local = NomeVersao[linhaIm[p].versao]
                      /\ arquivoIm[<<p, linhaIm[p].local>>] # 0 =>
                           \E v \in 1..arquivoIm[<<p, linhaIm[p].local>>] : NomeVersao[v] = linhaIm[p].local
    BY DEF ImagemCerta
  <2> USE ConstantesImagens
  <2>1. linhaIm[p].versao # 0 /\ linhaIm[p].local = NomeVersao[linhaIm[p].versao]
    BY DEF InvImagens, NomeDaLinha
  <2>2. linhaIm[p] \in [versao : VersaoIm, local : VersaoIm]
    BY DEF InvImagens, TypeOKImagens
  <2>3. linhaIm[p].local \in NomeIm
    BY <2>2 DEF VersaoIm, NomeIm
  <2> QED
    BY <2>1, <2>3 DEF InvImagens, FotosIm
<1> QED
  BY <1>1, <1>2, PassoImagens, PTL DEF SpecImagens

-----------------------------------------------------------------------------
(* Acesso: types *)

LinhaTerminal == [ativo : BOOLEAN, token : CodigoAc \cup {NuloAc}]
LinhaCodigo ==
  [terminal : TerminalAc \cup {NuloAc}, expirado : BOOLEAN, antigo : BOOLEAN,
   status : {"NENHUM", "VIVO", "USADO", "REVOGADO"}]
LinhaSessao ==
  [terminal : TerminalAc \cup {NuloAc}, operador : OperadorAc \cup {NuloAc},
   senha : 0..MaxSenha, ativa : BOOLEAN]

TipoPareamento ==
  terminalAc \in [TerminalAc -> LinhaTerminal] /\ codigo \in [CodigoAc -> LinhaCodigo]
TipoSessoes == sessaoAc \in [SessaoAc -> LinhaSessao] /\ login \in [LoginAc -> Login]

\* the code c keeps its terminal and its clock
MesmoCodigo(c) ==
  codigo'[c].terminal = codigo[c].terminal /\ codigo'[c].expirado = codigo[c].expirado

LEMMA RevogarCodigos ==
  ASSUME TipoPareamento, NEW C
  PROVE  /\ Revogados(C) \in [CodigoAc -> LinhaCodigo]
         /\ \A c \in CodigoAc :
              /\ Revogados(C)[c].terminal = codigo[c].terminal
              /\ Revogados(C)[c].expirado = codigo[c].expirado
              /\ Revogados(C)[c].antigo = codigo[c].antigo
              /\ Revogados(C)[c].status = IF c \in C THEN "REVOGADO" ELSE codigo[c].status
<1> SUFFICES ASSUME NEW c \in CodigoAc
             PROVE  /\ Revogados(C)[c] \in LinhaCodigo
                    /\ Revogados(C)[c].terminal = codigo[c].terminal
                    /\ Revogados(C)[c].expirado = codigo[c].expirado
                    /\ Revogados(C)[c].antigo = codigo[c].antigo
                    /\ Revogados(C)[c].status = IF c \in C THEN "REVOGADO" ELSE codigo[c].status
  BY DEF Revogados
<1>1. PICK l \in LinhaCodigo : l = codigo[c]
  BY DEF TipoPareamento
<1>2. PICK n : n = [l EXCEPT !.status = "REVOGADO"]
  OBVIOUS
<1>3. /\ n \in LinhaCodigo /\ n.terminal = l.terminal /\ n.expirado = l.expirado
      /\ n.antigo = l.antigo /\ n.status = "REVOGADO"
  BY <1>1, <1>2 DEF LinhaCodigo
<1>4. Revogados(C)[c] = IF c \in C THEN n ELSE l
  BY <1>1, <1>2 DEF Revogados
<1> QED
  BY <1>1, <1>3, <1>4

LEMMA InvalidarIdentidade ==
  ASSUME TipoPareamento, NEW T \in SUBSET TerminalAc, Invalidar(T)
  PROVE  /\ TipoPareamento'
         /\ \A t \in TerminalAc : IF t \in T THEN terminalAc'[t].token = NuloAc
                                  ELSE terminalAc'[t] = terminalAc[t]
         /\ \A c \in CodigoAc :
              /\ MesmoCodigo(c)
              /\ codigo'[c].antigo <=> codigo[c].antigo \/ codigo[c].terminal \in T
              /\ codigo'[c].status = IF c \in ARevogar(T) THEN "REVOGADO" ELSE codigo[c].status
<1>1. terminalAc' = [t \in TerminalAc |-> IF t \in T THEN [ativo |-> FALSE, token |-> NuloAc]
                                          ELSE terminalAc[t]]
  BY DEF Invalidar
<1>2. [ativo |-> FALSE, token |-> NuloAc] \in LinhaTerminal
  BY Zenon DEF LinhaTerminal
<1>3. /\ terminalAc' \in [TerminalAc -> LinhaTerminal]
      /\ \A t \in TerminalAc : IF t \in T THEN terminalAc'[t].token = NuloAc
                               ELSE terminalAc'[t] = terminalAc[t]
  BY <1>1, <1>2 DEF TipoPareamento
<1>4. PICK R \in [CodigoAc -> LinhaCodigo] : R = Revogados(ARevogar(T))
  BY RevogarCodigos
<1>5. codigo' = [c \in CodigoAc |-> [R[c] EXCEPT !.antigo = @ \/ codigo[c].terminal \in T]]
  BY <1>4, Zenon DEF Invalidar
<1>6. ASSUME NEW c \in CodigoAc
      PROVE  /\ codigo'[c] \in LinhaCodigo
             /\ MesmoCodigo(c)
             /\ codigo'[c].antigo <=> codigo[c].antigo \/ codigo[c].terminal \in T
             /\ codigo'[c].status = IF c \in ARevogar(T) THEN "REVOGADO" ELSE codigo[c].status
  <2>1. PICK l \in LinhaCodigo : l = R[c]
    BY <1>4
  <2>2. PICK b \in BOOLEAN : b = (l.antigo \/ codigo[c].terminal \in T)
    OBVIOUS
  <2>3. codigo'[c] = [l EXCEPT !.antigo = b]
    BY <1>5, <2>1, <2>2, Zenon
  <2>4. /\ codigo'[c] \in LinhaCodigo /\ codigo'[c].antigo = b
        /\ codigo'[c].terminal = l.terminal /\ codigo'[c].expirado = l.expirado
        /\ codigo'[c].status = l.status
    BY <2>1, <2>3 DEF LinhaCodigo
  <2>5. /\ l.terminal = codigo[c].terminal /\ l.expirado = codigo[c].expirado
        /\ l.antigo = codigo[c].antigo
        /\ l.status = IF c \in ARevogar(T) THEN "REVOGADO" ELSE codigo[c].status
    BY <1>4, <2>1, RevogarCodigos
  <2>6. b <=> codigo[c].antigo \/ codigo[c].terminal \in T
    BY <2>2, <2>5, Zenon
  <2> QED
    BY <2>4, <2>5, <2>6, Zenon DEF MesmoCodigo
<1>7. codigo' \in [CodigoAc -> LinhaCodigo]
  BY <1>5, <1>6
<1> QED
  BY <1>3, <1>6, <1>7 DEF TipoPareamento

-----------------------------------------------------------------------------
(* Acesso: the identity of a terminal *)

\* the token of a terminal is of a code used for it, generated since its last
\* deactivation or expired before it; so is a code that may still pair
InvIdentidade ==
  /\ TipoPareamento
  /\ \A t \in TerminalAc : terminalAc[t].token # NuloAc =>
       /\ terminalAc[t].ativo
       /\ codigo[terminalAc[t].token].status = "USADO"
       /\ codigo[terminalAc[t].token].terminal = t
       /\ codigo[terminalAc[t].token].antigo => codigo[terminalAc[t].token].expirado
  /\ \A c \in CodigoAc : codigo[c].status = "VIVO" =>
       codigo[c].terminal \in TerminalAc /\ (codigo[c].expirado \/ ~codigo[c].antigo)

LEMMA PassoInvalidar ==
  ASSUME ConstantesAcesso, InvIdentidade, NEW T \in SUBSET TerminalAc, Invalidar(T)
  PROVE  InvIdentidade'
<1>1. /\ TipoPareamento'
      /\ \A t \in TerminalAc : IF t \in T THEN terminalAc'[t].token = NuloAc
                               ELSE terminalAc'[t] = terminalAc[t]
      /\ \A c \in CodigoAc :
           /\ MesmoCodigo(c)
           /\ codigo'[c].antigo <=> codigo[c].antigo \/ codigo[c].terminal \in T
           /\ codigo'[c].status = IF c \in ARevogar(T) THEN "REVOGADO" ELSE codigo[c].status
  BY InvalidarIdentidade DEF InvIdentidade
<1>2. ASSUME NEW t \in TerminalAc, terminalAc'[t].token # NuloAc
      PROVE  /\ terminalAc'[t].ativo
             /\ codigo'[terminalAc'[t].token].status = "USADO"
             /\ codigo'[terminalAc'[t].token].terminal = t
             /\ codigo'[terminalAc'[t].token].antigo => codigo'[terminalAc'[t].token].expirado
  <2>1. t \notin T /\ terminalAc'[t] = terminalAc[t]
    BY <1>1, <1>2
  <2>2. PICK c \in CodigoAc : c = terminalAc[t].token
    BY <1>2, <2>1 DEF InvIdentidade, TipoPareamento, LinhaTerminal
  <2>3. terminalAc[t].ativo /\ codigo[c].status = "USADO" /\ codigo[c].terminal = t
        /\ (codigo[c].antigo => codigo[c].expirado)
    BY <1>2, <2>1, <2>2 DEF InvIdentidade
  <2>4. c \notin ARevogar(T)
    BY <2>3 DEF ARevogar, Vivo
  <2> QED
    BY <1>1, <2>1, <2>2, <2>3, <2>4 DEF MesmoCodigo
<1>3. ASSUME NEW c \in CodigoAc, codigo'[c].status = "VIVO"
      PROVE  codigo'[c].terminal \in TerminalAc /\ (codigo'[c].expirado \/ ~codigo'[c].antigo)
  <2>1. codigo[c].status = "VIVO" /\ c \notin ARevogar(T)
    BY <1>1, <1>3
  <2>2. codigo[c].expirado \/ codigo[c].terminal \notin T
    BY <2>1 DEF ARevogar, Vivo
  <2>3. codigo[c].terminal \in TerminalAc /\ (codigo[c].expirado \/ ~codigo[c].antigo)
    BY <2>1 DEF InvIdentidade
  <2> QED
    BY <1>1, <2>2, <2>3, Zenon DEF MesmoCodigo
<1> QED
  BY <1>1, <1>2, <1>3, Zenon DEF InvIdentidade

LEMMA PassoIdentidade ==
  ASSUME ConstantesAcesso, InvIdentidade, [NextAcesso]_varsAcesso
  PROVE  InvIdentidade'
<1>0. /\ terminalAc \in [TerminalAc -> LinhaTerminal] /\ codigo \in [CodigoAc -> LinhaCodigo]
      /\ NuloAc \notin CodigoAc /\ NuloAc \notin TerminalAc
  BY DEF InvIdentidade, TipoPareamento, ConstantesAcesso
<1>a. ASSUME UNCHANGED <<terminalAc, codigo>> PROVE InvIdentidade'
  BY <1>a DEF InvIdentidade, TipoPareamento
\* the code that is the token of a terminal
<1>b. \A t \in TerminalAc : terminalAc[t].token # NuloAc => terminalAc[t].token \in CodigoAc
  BY <1>0 DEF LinhaTerminal
<1>1. ASSUME NEW t \in TerminalAc, ConfigurarTerminalAc(t) PROVE InvIdentidade'
  <2>1. PICK l \in LinhaTerminal : l = terminalAc[t]
    BY <1>0
  <2>2. PICK n : n = [l EXCEPT !.ativo = TRUE]
    OBVIOUS
  <2>3. n \in LinhaTerminal /\ n.token = l.token
    BY <2>1, <2>2, Zenon DEF LinhaTerminal
  <2>4. terminalAc' = [terminalAc EXCEPT ![t] = n] /\ codigo' = codigo
    BY <1>1, <2>1, <2>2, Zenon DEF ConfigurarTerminalAc
  <2>5. terminalAc[t].token = NuloAc
    BY <1>1 DEF ConfigurarTerminalAc, InvIdentidade
  <2>6. \A x \in TerminalAc : terminalAc'[x] = IF x = t THEN n ELSE terminalAc[x]
    BY <1>0, <2>4
  <2>7. terminalAc' \in [TerminalAc -> LinhaTerminal]
    BY <1>0, <2>3, <2>4
  <2> QED
    BY <2>1, <2>3, <2>4, <2>5, <2>6, <2>7 DEF InvIdentidade, TipoPareamento
<1>2. ASSUME NEW t \in TerminalAc, DesativarTerminal(t) PROVE InvIdentidade'
  BY <1>2, PassoInvalidar DEF DesativarTerminal
<1>3. ASSUME NEW t \in TerminalAc, NEW c \in CodigoAc, GerarPareamento(t, c) PROVE InvIdentidade'
  <2>1. PICK R \in [CodigoAc -> LinhaCodigo] : R = Revogados(ARevogar({t}))
    BY RevogarCodigos DEF InvIdentidade
  <2>2. \A x \in CodigoAc :
          /\ R[x].terminal = codigo[x].terminal /\ R[x].expirado = codigo[x].expirado
          /\ R[x].antigo = codigo[x].antigo
          /\ R[x].status = IF x \in ARevogar({t}) THEN "REVOGADO" ELSE codigo[x].status
    BY <2>1, RevogarCodigos DEF InvIdentidade
  <2>3. PICK n : n = [terminal |-> t, expirado |-> FALSE, antigo |-> FALSE, status |-> "VIVO"]
    OBVIOUS
  <2>4. n \in LinhaCodigo /\ n.terminal = t /\ ~n.antigo
    BY <2>3, Zenon DEF LinhaCodigo
  <2>5. codigo' = [R EXCEPT ![c] = n] /\ terminalAc' = terminalAc /\ codigo[c].status = "NENHUM"
    BY <1>3, <2>1, <2>3, Zenon DEF GerarPareamento
  <2>6. codigo' \in [CodigoAc -> LinhaCodigo] /\ \A x \in CodigoAc : codigo'[x] = IF x = c THEN n ELSE R[x]
    BY <2>1, <2>4, <2>5
  <2>7. \A x \in CodigoAc : codigo[x].status = "USADO" => x # c /\ x \notin ARevogar({t})
    BY <2>5 DEF ARevogar, Vivo
  <2>8. \A x \in TerminalAc : terminalAc'[x].token # NuloAc =>
          /\ terminalAc'[x].ativo
          /\ codigo'[terminalAc'[x].token].status = "USADO"
          /\ codigo'[terminalAc'[x].token].terminal = x
          /\ codigo'[terminalAc'[x].token].antigo => codigo'[terminalAc'[x].token].expirado
    <3> SUFFICES ASSUME NEW x \in TerminalAc, terminalAc[x].token # NuloAc
                 PROVE  /\ terminalAc[x].ativo
                        /\ codigo'[terminalAc[x].token].status = "USADO"
                        /\ codigo'[terminalAc[x].token].terminal = x
                        /\ codigo'[terminalAc[x].token].antigo => codigo'[terminalAc[x].token].expirado
      BY <2>5
    <3>1. PICK k \in CodigoAc : k = terminalAc[x].token
      BY <1>b
    <3>2. terminalAc[x].ativo /\ codigo[k].status = "USADO" /\ codigo[k].terminal = x
           /\ (codigo[k].antigo => codigo[k].expirado)
      BY <3>1 DEF InvIdentidade
    <3>3. codigo'[k] = R[k] /\ k \notin ARevogar({t})
      BY <2>6, <2>7, <3>2
    <3> QED
      BY <2>2, <3>1, <3>2, <3>3
  <2>9. \A x \in CodigoAc : codigo'[x].status = "VIVO" =>
          codigo'[x].terminal \in TerminalAc /\ (codigo'[x].expirado \/ ~codigo'[x].antigo)
    BY <2>2, <2>4, <2>6 DEF InvIdentidade
  <2> QED
    BY <1>0, <2>5, <2>6, <2>8, <2>9, Zenon DEF InvIdentidade, TipoPareamento
<1>4. ASSUME NEW c \in CodigoAc, Expirar(c) PROVE InvIdentidade'
  <2>1. PICK l \in LinhaCodigo : l = codigo[c]
    BY <1>0
  <2>2. PICK n : n = [l EXCEPT !.expirado = TRUE]
    OBVIOUS
  <2>3. /\ n \in LinhaCodigo /\ n.terminal = l.terminal /\ n.antigo = l.antigo /\ n.status = l.status
        /\ n.expirado
    BY <2>1, <2>2, Zenon DEF LinhaCodigo
  <2>4. codigo' = [codigo EXCEPT ![c] = n] /\ terminalAc' = terminalAc
    BY <1>4, <2>1, <2>2, Zenon DEF Expirar
  <2>5. codigo' \in [CodigoAc -> LinhaCodigo] /\ \A x \in CodigoAc : codigo'[x] = IF x = c THEN n ELSE codigo[x]
    BY <1>0, <2>3, <2>4
  <2> QED
    BY <1>0, <1>b, <2>1, <2>3, <2>4, <2>5 DEF InvIdentidade, TipoPareamento
<1>5. ASSUME NEW c \in CodigoAc, Parear(c) PROVE InvIdentidade'
  <2>1. PICK l \in LinhaCodigo : l = codigo[c]
    BY <1>0
  <2>2. PICK n : n = [l EXCEPT !.status = "USADO"]
    OBVIOUS
  <2>3. /\ n \in LinhaCodigo /\ n.terminal = l.terminal /\ n.antigo = l.antigo
        /\ n.expirado = l.expirado /\ n.status = "USADO"
    BY <2>1, <2>2 DEF LinhaCodigo
  <2>4. l.status = "VIVO" /\ terminalAc[l.terminal].ativo
    BY <1>5, <2>1, Zenon DEF Parear, Pareavel
  <2>5. PICK t \in TerminalAc : t = l.terminal
    BY <2>1, <2>4 DEF InvIdentidade
  <2>6. l.antigo => l.expirado
    BY <2>1, <2>4 DEF InvIdentidade
  <2>7. PICK k \in LinhaTerminal : k = terminalAc[t]
    BY <1>0
  <2>8. PICK m : m = [k EXCEPT !.token = c]
    OBVIOUS
  <2>9. m \in LinhaTerminal /\ m.token = c /\ m.ativo = k.ativo
    BY <2>7, <2>8 DEF LinhaTerminal
  <2>10. terminalAc' = [terminalAc EXCEPT ![t] = m] /\ codigo' = [codigo EXCEPT ![c] = n]
    BY <1>5, <2>1, <2>2, <2>5, <2>7, <2>8, Zenon DEF Parear
  <2>11. /\ codigo' \in [CodigoAc -> LinhaCodigo] /\ terminalAc' \in [TerminalAc -> LinhaTerminal]
         /\ \A x \in CodigoAc : codigo'[x] = IF x = c THEN n ELSE codigo[x]
         /\ \A x \in TerminalAc : terminalAc'[x] = IF x = t THEN m ELSE terminalAc[x]
    BY <1>0, <2>3, <2>9, <2>10
  <2>12. \A x \in TerminalAc : terminalAc'[x].token # NuloAc =>
          /\ terminalAc'[x].ativo
          /\ codigo'[terminalAc'[x].token].status = "USADO"
          /\ codigo'[terminalAc'[x].token].terminal = x
          /\ codigo'[terminalAc'[x].token].antigo => codigo'[terminalAc'[x].token].expirado
    <3> SUFFICES ASSUME NEW x \in TerminalAc, terminalAc'[x].token # NuloAc
                 PROVE  /\ terminalAc'[x].ativo
                        /\ codigo'[terminalAc'[x].token].status = "USADO"
                        /\ codigo'[terminalAc'[x].token].terminal = x
                        /\ codigo'[terminalAc'[x].token].antigo => codigo'[terminalAc'[x].token].expirado
      OBVIOUS
    <3>1. CASE x = t
      <4>1. terminalAc'[x] = m /\ codigo'[c] = n
        BY <2>11, <3>1
      <4> QED
        BY <2>3, <2>4, <2>5, <2>6, <2>7, <2>9, <3>1, <4>1
    <3>2. CASE x # t
      <4>1. terminalAc'[x] = terminalAc[x] /\ terminalAc[x].token \in CodigoAc
        BY <1>b, <2>11, <3>2
      <4>2. codigo[terminalAc[x].token].status = "USADO"
        BY <4>1 DEF InvIdentidade
      <4>3. codigo'[terminalAc[x].token] = codigo[terminalAc[x].token]
        BY <2>1, <2>4, <2>11, <4>1, <4>2
      <4> QED
        BY <4>1, <4>3 DEF InvIdentidade
    <3> QED
      BY <3>1, <3>2
  <2>13. \A x \in CodigoAc : codigo'[x].status = "VIVO" =>
          codigo'[x].terminal \in TerminalAc /\ (codigo'[x].expirado \/ ~codigo'[x].antigo)
    BY <2>3, <2>11 DEF InvIdentidade
  <2> QED
    BY <2>11, <2>12, <2>13, Zenon DEF InvIdentidade, TipoPareamento
<1>6. CASE HeartbeatRecusado
  BY <1>6, PassoInvalidar DEF HeartbeatRecusado
<1>7. CASE AtivarHub \/ RevogarNaCentral \/ PedirHeartbeat \/ HeartbeatAceito \/ HeartbeatFalhou
           \/ ImportarOperadores
  BY <1>7, <1>a DEF AtivarHub, RevogarNaCentral, PedirHeartbeat, HeartbeatAceito, HeartbeatFalhou,
                    ImportarOperadores, varsPar
<1>8. ASSUME NEW o \in OperadorAc, CentralMudaOperador(o) PROVE InvIdentidade'
  BY <1>8, <1>a DEF CentralMudaOperador, varsPar
<1>9. ASSUME NEW s \in SessaoAc, EncerrarSessao(s) PROVE InvIdentidade'
  BY <1>9, <1>a DEF EncerrarSessao, varsPar
<1>10. ASSUME NEW q \in LoginAc, LoginEncerrar(q) PROVE InvIdentidade'
  BY <1>10, <1>a DEF LoginEncerrar, varsPar
<1>11. CASE UNCHANGED varsAcesso
  BY <1>11, <1>a DEF varsAcesso
<1>12. ASSUME NEW q \in LoginAc, NEW t \in TerminalAc, NEW o \in OperadorAc, LoginLer(q, t, o) PROVE InvIdentidade'
  BY <1>12, <1>a DEF LoginLer, varsPar
<1>13. ASSUME NEW q \in LoginAc, NEW s \in SessaoAc, LoginGravar(q, s) PROVE InvIdentidade'
  BY <1>13, <1>a DEF LoginGravar, varsPar
<1>14. ASSUME NEW c \in CodigoAc, PedirPareamento(c) \/ PareamentoRecusado(c) PROVE InvIdentidade'
  BY <1>14, <1>a DEF PedirPareamento, PareamentoRecusado
<1> QED
  BY <1>1, <1>2, <1>3, <1>4, <1>5, <1>6, <1>7, <1>8, <1>9, <1>10, <1>11, <1>12, <1>13, <1>14 DEF NextAcesso

-----------------------------------------------------------------------------
(* Acesso: the sessions of a terminal *)

Lido == [passo : {"lido"}, terminal : TerminalAc, operador : OperadorAc, senha : 1..MaxSenha]
Gravando ==
  [passo : {"gravar"}, terminal : TerminalAc, operador : OperadorAc, senha : 1..MaxSenha,
   fim : SUBSET SessaoAc, juntas : SUBSET SessaoAc]
LinhaFeita == [juntas : SUBSET SessaoAc, livre : BOOLEAN]
TipoLogins == TipoSessoes /\ feita \in [SessaoAc -> LinhaFeita]
Salvando(q) == login[q].passo = "gravar"

TipoOperadores ==
  /\ operadorAc \in [OperadorAc -> [ativo : BOOLEAN, senha : 0..MaxSenha]]
  /\ operadorCentral \in [OperadorAc -> [ativo : BOOLEAN, senha : 1..MaxSenha]]
  /\ \A o \in OperadorAc : operadorAc[o].ativo => operadorAc[o].senha \in 1..MaxSenha

\* a login that is about to save knows every session of its terminal: those it
\* ends, which stay locked, and those saved since; two logins of a terminal do
\* not both hold sessions of it
InvSessao ==
  /\ TipoLogins /\ TipoOperadores
  /\ \A q \in LoginAc : Salvando(q) =>
       /\ \A s \in SessaoAc : sessaoAc[s].ativa /\ sessaoAc[s].terminal = login[q].terminal
                              => s \in login[q].fim \cup login[q].juntas
       /\ \A s \in login[q].fim : sessaoAc[s].ativa /\ sessaoAc[s].terminal = login[q].terminal
       /\ \A s \in login[q].juntas : /\ sessaoAc[s].terminal = login[q].terminal
                                     /\ feita[s].livre \/ login[q].fim = {}
  /\ \A x, y \in LoginAc : x # y /\ Salvando(x) /\ Salvando(y) /\ login[x].terminal = login[y].terminal
                           => login[x].fim = {} \/ login[y].fim = {}
  /\ SessaoUnica

LEMMA PassosDoLogin ==
  /\ SemLogin \in Login /\ SemLogin.passo = "livre"
  /\ \A l \in Login : \/ l = SemLogin
                      \/ l \in Lido /\ l.passo = "lido"
                      \/ l \in Gravando /\ l.passo = "gravar"
  /\ Lido \subseteq Login /\ Gravando \subseteq Login
<1>1. SemLogin \in Login /\ SemLogin.passo = "livre"
  BY DEF Login, SemLogin
<1>2. Login = {SemLogin} \cup Lido \cup Gravando
  BY DEF Login, Lido, Gravando
<1>3. (\A l \in Lido : l.passo = "lido") /\ \A l \in Gravando : l.passo = "gravar"
  BY DEF Lido, Gravando
<1> QED
  BY <1>1, <1>2, <1>3

LEMMA EncerrarSessoes ==
  ASSUME TipoSessoes, NEW S
  PROVE  /\ Encerradas(S) \in [SessaoAc -> LinhaSessao]
         /\ \A s \in SessaoAc :
              /\ Encerradas(S)[s].terminal = sessaoAc[s].terminal
              /\ Encerradas(S)[s].ativa <=> s \notin S /\ sessaoAc[s].ativa
<1> SUFFICES ASSUME NEW s \in SessaoAc
             PROVE  /\ Encerradas(S)[s] \in LinhaSessao
                    /\ Encerradas(S)[s].terminal = sessaoAc[s].terminal
                    /\ Encerradas(S)[s].ativa <=> s \notin S /\ sessaoAc[s].ativa
  BY DEF Encerradas
<1>1. PICK l \in LinhaSessao : l = sessaoAc[s]
  BY DEF TipoSessoes
<1>2. PICK n : n = [l EXCEPT !.ativa = FALSE]
  OBVIOUS
<1>3. n \in LinhaSessao /\ n.terminal = l.terminal /\ ~n.ativa
  BY <1>1, <1>2, Zenon DEF LinhaSessao
<1>4. Encerradas(S)[s] = IF s \in S THEN n ELSE l
  BY <1>1, <1>2 DEF Encerradas
<1> QED
  BY <1>1, <1>3, <1>4

\* sessions that end disturb nothing, when no login has them locked
LEMMA PassoEncerrar ==
  ASSUME InvSessao, NEW S, S \cap TravadasAc = {}, sessaoAc' = Encerradas(S),
         login' = login, feita' = feita, TipoOperadores'
  PROVE  InvSessao'
<1>1. /\ sessaoAc' \in [SessaoAc -> LinhaSessao]
      /\ \A s \in SessaoAc : /\ sessaoAc'[s].terminal = sessaoAc[s].terminal
                             /\ sessaoAc'[s].ativa <=> s \notin S /\ sessaoAc[s].ativa
  BY EncerrarSessoes DEF InvSessao, TipoLogins
<1>2. TipoLogins'
  BY <1>1 DEF InvSessao, TipoLogins, TipoSessoes
<1>3. SessaoUnica'
  BY <1>1 DEF InvSessao, SessaoUnica
<1>4. \A q \in LoginAc : Salvando(q) => login[q].fim \cap S = {}
  BY DEF TravadasAc, Salvando
<1>5. ASSUME NEW q \in LoginAc, Salvando(q)
      PROVE  /\ \A s \in SessaoAc : sessaoAc'[s].ativa /\ sessaoAc'[s].terminal = login[q].terminal
                                    => s \in login[q].fim \cup login[q].juntas
             /\ \A s \in login[q].fim : sessaoAc'[s].ativa /\ sessaoAc'[s].terminal = login[q].terminal
             /\ \A s \in login[q].juntas : /\ sessaoAc'[s].terminal = login[q].terminal
                                           /\ feita[s].livre \/ login[q].fim = {}
  <2>1. login[q] \in Gravando
    BY <1>5, PassosDoLogin DEF Salvando, InvSessao, TipoLogins, TipoSessoes
  <2>2. login[q].fim \subseteq SessaoAc /\ login[q].juntas \subseteq SessaoAc
    BY <2>1 DEF Gravando
  <2> QED
    BY <1>1, <1>4, <1>5, <2>2 DEF InvSessao
<1>6. \A q \in LoginAc : Salvando(q)' <=> Salvando(q)
  BY DEF Salvando
<1> QED
  BY <1>2, <1>3, <1>5, <1>6 DEF InvSessao

LEMMA PassoSessao ==
  ASSUME ConstantesAcesso, InvSessao, [NextAcesso]_varsAcesso
  PROVE  InvSessao'
<1>0. /\ sessaoAc \in [SessaoAc -> LinhaSessao] /\ login \in [LoginAc -> Login]
      /\ feita \in [SessaoAc -> LinhaFeita] /\ NuloAc \notin TerminalAc /\ MaxSenha \in Nat
  BY DEF InvSessao, TipoLogins, TipoSessoes, ConstantesAcesso
\* the parts that hold of the same sessions and logins
<1>b. ASSUME UNCHANGED <<sessaoAc, login, feita>>, TipoOperadores' PROVE InvSessao'
  BY <1>b DEF InvSessao, TipoLogins, TipoSessoes, SessaoUnica, Salvando
<1>a. ASSUME UNCHANGED varsOper PROVE InvSessao'
  BY <1>a, <1>b DEF varsOper, InvSessao, TipoOperadores
<1>1. ASSUME NEW t \in TerminalAc,
             ConfigurarTerminalAc(t) \/ DesativarTerminal(t) \/ \E c \in CodigoAc : GerarPareamento(t, c)
      PROVE  InvSessao'
  BY <1>1, <1>a DEF ConfigurarTerminalAc, DesativarTerminal, GerarPareamento
<1>2. ASSUME NEW c \in CodigoAc, Expirar(c) \/ PedirPareamento(c) \/ Parear(c) \/ PareamentoRecusado(c)
      PROVE  InvSessao'
  BY <1>2, <1>a DEF Expirar, PedirPareamento, Parear, PareamentoRecusado
<1>3. CASE AtivarHub \/ RevogarNaCentral \/ PedirHeartbeat \/ HeartbeatAceito \/ HeartbeatFalhou
           \/ HeartbeatRecusado
  BY <1>3, <1>a DEF AtivarHub, RevogarNaCentral, PedirHeartbeat, HeartbeatAceito, HeartbeatFalhou,
                    HeartbeatRecusado, varsOper
<1>4. ASSUME NEW o \in OperadorAc, CentralMudaOperador(o) PROVE InvSessao'
  <2>1. PICK l \in [ativo : BOOLEAN, senha : 1..MaxSenha] : l = operadorCentral[o]
    BY DEF InvSessao, TipoOperadores
  <2>2. CASE l.senha < MaxSenha /\ operadorCentral' = [operadorCentral EXCEPT ![o].senha = @ + 1]
    <3>1. PICK n : n = [l EXCEPT !.senha = @ + 1]
      OBVIOUS
    <3>2. l.senha + 1 \in 1..MaxSenha
      BY <1>0, <2>1, <2>2
    <3>3. n \in [ativo : BOOLEAN, senha : 1..MaxSenha]
      BY <2>1, <3>1, <3>2
    <3>4. operadorCentral' = [operadorCentral EXCEPT ![o] = n]
      BY <2>1, <2>2, <3>1
    <3>5. operadorCentral' \in [OperadorAc -> [ativo : BOOLEAN, senha : 1..MaxSenha]]
      BY <3>3, <3>4 DEF InvSessao, TipoOperadores
    <3> QED
      BY <1>4, <1>b, <3>5 DEF CentralMudaOperador, InvSessao, TipoOperadores
  <2>3. CASE operadorCentral' = [operadorCentral EXCEPT ![o].ativo = ~@]
    <3>1. PICK b \in BOOLEAN : b = ~l.ativo
      OBVIOUS
    <3>2. PICK n : n = [l EXCEPT !.ativo = b]
      OBVIOUS
    <3>3. n \in [ativo : BOOLEAN, senha : 1..MaxSenha]
      BY <2>1, <3>1, <3>2
    <3>4. operadorCentral' = [operadorCentral EXCEPT ![o] = n]
      BY <2>1, <2>3, <3>1, <3>2, Zenon
    <3>5. operadorCentral' \in [OperadorAc -> [ativo : BOOLEAN, senha : 1..MaxSenha]]
      BY <3>3, <3>4 DEF InvSessao, TipoOperadores
    <3> QED
      BY <1>4, <1>b, <3>5 DEF CentralMudaOperador, InvSessao, TipoOperadores
  <2> QED
    BY <1>4, <2>1, <2>2, <2>3 DEF CentralMudaOperador
<1>5. CASE ImportarOperadores
  <2>1. PICK z : z = [ativo |-> FALSE, senha |-> 0]
    OBVIOUS
  <2>2. z \in [ativo : {FALSE}, senha : {0}] /\ ~z.ativo
    BY <2>1, Zenon
  <2>3. z \in [ativo : BOOLEAN, senha : 0..MaxSenha]
    <3>1. 0 \in 0..MaxSenha
      BY <1>0
    <3> QED
      BY <2>1, <3>1, Zenon
  <2>4. operadorAc' = [o \in OperadorAc |-> IF operadorCentral[o].ativo THEN operadorCentral[o] ELSE z]
    BY <1>5, <2>1, Zenon DEF ImportarOperadores
  <2>5. operadorCentral' = operadorCentral /\ login' = login /\ feita' = feita
    BY <1>5 DEF ImportarOperadores
  <2>6. \A o \in OperadorAc : operadorCentral[o] \in [ativo : BOOLEAN, senha : 1..MaxSenha]
    BY DEF InvSessao, TipoOperadores
  <2>7. \A o \in OperadorAc : operadorCentral[o] \in [ativo : BOOLEAN, senha : 0..MaxSenha]
    BY <1>0, <2>6
  <2>8. TipoOperadores'
    BY <2>2, <2>3, <2>4, <2>5, <2>6, <2>7 DEF InvSessao, TipoOperadores
  <2> QED
    BY <1>5, <2>5, <2>8, PassoEncerrar DEF ImportarOperadores
<1>6. ASSUME NEW q \in LoginAc, NEW t \in TerminalAc, NEW o \in OperadorAc, LoginLer(q, t, o)
      PROVE  InvSessao'
  <2>1. PICK n : n = [passo |-> "lido", terminal |-> t, operador |-> o, senha |-> operadorAc[o].senha]
    OBVIOUS
  <2>2. operadorAc[o].senha \in 1..MaxSenha
    BY <1>6 DEF LoginLer, InvSessao, TipoOperadores
  <2>3. n \in Lido /\ n.passo = "lido"
    BY <2>1, <2>2 DEF Lido
  <2>4. login' = [login EXCEPT ![q] = n] /\ UNCHANGED <<operadorAc, operadorCentral, sessaoAc, feita>>
    BY <1>6, <2>1 DEF LoginLer
  <2>5. /\ login' \in [LoginAc -> Login]
        /\ \A x \in LoginAc : login'[x] = IF x = q THEN n ELSE login[x]
    BY <1>0, <2>3, <2>4, PassosDoLogin
  <2>6. TipoLogins' /\ TipoOperadores' /\ SessaoUnica'
    BY <2>4, <2>5 DEF InvSessao, TipoLogins, TipoSessoes, TipoOperadores, SessaoUnica
  <2>7. \A x \in LoginAc : Salvando(x)' => Salvando(x) /\ login'[x] = login[x]
    BY <2>3, <2>5 DEF Salvando
  <2> QED
    BY <2>4, <2>6, <2>7 DEF InvSessao
<1>7. ASSUME NEW q \in LoginAc, LoginEncerrar(q) PROVE InvSessao'
  <2>1. PICK l \in Lido : l = login[q]
    BY <1>0, <1>7, PassosDoLogin DEF LoginEncerrar
  <2>2. PICK n : n = [passo |-> "gravar", terminal |-> l.terminal, operador |-> l.operador,
                      senha |-> l.senha, fim |-> AtivasDe(l.terminal), juntas |-> {}]
    OBVIOUS
  <2>3. /\ n \in Gravando /\ n.passo = "gravar" /\ n.terminal = l.terminal
        /\ n.fim = AtivasDe(l.terminal) /\ n.juntas = {}
    BY <2>1, <2>2 DEF Lido, Gravando, AtivasDe
  <2>4. /\ login' = [login EXCEPT ![q] = n] /\ UNCHANGED <<operadorAc, operadorCentral, sessaoAc, feita>>
        /\ AtivasDe(l.terminal) \cap TravadasAc = {}
    BY <1>7, <2>1, <2>2 DEF LoginEncerrar, AEncerrar
  <2>5. /\ login' \in [LoginAc -> Login]
        /\ \A x \in LoginAc : login'[x] = IF x = q THEN n ELSE login[x]
    BY <1>0, <2>3, <2>4, PassosDoLogin
  <2>6. TipoLogins' /\ TipoOperadores' /\ SessaoUnica'
    BY <2>4, <2>5 DEF InvSessao, TipoLogins, TipoSessoes, TipoOperadores, SessaoUnica
  <2>7. \A x \in LoginAc : x # q => (Salvando(x)' <=> Salvando(x)) /\ login'[x] = login[x]
    BY <2>5 DEF Salvando
  \* a login that holds sessions of the terminal has them locked
  <2>8. \A x \in LoginAc : x # q /\ Salvando(x) /\ login[x].terminal = l.terminal => login[x].fim = {}
    <3> SUFFICES ASSUME NEW x \in LoginAc, Salvando(x), login[x].terminal = l.terminal,
                        NEW s \in login[x].fim
                 PROVE  FALSE
      OBVIOUS
    <3>1. login[x] \in Gravando
      BY <1>0, PassosDoLogin DEF Salvando
    <3>2. s \in SessaoAc /\ s \in TravadasAc
      BY <3>1 DEF Gravando, TravadasAc, Salvando
    <3>3. s \in AtivasDe(l.terminal)
      BY <3>2 DEF InvSessao, AtivasDe
    <3> QED
      BY <2>4, <3>2, <3>3
  <2>9. /\ \A s \in SessaoAc : sessaoAc[s].ativa /\ sessaoAc[s].terminal = n.terminal
                               => s \in n.fim \cup n.juntas
        /\ \A s \in n.fim : sessaoAc[s].ativa /\ sessaoAc[s].terminal = n.terminal
    BY <2>3 DEF AtivasDe
  <2>10. login'[q] = n
    BY <2>5
  <2>11. \A x, y \in LoginAc : x # y /\ Salvando(x)' /\ Salvando(y)' /\ login'[x].terminal = login'[y].terminal
                              => login'[x].fim = {} \/ login'[y].fim = {}
    BY <2>3, <2>7, <2>8, <2>10 DEF InvSessao
  <2> QED
    BY <2>3, <2>4, <2>6, <2>7, <2>9, <2>10, <2>11 DEF InvSessao
<1>8. ASSUME NEW q \in LoginAc, NEW s \in SessaoAc, LoginGravar(q, s) PROVE InvSessao'
  <2>1. PICK l \in Gravando : l = login[q] /\ l.passo = "gravar"
    BY <1>0, <1>8, PassosDoLogin DEF LoginGravar
  <2>2. PICK R \in [SessaoAc -> LinhaSessao] : R = Encerradas(l.fim)
    BY EncerrarSessoes DEF InvSessao, TipoLogins
  <2>3. \A r \in SessaoAc : /\ R[r].terminal = sessaoAc[r].terminal
                            /\ R[r].ativa <=> r \notin l.fim /\ sessaoAc[r].ativa
    BY <2>2, EncerrarSessoes DEF InvSessao, TipoLogins
  <2>4. PICK n : n = [terminal |-> l.terminal, operador |-> l.operador, senha |-> l.senha, ativa |-> TRUE]
    OBVIOUS
  <2>5. /\ l.senha \in 0..MaxSenha /\ l.terminal \in TerminalAc /\ l.operador \in OperadorAc
        /\ l.juntas \in SUBSET SessaoAc /\ l.fim \in SUBSET SessaoAc
    BY <1>0, <2>1 DEF Gravando
  <2>6. n \in LinhaSessao /\ n.terminal = l.terminal
    BY <2>4, <2>5, Zenon DEF LinhaSessao
  <2>7. PICK b \in BOOLEAN : b = (l.fim = {})
    OBVIOUS
  <2>8. PICK h : h = [juntas |-> l.juntas, livre |-> b]
    OBVIOUS
  <2>9. h \in LinhaFeita /\ h.juntas = l.juntas /\ (h.livre <=> l.fim = {})
    BY <2>5, <2>7, <2>8 DEF LinhaFeita
  <2>10. /\ sessaoAc' = [R EXCEPT ![s] = n] /\ feita' = [feita EXCEPT ![s] = h]
         /\ UNCHANGED <<operadorAc, operadorCentral>>
    BY <1>8, <2>1, <2>2, <2>4, <2>7, <2>8, Zenon DEF LoginGravar
  <2>11. sessaoAc[s].terminal = NuloAc
    BY <1>8 DEF LoginGravar
  <2>12. /\ sessaoAc' \in [SessaoAc -> LinhaSessao] /\ feita' \in [SessaoAc -> LinhaFeita]
         /\ sessaoAc'[s] = n /\ \A r \in SessaoAc \ {s} : sessaoAc'[r] = R[r]
         /\ feita'[s] = h /\ \A r \in SessaoAc \ {s} : feita'[r] = feita[r]
    BY <1>0, <2>2, <2>6, <2>9, <2>10
  \* the other logins of the terminal hear of the session, those of another do not
  <2>13. ASSUME NEW x \in LoginAc
         PROVE  /\ login'[x] \in Login
                /\ login'[x].passo = "gravar" =>
                     /\ x # q /\ login[x].passo = "gravar"
                     /\ login'[x].terminal = login[x].terminal /\ login'[x].fim = login[x].fim
                     /\ login'[x].juntas = IF login[x].terminal = l.terminal THEN login[x].juntas \cup {s}
                                           ELSE login[x].juntas
    <3>1. login'[x] = IF x = q THEN SemLogin
                      ELSE IF x \in Juntos(q) THEN [login[x] EXCEPT !.juntas = login[x].juntas \cup {s}] ELSE login[x]
      BY <1>8, Zenon DEF LoginGravar
    <3>2. CASE x = q
      BY <3>1, <3>2, PassosDoLogin
    <3>3. CASE x # q /\ x \in Juntos(q)
      <4>1. PICK k \in Gravando : k = login[x]
        BY <1>0, <3>3, PassosDoLogin DEF Juntos
      <4>2. k.terminal = l.terminal /\ k.passo = "gravar"
        BY <2>1, <3>3, <4>1 DEF Juntos
      <4>3. PICK J \in SUBSET SessaoAc : J = k.juntas \cup {s}
        BY <4>1 DEF Gravando
      <4>4. PICK m : m = [k EXCEPT !.juntas = J]
        OBVIOUS
      <4>5. m \in Gravando /\ m.terminal = k.terminal /\ m.fim = k.fim /\ m.juntas = J
        BY <4>1, <4>3, <4>4 DEF Gravando
      <4>6. login'[x] = m
        BY <3>1, <3>3, <4>1, <4>3, <4>4
      <4> QED
        BY <3>3, <4>1, <4>2, <4>3, <4>5, <4>6, PassosDoLogin
    <3>4. CASE x # q /\ x \notin Juntos(q)
      <4>1. login'[x] = login[x]
        BY <3>1, <3>4
      <4>2. login[x].passo = "gravar" => login[x].terminal # l.terminal
        BY <2>1, <3>4 DEF Juntos
      <4> QED
        BY <1>0, <3>4, <4>1, <4>2
    <3> QED
      BY <3>2, <3>3, <3>4
  <2>14. TipoLogins' /\ TipoOperadores'
    <3>1. login' \in [LoginAc -> Login]
      BY <1>8, <2>13 DEF LoginGravar
    <3> QED
      BY <2>10, <2>12, <3>1 DEF InvSessao, TipoLogins, TipoSessoes, TipoOperadores
  <2>15. \A r \in SessaoAc \ {s} : /\ sessaoAc'[r].terminal = sessaoAc[r].terminal
                                   /\ sessaoAc'[r].ativa <=> r \notin l.fim /\ sessaoAc[r].ativa
    BY <2>3, <2>12
  <2>16. ASSUME NEW x \in LoginAc, Salvando(x)'
         PROVE  /\ \A r \in SessaoAc : sessaoAc'[r].ativa /\ sessaoAc'[r].terminal = login'[x].terminal
                                       => r \in login'[x].fim \cup login'[x].juntas
                /\ \A r \in login'[x].fim : sessaoAc'[r].ativa /\ sessaoAc'[r].terminal = login'[x].terminal
                /\ \A r \in login'[x].juntas : /\ sessaoAc'[r].terminal = login'[x].terminal
                                               /\ feita'[r].livre \/ login'[x].fim = {}
    <3>1. /\ x # q /\ Salvando(x) /\ login'[x].terminal = login[x].terminal /\ login'[x].fim = login[x].fim
          /\ login'[x].juntas = IF login[x].terminal = l.terminal THEN login[x].juntas \cup {s}
                                ELSE login[x].juntas
      BY <2>13, <2>16 DEF Salvando
    <3>2. PICK k \in Gravando : k = login[x]
      BY <1>0, <3>1, PassosDoLogin DEF Salvando
    <3>3. k.fim \subseteq SessaoAc /\ k.juntas \subseteq SessaoAc /\ k.terminal \in TerminalAc
      BY <3>2 DEF Gravando
    <3>4. /\ \A r \in SessaoAc : sessaoAc[r].ativa /\ sessaoAc[r].terminal = k.terminal
                                 => r \in k.fim \cup k.juntas
          /\ \A r \in k.fim : sessaoAc[r].ativa /\ sessaoAc[r].terminal = k.terminal
          /\ \A r \in k.juntas : sessaoAc[r].terminal = k.terminal /\ (feita[r].livre \/ k.fim = {})
      BY <3>1, <3>2 DEF InvSessao
    <3>5. s \notin k.fim /\ s \notin k.juntas
      BY <1>0, <2>11, <3>3, <3>4
    <3>6. \A r \in l.fim : sessaoAc[r].terminal = l.terminal
      BY <2>1 DEF InvSessao, Salvando
    <3>7. k.terminal = l.terminal => k.fim = {} \/ l.fim = {}
      BY <2>1, <3>1, <3>2 DEF InvSessao, Salvando
    <3>8. \A r \in k.fim : r \notin l.fim
      BY <3>4, <3>6, <3>7
    <3>9. CASE k.terminal = l.terminal
      <4>1. login'[x].juntas = k.juntas \cup {s}
        BY <3>1, <3>2, <3>9
      <4>2. \A r \in SessaoAc : sessaoAc'[r].ativa /\ sessaoAc'[r].terminal = k.terminal
                                => r \in k.fim \cup k.juntas \cup {s}
        BY <2>15, <3>4
      <4>3. \A r \in k.fim : sessaoAc'[r].ativa /\ sessaoAc'[r].terminal = k.terminal
        BY <2>15, <3>3, <3>4, <3>5, <3>8
      <4>4. \A r \in k.juntas : sessaoAc'[r].terminal = k.terminal /\ (feita'[r].livre \/ k.fim = {})
        BY <2>12, <2>15, <3>3, <3>4, <3>5
      <4>5. sessaoAc'[s].terminal = k.terminal /\ (feita'[s].livre \/ k.fim = {})
        BY <2>6, <2>9, <2>12, <3>7, <3>9
      <4> QED
        BY <3>1, <3>2, <4>1, <4>2, <4>3, <4>4, <4>5
    <3>10. CASE k.terminal # l.terminal
      <4>1. login'[x].juntas = k.juntas
        BY <3>1, <3>2, <3>10
      <4>2. \A r \in SessaoAc : sessaoAc'[r].ativa /\ sessaoAc'[r].terminal = k.terminal
                                => r \in k.fim \cup k.juntas
        BY <2>6, <2>12, <2>15, <3>4, <3>10
      <4>3. \A r \in k.fim : sessaoAc'[r].ativa /\ sessaoAc'[r].terminal = k.terminal
        BY <2>15, <3>3, <3>4, <3>5, <3>8
      <4>4. \A r \in k.juntas : sessaoAc'[r].terminal = k.terminal /\ (feita'[r].livre \/ k.fim = {})
        BY <2>12, <2>15, <3>3, <3>4, <3>5
      <4> QED
        BY <3>1, <3>2, <4>1, <4>2, <4>3, <4>4
    <3> QED
      BY <3>9, <3>10
  <2>17. \A x, y \in LoginAc : x # y /\ Salvando(x)' /\ Salvando(y)' /\ login'[x].terminal = login'[y].terminal
                              => login'[x].fim = {} \/ login'[y].fim = {}
    <3>1. \A x \in LoginAc : Salvando(x)' => /\ Salvando(x) /\ login'[x].terminal = login[x].terminal
                                           /\ login'[x].fim = login[x].fim
      BY <2>13 DEF Salvando
    <3>2. \A x, y \in LoginAc : x # y /\ Salvando(x) /\ Salvando(y) /\ login[x].terminal = login[y].terminal
                              => login[x].fim = {} \/ login[y].fim = {}
      BY DEF InvSessao
    <3> QED
      BY <3>1, <3>2
  \* the session that was saved and one that is left
  <2>18. ASSUME NEW r \in SessaoAc \ {s}, sessaoAc'[r].ativa, sessaoAc'[r].terminal = l.terminal
         PROVE  r \in feita'[s].juntas /\ (feita'[r].livre \/ feita'[s].livre)
    <3>1. r \notin l.fim /\ sessaoAc[r].ativa /\ sessaoAc[r].terminal = l.terminal
      BY <2>15, <2>18
    <3>2. r \in l.juntas /\ (feita[r].livre \/ l.fim = {})
      BY <2>1, <3>1 DEF InvSessao, Salvando
    <3> QED
      BY <2>9, <2>12, <3>2
  <2>19. SessaoUnica'
    <3> SUFFICES ASSUME NEW r \in SessaoAc, NEW u \in SessaoAc, r # u, sessaoAc'[r].ativa, sessaoAc'[u].ativa,
                        sessaoAc'[r].terminal = sessaoAc'[u].terminal
                 PROVE  /\ r \in feita'[u].juntas \/ u \in feita'[r].juntas
                        /\ feita'[r].livre \/ feita'[u].livre
      BY DEF SessaoUnica
    <3>1. CASE r = s
      BY <2>6, <2>12, <2>18, <3>1
    <3>2. CASE u = s
      BY <2>6, <2>12, <2>18, <3>2
    <3>3. CASE r # s /\ u # s
      BY <2>12, <2>15, <3>3 DEF InvSessao, SessaoUnica
    <3> QED
      BY <3>1, <3>2, <3>3
  <2> QED
    BY <2>14, <2>16, <2>17, <2>19 DEF InvSessao
<1>9. ASSUME NEW s \in SessaoAc, EncerrarSessao(s) PROVE InvSessao'
  <2>1. UNCHANGED <<operadorAc, operadorCentral, login, feita>> /\ {s} \cap TravadasAc = {}
    BY <1>9 DEF EncerrarSessao
  <2>2. TipoOperadores'
    BY <2>1 DEF InvSessao, TipoOperadores
  <2> QED
    BY <1>9, <2>1, <2>2, PassoEncerrar DEF EncerrarSessao
<1>10. CASE UNCHANGED varsAcesso
  BY <1>10, <1>a DEF varsAcesso, varsOper
<1> QED
  BY <1>1, <1>2, <1>3, <1>4, <1>5, <1>6, <1>7, <1>8, <1>9, <1>10 DEF NextAcesso

-----------------------------------------------------------------------------
(* Acesso: the theorems *)

\* A terminal with a token is active and its token is of a code that was
\* generated for it and used, so no two terminals have one identity
\* (terminais.py gerar_pareamento, parear_terminal, invalidar_identidade_terminal).
IdentidadePropria ==
  /\ \A t \in TerminalAc : terminalAc[t].token # NuloAc =>
       /\ terminalAc[t].ativo
       /\ codigo[terminalAc[t].token].status = "USADO"
       /\ codigo[terminalAc[t].token].terminal = t
  /\ \A t, u \in TerminalAc : terminalAc[t].token # NuloAc
                              /\ terminalAc[t].token = terminalAc[u].token => t = u

LEMMA InicioAcesso ==
  ASSUME ConstantesAcesso, InitAcesso
  PROVE  InvIdentidade /\ InvSessao
<1>1. PICK k : k = [ativo |-> TRUE, token |-> NuloAc]
  OBVIOUS
<1>2. PICK c : c = [terminal |-> NuloAc, expirado |-> FALSE, antigo |-> FALSE, status |-> "NENHUM"]
  OBVIOUS
<1>3. PICK s : s = [terminal |-> NuloAc, operador |-> NuloAc, senha |-> 0, ativa |-> FALSE]
  OBVIOUS
<1>4. PICK o : o = [ativo |-> TRUE, senha |-> 1]
  OBVIOUS
<1>5. k \in LinhaTerminal /\ k.token = NuloAc
  BY <1>1, Zenon DEF LinhaTerminal
<1>6. c \in LinhaCodigo
  BY <1>2, Zenon DEF LinhaCodigo
<1>7. c.status = "NENHUM"
  BY <1>2
<1>8. 0 \in 0..MaxSenha /\ 1 \in 0..MaxSenha /\ 1 \in 1..MaxSenha
  BY DEF ConstantesAcesso
<1>9. s \in LinhaSessao /\ ~s.ativa
  BY <1>3, <1>8, Zenon DEF LinhaSessao
<1>10. /\ o \in [ativo : BOOLEAN, senha : 0..MaxSenha] /\ o \in [ativo : BOOLEAN, senha : 1..MaxSenha]
       /\ o.senha = 1
  BY <1>4, <1>8, Zenon
<1>11. /\ terminalAc = [t \in TerminalAc |-> k] /\ codigo = [x \in CodigoAc |-> c]
       /\ sessaoAc = [x \in SessaoAc |-> s] /\ login = [q \in LoginAc |-> SemLogin]
       /\ operadorAc = [x \in OperadorAc |-> o] /\ operadorCentral = operadorAc
  BY <1>1, <1>2, <1>3, <1>4, Zenon DEF InitAcesso
<1>12. InvIdentidade
  BY <1>5, <1>6, <1>7, <1>11 DEF InvIdentidade, TipoPareamento
<1>13. TipoSessoes /\ TipoOperadores
  BY <1>8, <1>9, <1>10, <1>11, PassosDoLogin DEF TipoSessoes, TipoOperadores
<1>14. PICK h : h = [juntas |-> {}, livre |-> FALSE]
  OBVIOUS
<1>15. h \in LinhaFeita /\ feita = [x \in SessaoAc |-> h]
  BY <1>14, Zenon DEF LinhaFeita, InitAcesso
<1>16. InvSessao
  BY <1>9, <1>11, <1>13, <1>15, PassosDoLogin DEF InvSessao, TipoLogins, SessaoUnica, Salvando
<1> QED
  BY <1>12, <1>16

\* Identities are never shared nor left to an inactive terminal, for any
\* terminals and codes, whatever the clock and the logins do.
THEOREM IdentidadePropriaSempre == SpecAcesso => []IdentidadePropria
<1>1. InitAcesso => InvIdentidade
  BY InicioAcesso, ConstantesAcesso
<1>2. InvIdentidade /\ [NextAcesso]_varsAcesso => InvIdentidade'
  BY PassoIdentidade, ConstantesAcesso
<1>3. InvIdentidade => IdentidadePropria
  BY DEF InvIdentidade, IdentidadePropria
<1> QED
  BY <1>1, <1>2, <1>3, PTL DEF SpecAcesso

\* A terminal has one operator at a time but for logins served at once, one of
\* which found no session to lock, for any terminals, operators, sessions and
\* logins in progress (operadores.py autenticar_operador_terminal).
THEOREM SessaoUnicaSempre == SpecAcesso => []SessaoUnica
<1>1. InitAcesso => InvSessao
  BY InicioAcesso, ConstantesAcesso
<1>2. InvSessao /\ [NextAcesso]_varsAcesso => InvSessao'
  BY PassoSessao, ConstantesAcesso
<1>3. InvSessao => SessaoUnica
  BY DEF InvSessao
<1> QED
  BY <1>1, <1>2, <1>3, PTL DEF SpecAcesso

\* Who acts in the store is who was let in last, but for the logins and the
\* requests that were served at once, for any terminals, codes, operators and
\* sessions (terminais.py, operadores.py).
THEOREM AcessoUnicoSempre == SpecAcesso => []AcessoUnico
<1>1. InitAcesso => InvIdentidade /\ InvSessao
  BY InicioAcesso, ConstantesAcesso
<1>2. InvIdentidade /\ [NextAcesso]_varsAcesso => InvIdentidade'
  BY PassoIdentidade, ConstantesAcesso
<1>3. InvIdentidade => IdentidadeNova
  BY DEF InvIdentidade, IdentidadeNova
<1>4. SessaoUnica /\ IdentidadeNova => AcessoUnico
  BY DEF AcessoUnico
<1> QED
  BY <1>1, <1>2, <1>3, <1>4, SessaoUnicaSempre, PTL DEF SpecAcesso

-----------------------------------------------------------------------------
(* Espelho: what an import wrote is laid over the committed rows            *)

Parcial(S, T) == UNION {[D -> T] : D \in SUBSET S}

\* TypeOKEspelho names the fields the definitions read; this is the whole import
Importacoes ==
  [passo : {"livre", "itens", "gravar"}, resposta : SUBSET Item, resta : SUBSET Item,
   item : Item \cup {NuloE}, alvo : LinhaE \cup {NuloE}, linha : Parcial(LinhaE, Linha),
   vale : Parcial(ValeE, Vale), novos : SUBSET ValeE]

TiposEspelho ==
  /\ familiaE \in {"cadastro", "cliente"}
  /\ linhaE \in [LinhaE -> Linha] /\ valeE \in [ValeE -> Vale]
  /\ impE \in Importacoes /\ impE.resta \subseteq impE.resposta
  /\ aceitaE \subseteq Item /\ criadosE \subseteq ValeE

\* a row with an identifier is in use, and no two rows have the same one
LinhaCoerente(l) == (l.usada \/ l = Vazia) /\ (l.presente => l.id \in IdE)

LinhasCoerentes ==
  /\ \A r \in LinhaE : LinhaCoerente(linhaE[r]) /\ LinhaCoerente(LinhaVista(r))
  /\ \A r, k \in LinhaE : linhaE[r].id \in IdE /\ linhaE[k].id = linhaE[r].id => k = r
  /\ \A r, k \in LinhaE : LinhaVista(r).id \in IdE /\ LinhaVista(k).id = LinhaVista(r).id => k = r
  /\ \A r \in DOMAIN impE.linha : impE.linha[r].usada

\* the items of the answer that were written, and what is there of one of them
ItensEscritos == impE.resposta \ impE.resta
LinhaDoItem(x) == [usada |-> TRUE, id |-> x.id, cod |-> x.cod, presente |-> TRUE]
ValesEscritos(x) ==
  /\ \A v \in x.vales : v \in DOMAIN impE.vale /\ impE.vale[v] = [cliente |-> x.id, aberto |-> TRUE]
  /\ \A v \in ValeE : ValeVisto(v).aberto /\ ValeVisto(v).cliente = x.id => v \in x.vales \cup impE.novos

\* the row the item was read for still has its identifier or its document
AlvoValido ==
  /\ impE.item \in impE.resta
  /\ impE.alvo # NuloE =>
       /\ impE.alvo \in Usadas
       /\ \/ LinhaVista(impE.alvo).id = impE.item.id
          \/ impE.item.cod # SemCod /\ LinhaVista(impE.alvo).cod = impE.item.cod

ImportacaoCoerente ==
  /\ impE.passo = "livre" => impE = ImpLivre
  /\ RespostaValida(impE.resposta)
  /\ \A x \in ItensEscritos : (\E r \in LinhaE : LinhaVista(r) = LinhaDoItem(x)) /\ ValesEscritos(x)
  /\ impE.passo = "gravar" => AlvoValido

InvEspelho == TiposEspelho /\ LinhasCoerentes /\ ImportacaoCoerente /\ EspelhoInteiro

-----------------------------------------------------------------------------
LEMMA ParcialTipo ==
  ASSUME NEW S, NEW T, NEW f \in Parcial(S, T)
  PROVE  DOMAIN f \subseteq S /\ \A k \in DOMAIN f : f[k] \in T
BY DEF Parcial

LEMMA SobreTipo ==
  ASSUME NEW S, NEW T, NEW f \in Parcial(S, T), NEW g,
         DOMAIN g \subseteq S, \A k \in DOMAIN g : g[k] \in T
  PROVE  /\ Sobre(f, g) \in Parcial(S, T) /\ DOMAIN Sobre(f, g) = DOMAIN f \cup DOMAIN g
<1>1. DOMAIN f \subseteq S /\ (\A k \in DOMAIN f : f[k] \in T)
  BY ParcialTipo
<1>2. Sobre(f, g) = [k \in DOMAIN f \cup DOMAIN g |-> IF k \in DOMAIN g THEN g[k] ELSE f[k]]
  BY DEF Sobre
<1>3. Sobre(f, g) \in [DOMAIN f \cup DOMAIN g -> T]
  BY <1>1, <1>2
<1> QED
  BY <1>1, <1>2, <1>3 DEF Parcial

LEMMA NadaEscritoTipo ==
  ASSUME NEW S, NEW T
  PROVE  NadaEscrito \in Parcial(S, T) /\ DOMAIN NadaEscrito = {}
<1>1. NadaEscrito \in [{} -> T] /\ {} \in SUBSET S
  BY DEF NadaEscrito
<1> QED
  BY <1>1 DEF Parcial, NadaEscrito

LEMMA ImpLivreTipo ==
  /\ ImpLivre \in Importacoes /\ ImpLivre.linha = NadaEscrito /\ ImpLivre.vale = NadaEscrito
  /\ ImpLivre.resposta = {} /\ ImpLivre.resta = {} /\ ImpLivre.novos = {} /\ ImpLivre.passo = "livre"
BY NadaEscritoTipo, Zenon DEF ImpLivre, Importacoes

\* what the steps read has its type, and an import that did not begin wrote nothing
LEMMA Vistas ==
  ASSUME TiposEspelho
  PROVE  /\ impE.linha \in Parcial(LinhaE, Linha) /\ impE.vale \in Parcial(ValeE, Vale)
         /\ impE.resposta \subseteq Item /\ impE.item \in Item \cup {NuloE}
         /\ impE.alvo \in LinhaE \cup {NuloE} /\ impE.novos \subseteq ValeE
         /\ impE.passo \in {"livre", "itens", "gravar"}
         /\ DOMAIN impE.linha \subseteq LinhaE /\ DOMAIN impE.vale \subseteq ValeE
         /\ \A r \in LinhaE : linhaE[r] \in Linha /\ LinhaVista(r) \in Linha
         /\ \A v \in ValeE : valeE[v] \in Vale /\ ValeVisto(v) \in Vale
<1>1. /\ impE.linha \in Parcial(LinhaE, Linha) /\ impE.vale \in Parcial(ValeE, Vale)
      /\ impE.resposta \subseteq Item /\ impE.item \in Item \cup {NuloE}
      /\ impE.alvo \in LinhaE \cup {NuloE} /\ impE.novos \subseteq ValeE
      /\ impE.passo \in {"livre", "itens", "gravar"}
  BY DEF TiposEspelho, Importacoes
<1>2. DOMAIN impE.linha \subseteq LinhaE /\ \A r \in DOMAIN impE.linha : impE.linha[r] \in Linha
  BY <1>1, ParcialTipo
<1>3. DOMAIN impE.vale \subseteq ValeE /\ \A v \in DOMAIN impE.vale : impE.vale[v] \in Vale
  BY <1>1, ParcialTipo
<1>4. linhaE \in [LinhaE -> Linha] /\ valeE \in [ValeE -> Vale]
  BY DEF TiposEspelho
<1> QED
  BY <1>1, <1>2, <1>3, <1>4 DEF LinhaVista, ValeVisto

LEMMA LivreVe ==
  ASSUME impE = ImpLivre
  PROVE  /\ DOMAIN impE.linha = {} /\ DOMAIN impE.vale = {} /\ ItensEscritos = {}
         /\ \A r : LinhaVista(r) = linhaE[r]
         /\ \A v : ValeVisto(v) = valeE[v]
BY ImpLivreTipo, NadaEscritoTipo DEF LinhaVista, ValeVisto, ItensEscritos

LEMMA InicioEspelho == InitEspelho => InvEspelho
<1> SUFFICES ASSUME InitEspelho PROVE InvEspelho
  OBVIOUS
<1>1. /\ \A r \in LinhaE : linhaE[r] = Vazia
      /\ impE = ImpLivre /\ aceitaE = {} /\ criadosE = {}
  BY DEF InitEspelho
<1>2. Vazia \in Linha /\ Vazia.presente = FALSE /\ Vazia.id = NuloE /\ NuloE \notin IdE
  BY ConstantesEspelho DEF Vazia, Linha
<1>3. linhaE \in [LinhaE -> Linha] /\ valeE \in [ValeE -> Vale]
  BY <1>2 DEF InitEspelho, Vale
<1>4. TiposEspelho
  BY <1>1, <1>3, ImpLivreTipo DEF TiposEspelho, InitEspelho
<1>5. LinhasCoerentes
  BY <1>1, <1>2, LivreVe DEF LinhasCoerentes, LinhaCoerente
<1>6. ImportacaoCoerente
  BY <1>1, LivreVe, ImpLivreTipo, Zenon DEF ImportacaoCoerente, RespostaValida, DaLoja
<1>7. EspelhoInteiro
  BY <1>1, <1>2 DEF EspelhoInteiro, CadastroInteiro, ValesDaCentral
<1> QED
  BY <1>4, <1>5, <1>6, <1>7 DEF InvEspelho

\* a step that keeps the rows and the vouchers keeps what the mirror is
LEMMA MesmoEspelho ==
  ASSUME EspelhoInteiro, UNCHANGED <<linhaE, valeE, aceitaE, criadosE>>
  PROVE  EspelhoInteiro'
BY DEF EspelhoInteiro, CadastroInteiro, ValesDaCentral

LEMMA PassoReceber ==
  ASSUME InvEspelho, NEW R \in Respostas, ReceberResposta(R)
  PROVE  InvEspelho'
<1>1. /\ impE = ImpLivre /\ RespostaValida(R) /\ UNCHANGED <<familiaE, linhaE, valeE, aceitaE, criadosE>>
      /\ impE' = [ImpLivre EXCEPT !.passo = "itens", !.resposta = R, !.resta = R]
  BY DEF ReceberResposta
<1>2. R \subseteq Item
  BY DEF Respostas
<1>3. /\ impE' \in Importacoes /\ impE'.linha = NadaEscrito /\ impE'.vale = NadaEscrito
      /\ impE'.resposta = R /\ impE'.resta = R /\ impE'.passo = "itens"
  BY <1>1, <1>2, ImpLivreTipo DEF Importacoes
<1>4. /\ \A r : LinhaVista(r)' = linhaE[r] /\ LinhaVista(r) = linhaE[r]
      /\ DOMAIN impE'.linha = {} /\ ItensEscritos' = {}
  BY <1>1, <1>3, LivreVe, NadaEscritoTipo DEF LinhaVista, ItensEscritos
<1>5. TiposEspelho'
  BY <1>1, <1>3 DEF TiposEspelho, InvEspelho
<1>6. LinhasCoerentes'
  BY <1>1, <1>4 DEF LinhasCoerentes, InvEspelho
<1>7. RespostaValida(R)'
  BY <1>1 DEF RespostaValida, DaLoja
<1>8. ImportacaoCoerente'
  BY <1>3, <1>4, <1>7 DEF ImportacaoCoerente
<1> QED
  BY <1>1, <1>5, <1>6, <1>8, MesmoEspelho DEF InvEspelho

LEMMA PassoLer ==
  ASSUME InvEspelho, NEW x \in impE.resta, LerItem(x)
  PROVE  InvEspelho'
<1>1. PICK a \in IF Achadas(x) = {} THEN {NuloE} ELSE Achadas(x) :
        impE' = [impE EXCEPT !.passo = "gravar", !.item = x, !.alvo = a]
  BY DEF LerItem
<1>2. impE.passo = "itens" /\ UNCHANGED <<familiaE, linhaE, valeE, aceitaE, criadosE>>
  BY DEF LerItem
<1>3. x \in Item /\ impE \in Importacoes
  BY Vistas DEF InvEspelho, TiposEspelho
<1>4. a # NuloE => /\ a \in Usadas
                   /\ LinhaVista(a).id = x.id \/ (x.cod # SemCod /\ LinhaVista(a).cod = x.cod)
  BY <1>1 DEF Achadas, ComId, ComCodigo
<1>5. a \in LinhaE \cup {NuloE}
  BY <1>4 DEF Usadas
<1>6. /\ impE' \in Importacoes /\ impE'.passo = "gravar" /\ impE'.item = x /\ impE'.alvo = a
      /\ impE'.linha = impE.linha /\ impE'.vale = impE.vale /\ impE'.novos = impE.novos
      /\ impE'.resposta = impE.resposta /\ impE'.resta = impE.resta
  BY <1>1, <1>3, <1>5 DEF Importacoes
<1>7. /\ \A r : LinhaVista(r)' = LinhaVista(r)
      /\ \A v : ValeVisto(v)' = ValeVisto(v)
      /\ ItensEscritos' = ItensEscritos
  BY <1>2, <1>6 DEF LinhaVista, ValeVisto, ItensEscritos
<1>8. Usadas' = Usadas
  BY <1>7 DEF Usadas
<1>9. TiposEspelho'
  BY <1>2, <1>6 DEF TiposEspelho, InvEspelho
<1>10. LinhasCoerentes'
  BY <1>2, <1>6, <1>7 DEF LinhasCoerentes, InvEspelho
<1>11. RespostaValida(impE.resposta)'
  BY <1>2, <1>6 DEF RespostaValida, DaLoja, InvEspelho, ImportacaoCoerente
<1>12. \A y \in ItensEscritos : (\E r \in LinhaE : LinhaVista(r)' = LinhaDoItem(y)) /\ ValesEscritos(y)'
  BY <1>6, <1>7 DEF InvEspelho, ImportacaoCoerente, ValesEscritos
<1>13. AlvoValido'
  <2>1. a # NuloE => /\ a \in Usadas'
                     /\ LinhaVista(a)'.id = x.id \/ (x.cod # SemCod /\ LinhaVista(a)'.cod = x.cod)
    BY <1>4, <1>7, <1>8
  <2> QED
    BY <1>6, <2>1 DEF AlvoValido, LinhaVista
<1>14. ImportacaoCoerente'
  BY <1>6, <1>7, <1>11, <1>12, <1>13 DEF ImportacaoCoerente, LinhaDoItem
<1> QED
  BY <1>2, <1>9, <1>10, <1>14, MesmoEspelho DEF InvEspelho

LEMMA PassoDesfazer ==
  ASSUME InvEspelho, Desfazer
  PROVE  InvEspelho'
<1>1. impE' = ImpLivre /\ UNCHANGED <<familiaE, linhaE, valeE, aceitaE, criadosE>>
  BY DEF Desfazer
<1>2. /\ \A r : LinhaVista(r)' = linhaE[r]
      /\ DOMAIN impE'.linha = {} /\ ItensEscritos' = {}
  BY <1>1, ImpLivreTipo, NadaEscritoTipo DEF LinhaVista, ItensEscritos
<1>3. TiposEspelho'
  BY <1>1, ImpLivreTipo DEF TiposEspelho, InvEspelho
<1>4. LinhasCoerentes'
  BY <1>1, <1>2 DEF LinhasCoerentes, InvEspelho
<1>5. RespostaValida(impE.resposta)'
  BY <1>1, ImpLivreTipo DEF RespostaValida, DaLoja
<1>6. ImportacaoCoerente'
  BY <1>1, <1>2, <1>5, ImpLivreTipo DEF ImportacaoCoerente
<1> QED
  BY <1>1, <1>3, <1>4, <1>6, MesmoEspelho DEF InvEspelho

\* a customer registered at a terminal takes a row that nobody uses
LEMMA PassoCadastrar ==
  ASSUME InvEspelho, NEW r \in LinhaE, NEW c \in CodE, CadastrarClienteLocal(r, c)
  PROVE  InvEspelho'
<1>1. PICK n : n = [Vazia EXCEPT !.usada = TRUE, !.cod = c]
  OBVIOUS
<1>2. n \in Linha /\ n.usada /\ n.id = NuloE /\ n.presente = FALSE /\ LinhaCoerente(n) /\ NuloE \notin IdE
  BY <1>1, ConstantesEspelho DEF Vazia, Linha, LinhaCoerente
<1>3. /\ r \notin Usadas /\ linhaE' = [linhaE EXCEPT ![r] = n]
      /\ UNCHANGED <<familiaE, valeE, impE, aceitaE, criadosE>>
  BY <1>1 DEF CadastrarClienteLocal
<1>4. linhaE \in [LinhaE -> Linha] /\ TiposEspelho /\ LinhasCoerentes
  BY DEF InvEspelho, TiposEspelho
<1>5. r \notin DOMAIN impE.linha /\ LinhaVista(r) = linhaE[r] /\ ~linhaE[r].usada
  BY <1>3, <1>4 DEF LinhasCoerentes, LinhaVista, Usadas
<1>6. linhaE[r] = Vazia
  BY <1>4, <1>5 DEF LinhasCoerentes, LinhaCoerente
<1>7. \A k \in LinhaE : /\ linhaE'[k] = IF k = r THEN n ELSE linhaE[k]
                        /\ LinhaVista(k)' = IF k = r THEN n ELSE LinhaVista(k)
  BY <1>3, <1>4, <1>5 DEF LinhaVista
<1>8. TiposEspelho'
  BY <1>2, <1>3, <1>4 DEF TiposEspelho
<1>9. LinhasCoerentes'
  BY <1>2, <1>3, <1>4, <1>7 DEF LinhasCoerentes
<1>10. RespostaValida(impE.resposta)'
  BY <1>3 DEF RespostaValida, DaLoja, InvEspelho, ImportacaoCoerente
<1>11. ItensEscritos' = ItensEscritos /\ \A v : ValeVisto(v)' = ValeVisto(v)
  BY <1>3 DEF ItensEscritos, ValeVisto
<1>12. ASSUME NEW x \in ItensEscritos
       PROVE  (\E k \in LinhaE : LinhaVista(k)' = LinhaDoItem(x)) /\ ValesEscritos(x)'
  <2>1. PICK k \in LinhaE : LinhaVista(k) = LinhaDoItem(x)
    BY <1>12 DEF InvEspelho, ImportacaoCoerente
  <2>2. k # r
    BY <2>1, <1>5 DEF LinhaDoItem
  <2>3. LinhaVista(k)' = LinhaDoItem(x)
    BY <1>7, <2>1, <2>2
  <2>4. ValesEscritos(x)
    BY <1>12 DEF InvEspelho, ImportacaoCoerente
  <2> QED
    BY <1>3, <1>11, <2>3, <2>4 DEF ValesEscritos
<1>13. ASSUME impE.passo = "gravar" PROVE AlvoValido'
  <2>1. AlvoValido
    BY <1>13 DEF InvEspelho, ImportacaoCoerente
  <2>2. PICK a : a = impE.alvo
    OBVIOUS
  <2>3. ASSUME a # NuloE
        PROVE  a \in Usadas' /\ LinhaVista(a)' = LinhaVista(a)
    <3>1. a \in Usadas /\ a # r
      BY <1>3, <2>1, <2>2, <2>3 DEF AlvoValido
    <3>2. a \in LinhaE /\ LinhaVista(a).usada
      BY <3>1 DEF Usadas
    <3>3. LinhaVista(a)' = LinhaVista(a)
      BY <1>7, <3>1, <3>2
    <3> QED
      BY <3>2, <3>3 DEF Usadas
  <2>4. impE'.alvo = a /\ impE' = impE
    BY <1>3, <2>2
  <2>5. impE'.item \in impE'.resta
    BY <2>1, <2>4 DEF AlvoValido
  <2>6. a # NuloE => (LinhaVista(a)'.id = impE'.item.id
                      \/ (impE'.item.cod # SemCod /\ LinhaVista(a)'.cod = impE'.item.cod))
    BY <2>1, <2>2, <2>3, <2>4 DEF AlvoValido
  <2> QED
    BY <2>3, <2>4, <2>5, <2>6 DEF AlvoValido
<1>14. ImportacaoCoerente'
  BY <1>3, <1>10, <1>11, <1>12, <1>13 DEF ImportacaoCoerente, LinhaDoItem, InvEspelho
<1>15. EspelhoInteiro'
  <2>1. {k \in LinhaE : linhaE'[k].presente} = {k \in LinhaE : linhaE[k].presente}
    BY <1>2, <1>6, <1>7 DEF Vazia
  <2>2. \A k \in {z \in LinhaE : linhaE[z].presente} : linhaE'[k] = linhaE[k]
    BY <1>2, <1>6, <1>7 DEF Vazia
  <2>3. {<<linhaE'[k].id, linhaE'[k].cod>> : k \in {z \in LinhaE : linhaE'[z].presente}}
          = {<<linhaE[k].id, linhaE[k].cod>> : k \in {z \in LinhaE : linhaE[z].presente}}
    BY <2>1, <2>2
  <2> QED
    BY <1>3, <2>3 DEF InvEspelho, EspelhoInteiro, CadastroInteiro, ValesDaCentral
<1> QED
  BY <1>8, <1>9, <1>14, <1>15 DEF InvEspelho

\* the voucher of a return is new, and one the import did not write
LEMMA PassoValeDeDevolucao ==
  ASSUME InvEspelho, NEW v \in ValeE, NEW i \in IdE, ValeDeDevolucao(v, i)
  PROVE  InvEspelho'
<1>1. /\ valeE[v].cliente = NuloE /\ v \notin DOMAIN impE.vale
      /\ valeE' = [valeE EXCEPT ![v] = [cliente |-> i, aberto |-> TRUE]]
      /\ criadosE' = criadosE \cup {v} /\ UNCHANGED <<familiaE, linhaE, aceitaE>>
      /\ impE' = IF impE = ImpLivre THEN impE ELSE [impE EXCEPT !.novos = @ \cup {v}]
  BY DEF ValeDeDevolucao
<1>2. TiposEspelho /\ valeE \in [ValeE -> Vale] /\ impE \in Importacoes /\ NuloE \notin IdE
  BY ConstantesEspelho DEF InvEspelho, TiposEspelho
<1>3. /\ impE' \in Importacoes /\ impE'.passo = impE.passo /\ impE'.item = impE.item
      /\ impE'.alvo = impE.alvo /\ impE'.linha = impE.linha /\ impE'.vale = impE.vale
      /\ impE'.resposta = impE.resposta /\ impE'.resta = impE.resta
      /\ impE.novos \subseteq impE'.novos /\ (impE # ImpLivre => v \in impE'.novos)
  <2>1. CASE impE = ImpLivre
    BY <1>1, <1>2, <2>1
  <2>2. CASE impE # ImpLivre
    BY <1>1, <1>2, <2>2 DEF Importacoes
  <2> QED
    BY <2>1, <2>2
<1>4. \A w \in ValeE : valeE'[w] = IF w = v THEN [cliente |-> i, aberto |-> TRUE] ELSE valeE[w]
  BY <1>1, <1>2
<1>5. \A w \in ValeE : ValeVisto(w)' = IF w = v THEN [cliente |-> i, aberto |-> TRUE] ELSE ValeVisto(w)
  <2>1. impE'.vale = impE.vale /\ v \notin DOMAIN impE.vale
    BY <1>1, <1>3
  <2> QED
    BY <1>4, <2>1 DEF ValeVisto
<1>6. ItensEscritos' = ItensEscritos /\ \A r : LinhaVista(r)' = LinhaVista(r)
  BY <1>1, <1>3 DEF ItensEscritos, LinhaVista
<1>7. Usadas' = Usadas
  BY <1>6 DEF Usadas
<1>8. TiposEspelho'
  BY <1>1, <1>2, <1>3 DEF TiposEspelho, Vale
<1>9. LinhasCoerentes'
  BY <1>1, <1>3, <1>6 DEF LinhasCoerentes, InvEspelho
<1>10. RespostaValida(impE.resposta)'
  BY <1>1, <1>3 DEF RespostaValida, DaLoja, InvEspelho, ImportacaoCoerente
<1>11. ASSUME NEW x \in ItensEscritos
       PROVE  (\E k \in LinhaE : LinhaVista(k)' = LinhaDoItem(x)) /\ ValesEscritos(x)'
  <2>1. (\E k \in LinhaE : LinhaVista(k) = LinhaDoItem(x)) /\ ValesEscritos(x)
    BY <1>11 DEF InvEspelho, ImportacaoCoerente
  <2>2. impE # ImpLivre
    BY <1>11, LivreVe
  <2> QED
    BY <1>3, <1>5, <1>6, <2>1, <2>2 DEF ValesEscritos
<1>12. ASSUME impE.passo = "gravar" PROVE AlvoValido'
  BY <1>3, <1>6, <1>7, <1>12 DEF InvEspelho, ImportacaoCoerente, AlvoValido, LinhaVista
<1>13. ImportacaoCoerente'
  BY <1>1, <1>3, <1>6, <1>10, <1>11, <1>12 DEF InvEspelho, ImportacaoCoerente, LinhaDoItem
<1>14. EspelhoInteiro'
  <2>1. CadastroInteiro'
    BY <1>1 DEF InvEspelho, EspelhoInteiro, CadastroInteiro
  <2>2. ASSUME NEW x \in aceitaE
        PROVE  LET abertos == {w \in ValeE : valeE'[w].aberto /\ valeE'[w].cliente = x.id}
               IN  x.vales \subseteq abertos /\ abertos \subseteq x.vales \cup criadosE'
    <3>1. /\ \A w \in x.vales : w \in ValeE /\ valeE[w].aberto /\ valeE[w].cliente = x.id
          /\ \A w \in ValeE : valeE[w].aberto /\ valeE[w].cliente = x.id => w \in x.vales \cup criadosE
      BY <2>2 DEF InvEspelho, EspelhoInteiro, ValesDaCentral
    <3>2. x.id \in IdE
      BY <1>2, <2>2 DEF TiposEspelho, Item
    <3>3. v \notin x.vales
      BY <1>1, <1>2, <3>1, <3>2
    <3> QED
      BY <1>1, <1>4, <3>1, <3>3
  <2> QED
    BY <1>1, <2>1, <2>2 DEF EspelhoInteiro, ValesDaCentral
<1> QED
  BY <1>8, <1>9, <1>13, <1>14 DEF InvEspelho

\* the row of an item is written where no item written before it is
LEMMA PassoGravar ==
  ASSUME InvEspelho, NEW r \in LinhaE, GravarItem(r)
  PROVE  InvEspelho'
<1>1. PICK x : x = impE.item
  OBVIOUS
<1>2. PICK vs : vs = ValesDoItem(x)
  OBVIOUS
<1>3. /\ impE.passo = "gravar" /\ ChaveLivre(r, x)
      /\ IF impE.alvo = NuloE THEN r \notin Usadas ELSE r = impE.alvo
      /\ UNCHANGED <<familiaE, linhaE, valeE, aceitaE, criadosE>>
      /\ impE' = [impE EXCEPT
           !.passo = "itens", !.resta = @ \ {x}, !.item = NuloE, !.alvo = NuloE,
           !.linha = Sobre(@, [k \in {r} |-> LinhaDoItem(x)]), !.vale = Sobre(@, vs)]
  BY <1>1, <1>2, Zenon DEF GravarItem, LinhaDoItem
<1>4. /\ TiposEspelho /\ LinhasCoerentes /\ AlvoValido /\ RespostaValida(impE.resposta)
      /\ impE \in Importacoes /\ impE.resta \subseteq impE.resposta
  BY <1>3 DEF InvEspelho, ImportacaoCoerente, TiposEspelho
<1>5. /\ x \in impE.resta /\ x \in impE.resposta /\ impE.resposta \subseteq Item
      /\ x \in Item /\ x.id \in IdE /\ x.cod \in CodE \cup {SemCod} /\ x.vales \subseteq ValeE
      /\ x.id # NuloE
  BY <1>1, <1>4, Vistas, ConstantesEspelho DEF AlvoValido, Item
<1>6. PICK l : l = LinhaDoItem(x)
  OBVIOUS
<1>7. l \in Linha /\ l.usada /\ l.id = x.id /\ l.cod = x.cod /\ l.presente /\ LinhaCoerente(l)
  BY <1>5, <1>6 DEF LinhaDoItem, Linha, LinhaCoerente
<1>8. PICK D : D = x.vales \cup {w \in ValeE : ValeVisto(w).aberto /\ ValeVisto(w).cliente = x.id}
  OBVIOUS
<1>9. /\ D \subseteq ValeE /\ vs \in [D -> Vale]
      /\ \A v \in D : vs[v] = [cliente |-> x.id, aberto |-> v \in x.vales]
  BY <1>2, <1>5, <1>8 DEF ValesDoItem, Vale
<1>10. /\ Sobre(impE.linha, [k \in {r} |-> l]) \in Parcial(LinhaE, Linha)
       /\ DOMAIN Sobre(impE.linha, [k \in {r} |-> l]) = DOMAIN impE.linha \cup {r}
       /\ Sobre(impE.linha, [k \in {r} |-> l])[r] = l
       /\ \A z \in DOMAIN impE.linha \ {r} : Sobre(impE.linha, [k \in {r} |-> l])[z] = impE.linha[z]
  <2>1. PICK g : g = [k \in {r} |-> l]
    OBVIOUS
  <2>2. DOMAIN g = {r} /\ g[r] = l /\ \A k \in DOMAIN g : g[k] \in Linha
    BY <1>7, <2>1
  <2>3. impE.linha \in Parcial(LinhaE, Linha) /\ {r} \subseteq LinhaE
    BY <1>4, Vistas
  <2>4. /\ Sobre(impE.linha, g) \in Parcial(LinhaE, Linha)
        /\ DOMAIN Sobre(impE.linha, g) = DOMAIN impE.linha \cup {r}
    <3>1. PICK f, T : f = impE.linha /\ T = Linha
      OBVIOUS
    <3>2. f \in Parcial(LinhaE, T) /\ DOMAIN g \subseteq LinhaE /\ \A k \in DOMAIN g : g[k] \in T
      BY <2>2, <2>3, <3>1
    <3>3. Sobre(f, g) \in Parcial(LinhaE, T) /\ DOMAIN Sobre(f, g) = DOMAIN f \cup DOMAIN g
      BY <3>2, SobreTipo
    <3> QED
      BY <2>2, <3>1, <3>3
  <2>5. /\ Sobre(impE.linha, g)[r] = l
        /\ \A z \in DOMAIN impE.linha \ {r} : Sobre(impE.linha, g)[z] = impE.linha[z]
    BY <2>2 DEF Sobre
  <2> QED
    BY <2>1, <2>4, <2>5
<1>11. /\ Sobre(impE.vale, vs) \in Parcial(ValeE, Vale)
       /\ DOMAIN Sobre(impE.vale, vs) = DOMAIN impE.vale \cup D
       /\ \A v \in D : Sobre(impE.vale, vs)[v] = vs[v]
       /\ \A v \in DOMAIN impE.vale \ D : Sobre(impE.vale, vs)[v] = impE.vale[v]
  <2>1. impE.vale \in Parcial(ValeE, Vale)
    BY <1>4, Vistas
  <2>2. DOMAIN vs = D /\ \A v \in DOMAIN vs : vs[v] \in Vale
    BY <1>9
  <2>3. /\ Sobre(impE.vale, vs) \in Parcial(ValeE, Vale)
        /\ DOMAIN Sobre(impE.vale, vs) = DOMAIN impE.vale \cup D
    <3>1. PICK f, T : f = impE.vale /\ T = Vale
      OBVIOUS
    <3>2. f \in Parcial(ValeE, T) /\ DOMAIN vs \subseteq ValeE /\ \A v \in DOMAIN vs : vs[v] \in T
      BY <1>9, <2>1, <2>2, <3>1
    <3>3. Sobre(f, vs) \in Parcial(ValeE, T) /\ DOMAIN Sobre(f, vs) = DOMAIN f \cup DOMAIN vs
      BY <3>2, SobreTipo
    <3> QED
      BY <2>2, <3>1, <3>3
  <2>4. /\ \A v \in D : Sobre(impE.vale, vs)[v] = vs[v]
        /\ \A v \in DOMAIN impE.vale \ D : Sobre(impE.vale, vs)[v] = impE.vale[v]
    BY <2>2 DEF Sobre
  <2> QED
    BY <2>3, <2>4
<1>12. /\ impE' \in Importacoes /\ impE'.passo = "itens" /\ impE'.novos = impE.novos
       /\ impE'.resposta = impE.resposta /\ impE'.resta = impE.resta \ {x}
       /\ impE'.linha = Sobre(impE.linha, [k \in {r} |-> l]) /\ impE'.vale = Sobre(impE.vale, vs)
  BY <1>3, <1>4, <1>6, <1>10, <1>11 DEF Importacoes
<1>13. \A k \in LinhaE : LinhaVista(k)' = IF k = r THEN l ELSE LinhaVista(k)
  BY <1>3, <1>10, <1>12 DEF LinhaVista
<1>14. \A v \in ValeE : ValeVisto(v)' = IF v \in D THEN vs[v] ELSE ValeVisto(v)
  BY <1>3, <1>11, <1>12 DEF ValeVisto
<1>15. ItensEscritos' = ItensEscritos \cup {x}
  BY <1>4, <1>5, <1>12 DEF ItensEscritos
<1>16. TiposEspelho'
  BY <1>3, <1>4, <1>12 DEF TiposEspelho
<1>17. LinhasCoerentes'
  <2>1. \A k \in LinhaE : LinhaVista(k).id = x.id => k = r
    <3>1. ASSUME NEW k \in LinhaE, LinhaVista(k).id = x.id PROVE LinhaVista(k).usada
      BY <1>4, <1>5, <3>1 DEF LinhasCoerentes, LinhaCoerente, Vazia
    <3> QED
      BY <1>3, <3>1 DEF ChaveLivre, ComId, Usadas
  <2>2. \A k, z \in LinhaE : LinhaVista(k)'.id \in IdE /\ LinhaVista(z)'.id = LinhaVista(k)'.id => z = k
    BY <1>4, <1>7, <1>13, <2>1 DEF LinhasCoerentes
  <2>3. \A k \in LinhaE : LinhaCoerente(LinhaVista(k)')
    BY <1>4, <1>7, <1>13 DEF LinhasCoerentes
  <2>4. \A k \in DOMAIN impE'.linha : impE'.linha[k].usada
    BY <1>4, <1>7, <1>10, <1>12 DEF LinhasCoerentes
  <2> QED
    BY <1>3, <1>4, <2>2, <2>3, <2>4 DEF LinhasCoerentes, LinhaCoerente
<1>18. RespostaValida(impE.resposta)'
  BY <1>3, <1>4, <1>12 DEF RespostaValida, DaLoja
<1>19. \A y \in ItensEscritos :
         /\ y \in Item /\ y \in impE.resposta /\ y # x /\ y.id # x.id
         /\ y.cod = SemCod \/ y.cod # x.cod
         /\ y.vales \cap x.vales = {} /\ y.vales \subseteq ValeE
  <2>1. \A y \in ItensEscritos : y \in Item /\ y \in impE.resposta /\ y # x /\ y.vales \subseteq ValeE
    BY <1>5 DEF ItensEscritos, Item
  <2>2. ASSUME NEW y \in impE.resposta, y # x
        PROVE  /\ y.id # x.id /\ y.vales \cap x.vales = {}
               /\ y.cod = SemCod \/ y.cod # x.cod
    BY <1>4, <1>5, <2>2 DEF RespostaValida, DaLoja
  <2> QED
    BY <2>1, <2>2
<1>20. \E k \in LinhaE : LinhaVista(k)' = LinhaDoItem(x)
  BY <1>6, <1>13
<1>21. ASSUME NEW y \in ItensEscritos PROVE \E k \in LinhaE : LinhaVista(k)' = LinhaDoItem(y)
  <2>1. PICK k \in LinhaE : LinhaVista(k) = LinhaDoItem(y)
    BY <1>21 DEF InvEspelho, ImportacaoCoerente
  <2>2. LinhaVista(k).id = y.id /\ LinhaVista(k).cod = y.cod /\ LinhaVista(k).usada
    BY <2>1 DEF LinhaDoItem
  <2>3. k # r
    <3>1. CASE impE.alvo = NuloE
      BY <1>3, <2>2, <3>1 DEF Usadas
    <3>2. CASE impE.alvo # NuloE
      <4>1. r = impE.alvo
        BY <1>3, <3>2
      <4>2. LinhaVista(r).id = x.id \/ (x.cod # SemCod /\ LinhaVista(r).cod = x.cod)
        BY <1>1, <1>4, <3>2, <4>1 DEF AlvoValido
      <4> QED
        BY <1>19, <1>21, <2>2, <4>2
    <3> QED
      BY <3>1, <3>2
  <2> QED
    BY <1>13, <2>1, <2>3
<1>22. ValesEscritos(x)'
  <2>1. \A v \in x.vales : v \in DOMAIN impE'.vale /\ impE'.vale[v] = [cliente |-> x.id, aberto |-> TRUE]
    BY <1>8, <1>9, <1>11, <1>12
  <2>2. ASSUME NEW v \in ValeE, ValeVisto(v)'.aberto, ValeVisto(v)'.cliente = x.id PROVE v \in x.vales
    <3>1. CASE v \in D
      <4>1. ValeVisto(v)' = [cliente |-> x.id, aberto |-> v \in x.vales]
        BY <1>9, <1>14, <3>1
      <4>2. ValeVisto(v)'.aberto = (v \in x.vales)
        BY <4>1
      <4> QED
        BY <2>2, <4>2, Zenon
    <3>2. CASE v \notin D
      BY <1>8, <1>14, <2>2, <3>2
    <3> QED
      BY <3>1, <3>2
  <2> QED
    BY <2>1, <2>2 DEF ValesEscritos
<1>23. ASSUME NEW y \in ItensEscritos PROVE ValesEscritos(y)'
  <2>1. ValesEscritos(y)
    BY <1>23 DEF InvEspelho, ImportacaoCoerente
  <2>2. \A v \in y.vales : v \notin D
    <3>1. ASSUME NEW v \in y.vales PROVE ValeVisto(v).cliente = y.id
      BY <2>1, <3>1 DEF ValesEscritos, ValeVisto
    <3> QED
      BY <1>8, <1>19, <1>23, <3>1
  <2>3. \A v \in y.vales : v \in DOMAIN impE'.vale /\ impE'.vale[v] = [cliente |-> y.id, aberto |-> TRUE]
    BY <1>11, <1>12, <2>1, <2>2 DEF ValesEscritos
  <2>4. ASSUME NEW v \in ValeE, ValeVisto(v)'.aberto, ValeVisto(v)'.cliente = y.id
        PROVE  v \in y.vales \cup impE'.novos
    <3>1. v \notin D
      <4>1. v \in D => ValeVisto(v)'.cliente = x.id
        BY <1>9, <1>14
      <4> QED
        BY <1>19, <1>23, <2>4, <4>1
    <3> QED
      BY <1>12, <1>14, <2>1, <2>4, <3>1 DEF ValesEscritos
  <2> QED
    BY <2>3, <2>4 DEF ValesEscritos
<1>24. ImportacaoCoerente'
  <2>1. \A y \in ItensEscritos' : (\E k \in LinhaE : LinhaVista(k)' = LinhaDoItem(y)) /\ ValesEscritos(y)'
    BY <1>15, <1>20, <1>21, <1>22, <1>23
  <2> QED
    BY <1>12, <1>18, <2>1 DEF ImportacaoCoerente, LinhaDoItem
<1> QED
  BY <1>3, <1>16, <1>17, <1>24, MesmoEspelho DEF InvEspelho

\* the commit: the answer is whole, and what it lacks is marked
LEMMA PassoConfirmar ==
  ASSUME InvEspelho, Confirmar
  PROVE  InvEspelho'
<1>1. PICK R : R = impE.resposta
  OBVIOUS
<1>2. /\ impE.resta = {} /\ linhaE' = ComAusentes(R) /\ valeE' = [v \in ValeE |-> ValeVisto(v)]
      /\ aceitaE' = R /\ criadosE' = impE.novos /\ impE' = ImpLivre /\ familiaE' = familiaE
  BY <1>1 DEF Confirmar
<1>3. /\ TiposEspelho /\ LinhasCoerentes /\ NuloE \notin IdE /\ R \subseteq Item
      /\ \A r \in LinhaE : LinhaVista(r) \in Linha /\ LinhaCoerente(LinhaVista(r))
      /\ \A v \in ValeE : ValeVisto(v) \in Vale
      /\ impE.novos \subseteq ValeE /\ \A x \in R : x.id \in IdE
  BY <1>1, Vistas, ConstantesEspelho DEF InvEspelho, LinhasCoerentes, Item
<1>4. \A x \in R : (\E r \in LinhaE : LinhaVista(r) = LinhaDoItem(x)) /\ ValesEscritos(x)
  BY <1>1, <1>2 DEF InvEspelho, ImportacaoCoerente, ItensEscritos
\* the rows after the commit
<1>5. ASSUME NEW r \in LinhaE
      PROVE  /\ linhaE'[r] \in Linha /\ LinhaCoerente(linhaE'[r])
             /\ linhaE'[r].id = LinhaVista(r).id /\ linhaE'[r].cod = LinhaVista(r).cod
             /\ linhaE'[r].presente = (LinhaVista(r).presente /\ LinhaVista(r).id \in IdsDe(R))
  <2>1. PICK l : l = LinhaVista(r)
    OBVIOUS
  <2>2. l \in Linha /\ LinhaCoerente(l)
    BY <1>3, <2>1
  <2>3. PICK n : n = [l EXCEPT !.presente = FALSE]
    OBVIOUS
  <2>4. n \in Linha /\ n.id = l.id /\ n.cod = l.cod /\ n.usada = l.usada /\ n.presente = FALSE
    BY <2>2, <2>3 DEF Linha
  <2>5. CASE l.id \in IdE \ IdsDe(R)
    <3>1. linhaE'[r] = n
      BY <1>2, <2>1, <2>3, <2>5 DEF ComAusentes
    <3>2. l.usada
      BY <1>3, <2>2, <2>5 DEF LinhaCoerente, Vazia
    <3>3. LinhaCoerente(n)
      BY <2>4, <3>2 DEF LinhaCoerente
    <3> QED
      BY <2>1, <2>4, <2>5, <3>1, <3>3
  <2>6. CASE l.id \notin IdE \ IdsDe(R)
    <3>1. linhaE'[r] = l
      BY <1>2, <2>1, <2>6 DEF ComAusentes
    <3>2. l.presente => l.id \in IdsDe(R)
      BY <2>2, <2>6 DEF LinhaCoerente
    <3>3. l.presente \in BOOLEAN
      BY <2>2 DEF Linha
    <3>4. l.presente = (l.presente /\ l.id \in IdsDe(R))
      BY <3>2, <3>3
    <3> QED
      BY <2>1, <2>2, <3>1, <3>4
  <2> QED
    BY <2>5, <2>6
<1>6. linhaE' \in [LinhaE -> Linha] /\ valeE' \in [ValeE -> Vale]
  BY <1>2, <1>3, <1>5 DEF ComAusentes
<1>7. TiposEspelho'
  BY <1>2, <1>3, <1>6, ImpLivreTipo DEF TiposEspelho
<1>8. /\ \A r : LinhaVista(r)' = linhaE'[r]
      /\ DOMAIN impE'.linha = {} /\ ItensEscritos' = {}
  BY <1>2, ImpLivreTipo, NadaEscritoTipo DEF LinhaVista, ItensEscritos
<1>9. LinhasCoerentes'
  <2>1. \A r, k \in LinhaE : linhaE'[r].id \in IdE /\ linhaE'[k].id = linhaE'[r].id => k = r
    BY <1>3, <1>5 DEF LinhasCoerentes
  <2>2. \A r \in LinhaE : LinhaCoerente(linhaE'[r])
    BY <1>5
  <2> QED
    BY <1>8, <2>1, <2>2 DEF LinhasCoerentes, LinhaCoerente
<1>10. ImportacaoCoerente'
  <2>1. RespostaValida(impE.resposta)'
    BY <1>2, ImpLivreTipo DEF RespostaValida, DaLoja
  <2> QED
    BY <1>2, <1>8, <2>1, ImpLivreTipo DEF ImportacaoCoerente
<1>11. ASSUME NEW r \in LinhaE, linhaE'[r].presente
       PROVE  \E x \in R : linhaE'[r].id = x.id /\ linhaE'[r].cod = x.cod
  <2>1. PICK x \in R : LinhaVista(r).id = x.id
    BY <1>5, <1>11 DEF IdsDe
  <2>2. PICK k \in LinhaE : LinhaVista(k) = LinhaDoItem(x)
    BY <1>4
  <2>3. LinhaVista(k).id = x.id /\ LinhaVista(k).cod = x.cod
    BY <2>2 DEF LinhaDoItem
  <2>4. k = r
    BY <1>3, <2>1, <2>3 DEF LinhasCoerentes
  <2> QED
    BY <1>5, <2>1, <2>3, <2>4
<1>12. ASSUME NEW x \in R
       PROVE  \E r \in LinhaE : linhaE'[r].presente /\ linhaE'[r].id = x.id /\ linhaE'[r].cod = x.cod
  <2>1. PICK r \in LinhaE : LinhaVista(r) = LinhaDoItem(x)
    BY <1>4
  <2>2. LinhaVista(r).presente /\ LinhaVista(r).id = x.id /\ LinhaVista(r).cod = x.cod
    BY <2>1 DEF LinhaDoItem
  <2>3. x.id \in IdsDe(R)
    BY DEF IdsDe
  <2> QED
    BY <1>5, <2>2, <2>3
<1>13. CadastroInteiro'
  <2>1. ASSUME NEW r \in {k \in LinhaE : linhaE'[k].presente}
        PROVE  <<linhaE'[r].id, linhaE'[r].cod>> \in {<<x.id, x.cod>> : x \in R}
    BY <1>11, <2>1
  <2>2. ASSUME NEW x \in R
        PROVE  <<x.id, x.cod>> \in
                 {<<linhaE'[r].id, linhaE'[r].cod>> : r \in {k \in LinhaE : linhaE'[k].presente}}
    <3>1. PICK r \in LinhaE : linhaE'[r].presente /\ linhaE'[r].id = x.id /\ linhaE'[r].cod = x.cod
      BY <1>12
    <3> QED
      BY <3>1
  <2>3. {<<linhaE'[r].id, linhaE'[r].cod>> : r \in {k \in LinhaE : linhaE'[k].presente}}
          = {<<x.id, x.cod>> : x \in R}
    BY <2>1, <2>2
  <2> QED
    BY <1>2, <2>3 DEF CadastroInteiro
<1>14. ValesDaCentral'
  <2>1. \A v \in ValeE : valeE'[v] = ValeVisto(v)
    BY <1>2
  <2>2. ASSUME NEW x \in R
        PROVE  LET abertos == {w \in ValeE : valeE'[w].aberto /\ valeE'[w].cliente = x.id}
               IN  x.vales \subseteq abertos /\ abertos \subseteq x.vales \cup criadosE'
    <3>1. ValesEscritos(x) /\ x.vales \subseteq ValeE
      BY <1>3, <1>4 DEF Item
    <3>2. \A v \in x.vales : ValeVisto(v).aberto /\ ValeVisto(v).cliente = x.id
      BY <3>1 DEF ValesEscritos, ValeVisto
    <3> QED
      BY <1>2, <2>1, <3>1, <3>2 DEF ValesEscritos
  <2> QED
    BY <1>2, <2>2 DEF ValesDaCentral
<1> QED
  BY <1>7, <1>9, <1>10, <1>13, <1>14 DEF InvEspelho, EspelhoInteiro

LEMMA PassoEspelho == InvEspelho /\ [NextEspelho]_varsEspelho => InvEspelho'
<1> SUFFICES ASSUME InvEspelho, [NextEspelho]_varsEspelho PROVE InvEspelho'
  OBVIOUS
<1>1. ASSUME NEW R \in Respostas, ReceberResposta(R) PROVE InvEspelho'
  BY <1>1, PassoReceber
<1>2. ASSUME NEW x \in impE.resta, LerItem(x) PROVE InvEspelho'
  BY <1>2, PassoLer
<1>3. ASSUME NEW r \in LinhaE, GravarItem(r) PROVE InvEspelho'
  BY <1>3, PassoGravar
<1>4. CASE Desfazer
  BY <1>4, PassoDesfazer
<1>5. CASE Confirmar
  BY <1>5, PassoConfirmar
<1>6. ASSUME NEW r \in LinhaE, NEW c \in CodE, CadastrarClienteLocal(r, c) PROVE InvEspelho'
  BY <1>6, PassoCadastrar
<1>7. ASSUME NEW v \in ValeE, NEW i \in IdE, ValeDeDevolucao(v, i) PROVE InvEspelho'
  BY <1>7, PassoValeDeDevolucao
<1>8. CASE UNCHANGED varsEspelho
  BY <1>8 DEF varsEspelho, InvEspelho, TiposEspelho, LinhasCoerentes, LinhaCoerente, ImportacaoCoerente,
    EspelhoInteiro, CadastroInteiro, ValesDaCentral, LinhaVista, ValeVisto, ItensEscritos, ValesEscritos,
    AlvoValido, Usadas, RespostaValida, DaLoja, LinhaDoItem
<1> QED
  BY <1>1, <1>2, <1>3, <1>4, <1>5, <1>6, <1>7, <1>8, Zenon DEF NextEspelho

LEMMA TiposDoEspelho == InvEspelho => TypeOKEspelho
<1> SUFFICES ASSUME InvEspelho PROVE TypeOKEspelho
  OBVIOUS
<1>1. TiposEspelho /\ impE.passo \in {"livre", "itens", "gravar"}
  BY Vistas DEF InvEspelho
<1>2. /\ \A r \in DOMAIN impE.linha : r \in LinhaE /\ impE.linha[r] \in Linha
      /\ \A v \in DOMAIN impE.vale : v \in ValeE /\ impE.vale[v] \in Vale
  BY <1>1, Vistas DEF LinhaVista, ValeVisto
<1> QED
  BY <1>1, <1>2, Vistas DEF TypeOKEspelho, TiposEspelho

\* Every variable of the mirrors keeps its type, whatever an import wrote when it
\* failed (sincronizar_clientes and its like in integracao/services).
THEOREM TipoEspelho == SpecEspelho => []TypeOKEspelho
<1>1. InvEspelho => TypeOKEspelho
  BY TiposDoEspelho
<1> QED
  BY <1>1, InicioEspelho, PassoEspelho, PTL DEF SpecEspelho

\* The rows a sale may use and the vouchers of its customers are those of one whole
\* answer of the Central: of no import that failed half-way or met a customer
\* registered meanwhile, for any rows, identifiers, documents, vouchers and
\* answers of any size (clientes.py sincronizar_clientes and its like).
THEOREM EspelhoInteiroSempre == SpecEspelho => []EspelhoInteiro
<1>1. InvEspelho => EspelhoInteiro
  BY DEF InvEspelho
<1> QED
  BY <1>1, InicioEspelho, PassoEspelho, PTL DEF SpecEspelho

-----------------------------------------------------------------------------
(* Copia: one process at a time writes the chain, and what it read of it is  *)
(* still true when it publishes                                              *)

LinhaFull == [linha : Nat, ponto : Nat, integro : BOOLEAN]
TrechoNat == [n : Nat, linha : Nat, ini : Nat, fim : Nat]
PassoNat ==
  [em : {"parada", "cadeia", "reparar", "janela", "fonte", "capturar", "copiar",
         "conferir", "publicar", "cabeca", "renovar", "full", "dump", "adotar"},
   boas : SUBSET NomeFull, f : Nat, n : Nat, ponto : Nat, fim : Nat, linha : Nat]

\* the types the proof needs: without the bounds of the model
TiposCopia ==
  /\ binlog \in [linha : Nat, inicio : Nat, fim : Nat]
  /\ full \in Seq(LinhaFull) /\ Len(full) <= MaxFull
  /\ trechos \in [NomeFull -> Seq(TrechoNat)]
  /\ controle \in [ativo : Nat, suporte : BOOLEAN] /\ controle.ativo <= Len(full)
  /\ trava \in ProcCp \cup {NuloCp}
  /\ passo \in [ProcCp -> PassoNat]

UmDeCadaVez == \A p \in ProcCp : passo[p] # Parada => trava = p

\* a chain of this line ends before the end of the binlog, and a line that was
\* recreated does not come back
ChegaAoBinlog(f) ==
  /\ full[f].linha <= binlog.linha
  /\ full[f].linha = binlog.linha => FimDaCadeia(f) <= binlog.fim
Discos ==
  /\ \A f \in DOMAIN full : ChegaAoBinlog(f)
  /\ \A f \in NomeFull \ DOMAIN full : trechos[f] = <<>>

\* what a process knows is true until it publishes
Copiando == {"capturar", "copiar", "conferir", "publicar"}
Captura(m) ==
  /\ m.em \in Copiando \cup {"reparar", "janela", "fonte", "cabeca"} => m.f \in DOMAIN full
  /\ m.em \in Copiando \cup {"fonte"} => m.ponto = FimDaCadeia(m.f) /\ m.ponto <= m.fim
  /\ m.em \in Copiando => m.ponto # m.fim
  /\ m.em = "publicar" => m.linha = full[m.f].linha

\* a chain that can be continued now could be when the task began
Boas(m) ==
  /\ m.em = "cadeia" => \A f \in DOMAIN full : Valida(f) => f \in m.boas
  /\ m.em \notin {"parada", "cadeia"} => controle.ativo \in m.boas

InvCopia ==
  /\ TiposCopia /\ UmDeCadaVez /\ Discos /\ CadeiaContinua
  /\ \A p \in ProcCp : Captura(passo[p])
  /\ Boas(passo[Tarefa])

LEMMA ParadaTipo ==
  Parada \in PassoNat /\ Parada.em = "parada" /\ Parada.boas = {}
BY DEF Parada, PassoNat, NomeFull

LEMMA FullsTipo ==
  ASSUME TiposCopia
  PROVE  /\ DOMAIN full = 1..Len(full) /\ Len(full) \in Nat /\ DOMAIN full \subseteq NomeFull
         /\ \A f \in DOMAIN full : full[f] \in LinhaFull
         /\ \A f \in NomeFull : trechos[f] \in Seq(TrechoNat)
<1>1. full \in Seq(LinhaFull) /\ Len(full) <= MaxFull /\ trechos \in [NomeFull -> Seq(TrechoNat)]
      /\ MaxFull \in Nat
  BY ConstantesCopia DEF TiposCopia
<1>2. DOMAIN full = 1..Len(full) /\ Len(full) \in Nat
  BY <1>1
<1>3. \A f \in DOMAIN full : full[f] \in LinhaFull
  BY <1>1
<1> QED
  BY <1>1, <1>2, <1>3 DEF NomeFull

LEMMA FimTipo ==
  ASSUME TiposCopia, NEW f \in DOMAIN full
  PROVE  FimDaCadeia(f) \in Nat
<1>1. f \in NomeFull /\ full[f] \in LinhaFull /\ trechos[f] \in Seq(TrechoNat)
  BY FullsTipo
<1>2. full[f].ponto \in Nat
  BY <1>1 DEF LinhaFull
<1>3. trechos[f] # <<>> => trechos[f][Len(trechos[f])].fim \in Nat
  <2>1. PICK s : s = trechos[f]
    OBVIOUS
  <2>2. s \in Seq(TrechoNat)
    BY <1>1, <2>1
  <2>3. s # <<>> => s[Len(s)] \in TrechoNat
    BY <2>2
  <2> QED
    BY <2>1, <2>3 DEF TrechoNat
<1> QED
  BY <1>2, <1>3 DEF FimDaCadeia, Last

\* the process that works is alone
LEMMA Sozinho ==
  ASSUME InvCopia, NEW p \in ProcCp, passo[p].em # "parada" \/ passo[p] # Parada
  PROVE  trava = p /\ passo[p] # Parada /\ \A q \in ProcCp \ {p} : passo[q] = Parada
BY ParadaTipo DEF InvCopia, UmDeCadaVez

LEMMA TodosParados ==
  ASSUME InvCopia, trava = NuloCp
  PROVE  \A q \in ProcCp : passo[q] = Parada
BY ConstantesCopia DEF InvCopia, UmDeCadaVez

\* a step that leaves the chains and the binlog where they are
LEMMA MesmaCadeia ==
  ASSUME InvCopia, UNCHANGED <<full, trechos, binlog>>
  PROVE  /\ Discos' /\ CadeiaContinua'
         /\ \A f : FimDaCadeia(f)' = FimDaCadeia(f)
<1>1. \A f : FimDaCadeia(f)' = FimDaCadeia(f)
  BY DEF FimDaCadeia
<1>2. Discos'
  BY <1>1 DEF InvCopia, Discos, ChegaAoBinlog
<1>3. CadeiaContinua'
  BY DEF InvCopia, CadeiaContinua
<1> QED
  BY <1>1, <1>2, <1>3

\* process p goes to step m, the others are stopped
LEMMA Trabalha ==
  ASSUME InvCopia, NEW p \in ProcCp, NEW m \in PassoNat,
         passo' = [passo EXCEPT ![p] = m],
         \A q \in ProcCp \ {p} : passo[q] = Parada,
         m # Parada => trava' = p, trava' \in ProcCp \cup {NuloCp},
         binlog' \in [linha : Nat, inicio : Nat, fim : Nat],
         full' \in Seq(LinhaFull), Len(full') <= MaxFull,
         trechos' \in [NomeFull -> Seq(TrechoNat)],
         controle' \in [ativo : Nat, suporte : BOOLEAN], controle'.ativo <= Len(full'),
         Discos', CadeiaContinua', Captura(m)', p = Tarefa => Boas(m)'
  PROVE  InvCopia'
<1>1. passo \in [ProcCp -> PassoNat]
  BY DEF InvCopia, TiposCopia
<1>2. passo' \in [ProcCp -> PassoNat]
  BY <1>1
<1>3. \A q \in ProcCp : passo'[q] = IF q = p THEN m ELSE Parada
  BY <1>1
<1>4. TiposCopia'
  BY <1>2 DEF TiposCopia
<1>5. UmDeCadaVez'
  BY <1>3 DEF UmDeCadaVez
<1>6. (\A q \in ProcCp : Captura(passo[q]))'
  <2>1. \A q \in ProcCp : passo'[q] = m \/ passo'[q].em = "parada"
    BY <1>3, ParadaTipo
  <2> QED
    BY <2>1 DEF Captura, Copiando
<1>7. Boas(passo[Tarefa])'
  <2>1. CASE p = Tarefa
    BY <1>3, <2>1 DEF Boas
  <2>2. CASE p # Tarefa
    BY <1>3, <2>2, ParadaTipo, ConstantesCopia DEF Boas
  <2> QED
    BY <2>1, <2>2
<1> QED
  BY <1>4, <1>5, <1>6, <1>7 DEF InvCopia

\* the same, for a step that changes neither the chains nor the binlog
LEMMA TrabalhaSemEscrever ==
  ASSUME InvCopia, NEW p \in ProcCp, NEW m \in PassoNat,
         passo' = [passo EXCEPT ![p] = m],
         \A q \in ProcCp \ {p} : passo[q] = Parada,
         m # Parada => trava' = p, trava' \in ProcCp \cup {NuloCp},
         UNCHANGED <<full, trechos, binlog>>,
         controle' \in [ativo : Nat, suporte : BOOLEAN], controle'.ativo <= Len(full),
         Captura(m), p = Tarefa => Boas(m)'
  PROVE  InvCopia'
<1>1. Discos' /\ CadeiaContinua' /\ \A f : FimDaCadeia(f)' = FimDaCadeia(f)
  BY MesmaCadeia
<1>2. Captura(m)'
  BY <1>1 DEF Captura, Copiando
<1>3. /\ binlog' \in [linha : Nat, inicio : Nat, fim : Nat]
      /\ full' \in Seq(LinhaFull) /\ Len(full') <= MaxFull
      /\ trechos' \in [NomeFull -> Seq(TrechoNat)] /\ controle'.ativo <= Len(full')
  BY DEF InvCopia, TiposCopia
<1> QED
  BY <1>1, <1>2, <1>3, Trabalha

LEMMA InicioCopia == InitCopia => InvCopia
<1> SUFFICES ASSUME InitCopia PROVE InvCopia
  OBVIOUS
<1>1. /\ binlog = [linha |-> 1, inicio |-> 0, fim |-> 0] /\ full = <<>>
      /\ trechos = [f \in NomeFull |-> <<>>] /\ controle = [ativo |-> 0, suporte |-> FALSE]
      /\ trava = NuloCp /\ passo = [p \in ProcCp |-> Parada]
  BY DEF InitCopia
<1>2. DOMAIN full = {} /\ Len(full) = 0 /\ full \in Seq(LinhaFull)
  BY <1>1
<1>3. <<>> \in Seq(TrechoNat)
  OBVIOUS
<1>4. TiposCopia
  BY <1>1, <1>2, <1>3, ParadaTipo, ConstantesCopia DEF TiposCopia
<1>5. \A p \in ProcCp : passo[p] = Parada /\ passo[p].em = "parada"
  BY <1>1, ParadaTipo
<1>6. (\A p \in ProcCp : Captura(passo[p])) /\ Boas(passo[Tarefa])
  BY <1>5, ConstantesCopia DEF Captura, Copiando, Boas
<1>7. UmDeCadaVez
  BY <1>5 DEF UmDeCadaVez
<1>8. Discos /\ CadeiaContinua
  BY <1>1, <1>2 DEF Discos, CadeiaContinua
<1> QED
  BY <1>4, <1>6, <1>7, <1>8 DEF InvCopia

\* what the steps below read, with its type
LEMMA LidoPor ==
  ASSUME InvCopia, NEW p \in ProcCp
  PROVE  /\ passo[p] \in PassoNat /\ passo \in [ProcCp -> PassoNat] /\ Captura(passo[p])
         /\ trava \in ProcCp \cup {NuloCp} /\ NuloCp \notin ProcCp /\ Tarefa \in ProcCp
         /\ controle \in [ativo : Nat, suporte : BOOLEAN] /\ controle.ativo <= Len(full)
         /\ binlog \in [linha : Nat, inicio : Nat, fim : Nat]
         /\ DOMAIN full = 1..Len(full) /\ Len(full) \in Nat /\ DOMAIN full \subseteq NomeFull
         /\ NomeFull \subseteq Nat /\ Boas(passo[Tarefa]) /\ TiposCopia
BY FullsTipo, ConstantesCopia DEF InvCopia, TiposCopia, NomeFull

LEMMA PassoIniciar ==
  ASSUME InvCopia, NEW r \in BOOLEAN, Iniciar(r)
  PROVE  InvCopia'
<1>1. PICK m : m = [Parada EXCEPT !.em = "cadeia", !.boas = {f \in DOMAIN full : Valida(f)}]
  OBVIOUS
<1>2. /\ trava = NuloCp /\ trava' = Tarefa /\ passo' = [passo EXCEPT ![Tarefa] = m]
      /\ UNCHANGED <<full, trechos, cabeca, binlog>>
      /\ controle' = [controle EXCEPT !.suporte = FALSE]
  BY <1>1 DEF Iniciar, TravaLivre, Ir, Disco, Servidor
<1>3. m \in PassoNat /\ m.em = "cadeia" /\ m.boas = {f \in DOMAIN full : Valida(f)}
  <2>1. {f \in DOMAIN full : Valida(f)} \in SUBSET NomeFull
    BY LidoPor, ConstantesCopia
  <2> QED
    BY <1>1, <2>1, ParadaTipo DEF PassoNat
<1>4. \A q \in ProcCp : passo[q] = Parada
  BY <1>2, TodosParados
<1>5. controle' \in [ativo : Nat, suporte : BOOLEAN] /\ controle'.ativo = controle.ativo
  BY <1>2, LidoPor, ConstantesCopia
<1>6. \A f : Valida(f)' = Valida(f)
  BY <1>2 DEF Valida, CadeiaLida, FonteConfere, JanelaConfere, FimDaCadeia
<1>7. Boas(m)' /\ Captura(m)
  BY <1>2, <1>3, <1>6 DEF Boas, Captura, Copiando
<1> QED
  BY <1>2, <1>3, <1>4, <1>5, <1>7, LidoPor, ConstantesCopia, TrabalhaSemEscrever

\* the task ends, and says what is active and whether it needs the support
LEMMA PassoEncerrarCp ==
  ASSUME InvCopia, NEW f \in Nat, f <= Len(full), NEW s \in BOOLEAN, passo[Tarefa].em # "parada",
         Encerrar(f, s)
  PROVE  InvCopia'
<1>1. /\ controle' = [ativo |-> f, suporte |-> s] /\ trava' = NuloCp
      /\ passo' = [passo EXCEPT ![Tarefa] = Parada] /\ UNCHANGED <<full, trechos, binlog>>
  BY DEF Encerrar, Sair, Ir, Disco, Servidor
<1>2. controle' \in [ativo : Nat, suporte : BOOLEAN] /\ controle'.ativo = f
  BY <1>1
<1>3. Captura(Parada) /\ Boas(Parada)'
  BY ParadaTipo DEF Captura, Copiando, Boas
<1>4. Tarefa \in ProcCp
  BY ConstantesCopia
<1>5. \A q \in ProcCp \ {Tarefa} : passo[q] = Parada
  BY <1>4, Sozinho
<1> QED
  BY <1>1, <1>2, <1>3, <1>4, <1>5, ParadaTipo, TrabalhaSemEscrever

LEMMA PassoEscolher ==
  ASSUME InvCopia, EscolherCadeia
  PROVE  InvCopia'
<1>1. PICK m : m = [passo[Tarefa] EXCEPT !.em = "reparar", !.f = Len(full), !.fim = binlog.fim]
  OBVIOUS
<1>2. /\ passo[Tarefa].em = "cadeia" /\ full # <<>> /\ Valida(Len(full))
      /\ controle' = [ativo |-> Len(full), suporte |-> FALSE]
      /\ passo' = [passo EXCEPT ![Tarefa] = m] /\ UNCHANGED <<full, trechos, binlog, trava>>
  BY <1>1 DEF EscolherCadeia, CandidatoOk, Ir, Disco, Servidor
<1>3. Tarefa \in ProcCp /\ passo[Tarefa] \in PassoNat /\ Len(full) \in Nat /\ Len(full) \in DOMAIN full
  BY <1>2, LidoPor, ConstantesCopia DEF InvCopia, TiposCopia
<1>4. m \in PassoNat /\ m.em = "reparar" /\ m.f = Len(full) /\ m.boas = passo[Tarefa].boas
  <2>1. binlog.fim \in Nat
    BY DEF InvCopia, TiposCopia
  <2> QED
    BY <1>1, <1>3, <2>1 DEF PassoNat
<1>5. trava = Tarefa /\ \A q \in ProcCp \ {Tarefa} : passo[q] = Parada
  BY <1>2, <1>3, Sozinho
<1>6. controle' \in [ativo : Nat, suporte : BOOLEAN] /\ controle'.ativo = Len(full)
  BY <1>2, <1>3
<1>7. Captura(m)
  BY <1>3, <1>4 DEF Captura, Copiando
<1>8. Len(full) \in passo[Tarefa].boas
  BY <1>2, <1>3, LidoPor DEF Boas
<1>9. Boas(m)'
  BY <1>4, <1>6, <1>8 DEF Boas
<1>10. trava' = Tarefa /\ controle'.ativo <= Len(full)
  BY <1>2, <1>3, <1>5, <1>6
<1> QED
  BY <1>2, <1>3, <1>4, <1>5, <1>6, <1>7, <1>9, <1>10, TrabalhaSemEscrever

LEMMA PassoControle ==
  ASSUME InvCopia, (\E s \in BOOLEAN : Falhar(s)) \/ CadeiaRecusada \/ NaoRenovar \/ AdotarNovo
  PROVE  InvCopia'
<1>1. controle.ativo \in Nat /\ controle.ativo <= Len(full) /\ Len(full) \in Nat
  BY LidoPor, ConstantesCopia
<1>2. ASSUME NEW s \in BOOLEAN, Falhar(s) PROVE InvCopia'
  <2>1. passo[Tarefa].em # "parada" /\ Encerrar(controle.ativo, s)
    BY <1>2 DEF Falhar
  <2> QED
    BY <1>1, <2>1, PassoEncerrarCp
<1>3. CASE CadeiaRecusada
  <2>1. passo[Tarefa].em # "parada" /\ Encerrar(controle.ativo, TRUE)
    BY <1>3 DEF CadeiaRecusada
  <2> QED
    BY <1>1, <2>1, PassoEncerrarCp
<1>4. CASE NaoRenovar
  <2>1. passo[Tarefa].em # "parada" /\ Encerrar(controle.ativo, FALSE)
    BY <1>4 DEF NaoRenovar
  <2> QED
    BY <1>1, <2>1, PassoEncerrarCp
<1>5. CASE AdotarNovo
  <2>1. /\ passo[Tarefa].em # "parada"
        /\ Encerrar(Len(full), FALSE) \/ Encerrar(controle.ativo, TRUE)
    BY <1>5 DEF AdotarNovo
  <2>2. CASE Encerrar(Len(full), FALSE)
    <3>1. PICK k : k = Len(full)
      OBVIOUS
    <3>2. k \in Nat /\ k <= Len(full)
      BY <1>1, <3>1
    <3> QED
      BY <2>1, <2>2, <3>1, <3>2, PassoEncerrarCp
  <2>3. CASE Encerrar(controle.ativo, TRUE)
    BY <1>1, <2>1, <2>3, PassoEncerrarCp
  <2> QED
    BY <2>1, <2>2, <2>3
<1> QED
  BY <1>2, <1>3, <1>4, <1>5

LEMMA PassoRenovar ==
  ASSUME InvCopia, Renovar
  PROVE  InvCopia'
<1>1. passo[Tarefa].em = "renovar"
  BY DEF Renovar
<1>2. CASE Encerrar(controle.ativo, TRUE)
  <2>1. controle.ativo \in Nat /\ controle.ativo <= Len(full)
    BY LidoPor, ConstantesCopia
  <2> QED
    BY <1>1, <1>2, <2>1, PassoEncerrarCp
<1>3. CASE Ir(Tarefa, [passo[Tarefa] EXCEPT !.em = "full"]) /\ UNCHANGED <<Disco, Servidor, trava, controle>>
  <2>1. PICK m : m = [passo[Tarefa] EXCEPT !.em = "full"]
    OBVIOUS
  <2>2. passo' = [passo EXCEPT ![Tarefa] = m] /\ UNCHANGED <<full, trechos, binlog, trava, controle>>
    BY <1>3, <2>1 DEF Ir, Disco, Servidor
  <2>3. Tarefa \in ProcCp /\ passo[Tarefa] \in PassoNat
    BY LidoPor, ConstantesCopia
  <2>4. m \in PassoNat /\ m.em = "full" /\ m.boas = passo[Tarefa].boas
    BY <2>1, <2>3 DEF PassoNat
  <2>5. trava = Tarefa /\ \A q \in ProcCp \ {Tarefa} : passo[q] = Parada
    BY <1>1, <2>3, Sozinho
  <2>6. Captura(m) /\ Boas(m)'
    BY <1>1, <2>2, <2>4, LidoPor, ConstantesCopia DEF Captura, Copiando, Boas
  <2>7. controle' \in [ativo : Nat, suporte : BOOLEAN] /\ controle'.ativo <= Len(full)
    BY <2>2, LidoPor, ConstantesCopia
  <2> QED
    BY <2>2, <2>3, <2>4, <2>5, <2>6, <2>7, TrabalhaSemEscrever
<1> QED
  BY <1>2, <1>3 DEF Renovar

-----------------------------------------------------------------------------
(* Copia: the captures *)

LEMMA PassoManual ==
  ASSUME InvCopia, NEW p \in ProcCp, FullManual(p) \/ \E f \in NomeFull : IncrementalManual(p, f)
  PROVE  InvCopia'
<1>1. /\ p # Tarefa /\ trava = NuloCp /\ trava' = p /\ UNCHANGED <<full, trechos, binlog, controle>>
      /\ \E m \in PassoNat : /\ passo' = [passo EXCEPT ![p] = m]
                             /\ m.em = "full" \/ (m.em = "janela" /\ m.f \in DOMAIN full)
  <2>1. ASSUME FullManual(p) PROVE <1>1!2
    <3>1. PICK m : m = [Parada EXCEPT !.em = "full"]
      OBVIOUS
    <3>2. m \in PassoNat /\ m.em = "full"
      BY <3>1, ParadaTipo DEF PassoNat
    <3> QED
      BY <2>1, <3>1, <3>2 DEF FullManual, Ir
  <2>2. ASSUME NEW f \in NomeFull, IncrementalManual(p, f) PROVE <1>1!2
    <3>1. PICK m : m = [Parada EXCEPT !.em = "janela", !.f = f]
      OBVIOUS
    <3>2. m \in PassoNat /\ m.em = "janela" /\ m.f = f
      BY <3>1, ParadaTipo, LidoPor DEF PassoNat
    <3> QED
      BY <2>2, <3>1, <3>2 DEF IncrementalManual, Ir
  <2>3. /\ p # Tarefa /\ trava = NuloCp /\ trava' = p /\ UNCHANGED <<full, trechos, binlog, controle>>
    BY DEF FullManual, IncrementalManual, TravaLivre, Disco, Servidor
  <2> QED
    BY <2>1, <2>2, <2>3
<1>2. PICK m \in PassoNat : /\ passo' = [passo EXCEPT ![p] = m]
                            /\ m.em = "full" \/ (m.em = "janela" /\ m.f \in DOMAIN full)
  BY <1>1
<1>3. Captura(m)
  BY <1>2 DEF Captura, Copiando
<1>4. \A q \in ProcCp : passo[q] = Parada
  BY <1>1, TodosParados
<1>5. controle' \in [ativo : Nat, suporte : BOOLEAN] /\ controle'.ativo <= Len(full)
  BY <1>1, LidoPor
<1> QED
  BY <1>1, <1>2, <1>3, <1>4, <1>5, TrabalhaSemEscrever

\* the end of a capture
LEMMA DepoisDaCaptura ==
  ASSUME InvCopia, NEW p \in ProcCp, passo[p].em \notin {"parada", "cadeia"}, Depois(p),
         UNCHANGED <<full, trechos, binlog, controle>>
  PROVE  InvCopia'
<1>1. trava = p /\ \A q \in ProcCp \ {p} : passo[q] = Parada
  BY Sozinho
<1>2. controle' \in [ativo : Nat, suporte : BOOLEAN] /\ controle'.ativo <= Len(full)
  BY LidoPor
<1>3. CASE p = Tarefa
  <2>1. PICK m : m = [Parada EXCEPT !.em = "renovar", !.boas = passo[p].boas]
    OBVIOUS
  <2>2. passo' = [passo EXCEPT ![p] = m] /\ trava' = trava
    BY <1>3, <2>1 DEF Depois, Ir
  <2>3. m \in PassoNat /\ m.em = "renovar" /\ m.boas = passo[p].boas
    BY <2>1, LidoPor, ParadaTipo DEF PassoNat
  <2>4. Captura(m) /\ Boas(m)'
    BY <1>3, <2>3, LidoPor DEF Captura, Copiando, Boas
  <2> QED
    BY <1>1, <1>2, <2>2, <2>3, <2>4, TrabalhaSemEscrever
<1>4. CASE p # Tarefa
  <2>1. passo' = [passo EXCEPT ![p] = Parada] /\ trava' = NuloCp
    BY <1>4 DEF Depois, Sair, Ir
  <2>2. Captura(Parada)
    BY ParadaTipo DEF Captura, Copiando
  <2> QED
    BY <1>1, <1>2, <1>4, <2>1, <2>2, ParadaTipo, TrabalhaSemEscrever
<1> QED
  BY <1>3, <1>4

\* a step of a capture that writes no chain
LEMMA SoAvanca ==
  ASSUME InvCopia, NEW p \in ProcCp, NEW m \in PassoNat,
         passo[p].em \notin {"parada", "cadeia"}, m.em \notin {"parada", "cadeia"},
         m.boas = passo[p].boas, Captura(m), passo' = [passo EXCEPT ![p] = m],
         UNCHANGED <<full, trechos, binlog, controle, trava>>
  PROVE  InvCopia'
<1>1. trava = p /\ \A q \in ProcCp \ {p} : passo[q] = Parada
  BY Sozinho
<1>2. controle' \in [ativo : Nat, suporte : BOOLEAN] /\ controle'.ativo <= Len(full)
  BY LidoPor
<1>3. p = Tarefa => Boas(m)'
  BY LidoPor DEF Boas
<1> QED
  BY <1>1, <1>2, <1>3, TrabalhaSemEscrever

LEMMA PassoReparar ==
  ASSUME InvCopia, NEW p \in ProcCp, Reparar(p)
  PROVE  InvCopia'
<1>1. passo[p].em = "reparar" /\ UNCHANGED <<full, trechos, binlog, controle>>
  BY DEF Reparar, Servidor
<1>2. PICK m : m = [passo[p] EXCEPT !.em = "janela"]
  OBVIOUS
<1>3. Depois(p) \/ (passo' = [passo EXCEPT ![p] = m] /\ trava' = trava)
  BY <1>2 DEF Reparar, Ir
<1>4. CASE Depois(p)
  BY <1>1, <1>4, DepoisDaCaptura
<1>5. CASE passo' = [passo EXCEPT ![p] = m] /\ trava' = trava
  <2>1. m \in PassoNat /\ m.em = "janela" /\ m.f = passo[p].f /\ m.boas = passo[p].boas
    BY <1>2, LidoPor DEF PassoNat
  <2>2. Captura(m)
    BY <1>1, <2>1, LidoPor DEF Captura, Copiando
  <2> QED
    BY <1>1, <1>5, <2>1, <2>2, SoAvanca
<1> QED
  BY <1>3, <1>4, <1>5

LEMMA PassoLerJanela ==
  ASSUME InvCopia, NEW p \in ProcCp, LerJanela(p)
  PROVE  InvCopia'
<1>1. PICK x : x = FimDaCadeia(passo[p].f)
  OBVIOUS
<1>2. PICK k : k = Len(trechos[passo[p].f])
  OBVIOUS
<1>3. PICK m : m = [passo[p] EXCEPT !.em = "fonte", !.n = k, !.ponto = x, !.fim = binlog.fim]
  OBVIOUS
<1>4. /\ passo[p].em = "janela" /\ passo' = [passo EXCEPT ![p] = m] /\ x <= binlog.fim
      /\ UNCHANGED <<full, trechos, binlog, controle, trava>>
  BY <1>1, <1>2, <1>3 DEF LerJanela, JanelaConfere, Ir, Disco, Servidor
<1>5. passo[p].f \in DOMAIN full
  BY <1>4, LidoPor DEF Captura, Copiando
<1>6. x \in Nat /\ k \in Nat /\ binlog.fim \in Nat
  BY <1>1, <1>2, <1>5, LidoPor, FimTipo, FullsTipo
<1>7. /\ m \in PassoNat /\ m.em = "fonte" /\ m.f = passo[p].f /\ m.boas = passo[p].boas
      /\ m.ponto = x /\ m.fim = binlog.fim
  BY <1>3, <1>6, LidoPor DEF PassoNat
<1>8. Captura(m)
  BY <1>1, <1>4, <1>5, <1>7 DEF Captura, Copiando
<1> QED
  BY <1>4, <1>7, <1>8, SoAvanca

LEMMA PassoConferirFonte ==
  ASSUME InvCopia, NEW p \in ProcCp, ConferirFonte(p)
  PROVE  InvCopia'
<1>1. passo[p].em = "fonte" /\ UNCHANGED <<full, trechos, binlog, controle>>
  BY DEF ConferirFonte, Servidor
<1>2. PICK m : m = [passo[p] EXCEPT !.em = "capturar"]
  OBVIOUS
<1>3. \/ Depois(p)
      \/ passo[p].fim # passo[p].ponto /\ passo' = [passo EXCEPT ![p] = m] /\ trava' = trava
  BY <1>2 DEF ConferirFonte, Ir
<1>4. CASE Depois(p)
  BY <1>1, <1>4, DepoisDaCaptura
<1>5. CASE passo[p].fim # passo[p].ponto /\ passo' = [passo EXCEPT ![p] = m] /\ trava' = trava
  <2>1. /\ m \in PassoNat /\ m.em = "capturar" /\ m.f = passo[p].f /\ m.boas = passo[p].boas
        /\ m.ponto = passo[p].ponto /\ m.fim = passo[p].fim
    BY <1>2, LidoPor DEF PassoNat
  <2>2. Captura(m)
    BY <1>1, <1>5, <2>1, LidoPor DEF Captura, Copiando
  <2> QED
    BY <1>1, <1>5, <2>1, <2>2, SoAvanca
<1> QED
  BY <1>3, <1>4, <1>5

\* the copies and their comparison: only a segment whose every file still
\* matches its source is of the line of its FULL
LEMMA PassoCapturar ==
  ASSUME InvCopia, NEW p \in ProcCp, Capturar(p) \/ CopiarAteFim(p) \/ \E muda \in BOOLEAN : ConferirCopias(p, muda)
  PROVE  InvCopia'
<1>1. UNCHANGED <<full, trechos, binlog, controle>>
  BY DEF Capturar, CopiarAteFim, ConferirCopias, Disco, Servidor
<1>2. CASE Capturar(p)
  <2>1. PICK m : m = [passo[p] EXCEPT !.em = "copiar"]
    OBVIOUS
  <2>2. passo[p].em = "capturar" /\ passo' = [passo EXCEPT ![p] = m] /\ trava' = trava
    BY <1>2, <2>1 DEF Capturar, Ir
  <2>3. /\ m \in PassoNat /\ m.em = "copiar" /\ m.f = passo[p].f /\ m.boas = passo[p].boas
        /\ m.ponto = passo[p].ponto /\ m.fim = passo[p].fim
    BY <2>1, LidoPor DEF PassoNat
  <2>4. Captura(m)
    BY <2>2, <2>3, LidoPor DEF Captura, Copiando
  <2> QED
    BY <1>1, <2>2, <2>3, <2>4, SoAvanca
<1>3. CASE CopiarAteFim(p)
  <2>1. PICK m : m = [passo[p] EXCEPT !.em = "conferir", !.linha = binlog.linha]
    OBVIOUS
  <2>2. passo[p].em = "copiar" /\ passo' = [passo EXCEPT ![p] = m] /\ trava' = trava
    BY <1>3, <2>1 DEF CopiarAteFim, Ir
  <2>3. binlog.linha \in Nat
    BY LidoPor
  <2>4. /\ m \in PassoNat /\ m.em = "conferir" /\ m.f = passo[p].f /\ m.boas = passo[p].boas
        /\ m.ponto = passo[p].ponto /\ m.fim = passo[p].fim
    BY <2>1, <2>3, LidoPor DEF PassoNat
  <2>5. Captura(m)
    BY <2>2, <2>4, LidoPor DEF Captura, Copiando
  <2> QED
    BY <1>1, <2>2, <2>4, <2>5, SoAvanca
<1>4. ASSUME NEW muda \in BOOLEAN, ConferirCopias(p, muda) PROVE InvCopia'
  <2>1. PICK m : m = [passo[p] EXCEPT !.em = "publicar"]
    OBVIOUS
  <2>2. /\ passo[p].em = "conferir" /\ passo[p].linha = full[passo[p].f].linha
        /\ Depois(p) \/ (passo' = [passo EXCEPT ![p] = m] /\ trava' = trava)
    BY <1>4, <2>1 DEF ConferirCopias, OrigensConferem, FonteConfere, Ir
  <2>3. CASE Depois(p)
    BY <1>1, <2>2, <2>3, DepoisDaCaptura
  <2>4. CASE passo' = [passo EXCEPT ![p] = m] /\ trava' = trava
    <3>1. /\ m \in PassoNat /\ m.em = "publicar" /\ m.f = passo[p].f /\ m.boas = passo[p].boas
          /\ m.ponto = passo[p].ponto /\ m.fim = passo[p].fim /\ m.linha = passo[p].linha
      BY <2>1, LidoPor DEF PassoNat
    <3>2. Captura(m)
      BY <2>2, <3>1, LidoPor DEF Captura, Copiando
    <3> QED
      BY <1>1, <2>2, <2>4, <3>1, <3>2, SoAvanca
  <2> QED
    BY <2>2, <2>3, <2>4
<1> QED
  BY <1>2, <1>3, <1>4

LEMMA PassoCabeca ==
  ASSUME InvCopia, NEW p \in ProcCp, GravarCabeca(p)
  PROVE  InvCopia'
<1>1. /\ passo[p].em = "cabeca" /\ Depois(p) /\ UNCHANGED <<full, trechos, binlog, controle>>
  BY DEF GravarCabeca, Servidor
<1> QED
  BY <1>1, DepoisDaCaptura

LEMMA PassoDump ==
  ASSUME InvCopia, NEW p \in ProcCp, Dump(p)
  PROVE  InvCopia'
<1>1. PICK m : m = [passo[p] EXCEPT !.em = "dump", !.ponto = binlog.fim]
  OBVIOUS
<1>2. /\ passo[p].em = "full" /\ passo' = [passo EXCEPT ![p] = m]
      /\ UNCHANGED <<full, trechos, binlog, controle, trava>>
  BY <1>1 DEF Dump, Ir, Disco, Servidor
<1>3. m \in PassoNat /\ m.em = "dump" /\ m.boas = passo[p].boas
  BY <1>1, LidoPor DEF PassoNat
<1>4. trava = p /\ \A q \in ProcCp \ {p} : passo[q] = Parada
  BY <1>2, Sozinho
<1>5. Captura(m) /\ (p = Tarefa => Boas(m)')
  BY <1>2, <1>3, LidoPor DEF Captura, Copiando, Boas
<1>6. controle' \in [ativo : Nat, suporte : BOOLEAN] /\ controle'.ativo <= Len(full)
  BY <1>2, LidoPor
<1> QED
  BY <1>2, <1>3, <1>4, <1>5, <1>6, TrabalhaSemEscrever

LEMMA PassoInterromper ==
  ASSUME InvCopia, NEW p \in ProcCp, Interromper(p)
  PROVE  InvCopia'
<1>1. /\ passo[p] # Parada /\ passo' = [passo EXCEPT ![p] = Parada] /\ trava' = NuloCp
      /\ UNCHANGED <<full, trechos, binlog, controle>>
  BY DEF Interromper, Sair, Ir, Disco, Servidor
<1>2. \A q \in ProcCp \ {p} : passo[q] = Parada
  BY <1>1, Sozinho
<1>3. Captura(Parada) /\ Boas(Parada)'
  BY ParadaTipo DEF Captura, Copiando, Boas
<1>4. controle' \in [ativo : Nat, suporte : BOOLEAN] /\ controle'.ativo <= Len(full)
  BY <1>1, LidoPor
<1> QED
  BY <1>1, <1>2, <1>3, <1>4, ParadaTipo, TrabalhaSemEscrever

\* the segment begins where its chain ends, in the same line of the binlog
LEMMA PassoPublicar ==
  ASSUME InvCopia, NEW p \in ProcCp, Publicar(p)
  PROVE  InvCopia'
<1>1. PICK f : f = passo[p].f
  OBVIOUS
<1>2. PICK s : s = [n |-> passo[p].n + 1, linha |-> passo[p].linha,
                    ini |-> passo[p].ponto, fim |-> passo[p].fim]
  OBVIOUS
<1>3. /\ passo[p].em = "publicar" /\ UNCHANGED <<full, binlog, controle>>
      /\ FonteConfere(passo[p].linha, passo[p].fim) /\ passo[p].linha = full[f].linha
  BY <1>1, LidoPor DEF Publicar, Captura, Copiando, Servidor
<1>11. PICK m : m = [passo[p] EXCEPT !.em = "cabeca", !.n = s.n]
  OBVIOUS
<1>12. PICK u : u = Append(trechos[f], s)
  OBVIOUS
<1>13. trechos' = [trechos EXCEPT ![f] = u] /\ passo' = [passo EXCEPT ![p] = m] /\ trava' = trava
  BY <1>1, <1>2, <1>11, <1>12 DEF Publicar, Ir
<1>14. f \in DOMAIN full /\ f \in NomeFull /\ passo[p].ponto = FimDaCadeia(f) /\ passo[p].ponto < passo[p].fim
  BY <1>1, <1>3, LidoPor DEF Captura, Copiando, PassoNat
<1>15. s \in TrechoNat /\ s.linha = full[f].linha /\ s.ini = FimDaCadeia(f) /\ s.fim = passo[p].fim
      /\ s.ini < s.fim
  BY <1>2, <1>3, <1>14, LidoPor DEF TrechoNat, PassoNat
<1>16. m \in PassoNat /\ m.em = "cabeca" /\ m.f = f /\ m.boas = passo[p].boas
  <2>1. s.n \in Nat
    BY <1>15 DEF TrechoNat
  <2> QED
    BY <1>1, <1>11, <2>1, LidoPor DEF PassoNat
<1>17. PICK t : t = trechos[f]
  OBVIOUS
<1>18. /\ t \in Seq(TrechoNat) /\ u \in Seq(TrechoNat) /\ Len(u) = Len(t) + 1 /\ u[Len(u)] = s
      /\ \A i \in 1..Len(t) : u[i] = t[i]
      /\ u # <<>> /\ DOMAIN u = 1..(Len(t) + 1) /\ DOMAIN t = 1..Len(t) /\ Len(t) \in Nat
  BY <1>12, <1>14, <1>15, <1>17, LidoPor, FullsTipo
<1>19. /\ trechos' \in [NomeFull -> Seq(TrechoNat)]
      /\ \A g \in NomeFull : trechos'[g] = IF g = f THEN u ELSE trechos[g]
  BY <1>13, <1>14, <1>18, LidoPor DEF TiposCopia
<1>20. FimDaCadeia(f)' = passo[p].fim
  BY <1>14, <1>15, <1>18, <1>19 DEF FimDaCadeia, Last
<1>21. \A g \in DOMAIN full : g # f => FimDaCadeia(g)' = FimDaCadeia(g)
  BY <1>3, <1>19, LidoPor DEF FimDaCadeia
<1>22. full[f].linha = binlog.linha /\ passo[p].fim <= binlog.fim
  BY <1>3 DEF FonteConfere
<1>23. Discos'
  <2>1. \A g \in DOMAIN full : ChegaAoBinlog(g)
    BY DEF InvCopia, Discos
  <2>2. ChegaAoBinlog(f)'
    BY <1>3, <1>14, <1>20, <1>22, <2>1 DEF ChegaAoBinlog
  <2>3. \A g \in DOMAIN full : g # f => ChegaAoBinlog(g)'
    BY <1>3, <1>21, <2>1 DEF ChegaAoBinlog
  <2>4. \A g \in NomeFull \ DOMAIN full : trechos'[g] = <<>>
    BY <1>14, <1>19 DEF InvCopia, Discos
  <2> QED
    BY <1>3, <2>2, <2>3, <2>4 DEF Discos
<1>24. CadeiaContinua'
  <2>1. \A i \in DOMAIN t : /\ t[i].linha = full[f].linha /\ t[i].ini < t[i].fim
                            /\ t[i].ini = IF i = 1 THEN full[f].ponto ELSE t[i - 1].fim
    BY <1>14, <1>17 DEF InvCopia, CadeiaContinua
  <2>2. s.ini = IF t = <<>> THEN full[f].ponto ELSE t[Len(t)].fim
    BY <1>15, <1>17 DEF FimDaCadeia, Last
  <2>3. ASSUME NEW i \in DOMAIN u
        PROVE  /\ u[i].linha = full[f].linha /\ u[i].ini < u[i].fim
               /\ u[i].ini = IF i = 1 THEN full[f].ponto ELSE u[i - 1].fim
    <3>1. CASE i = Len(t) + 1
      <4>1. u[i] = s
        BY <1>18, <3>1
      <4>2. t # <<>> => i # 1 /\ u[i - 1] = t[Len(t)]
        BY <1>18, <3>1
      <4>3. t = <<>> => i = 1
        BY <3>1
      <4> QED
        BY <1>15, <1>22, <2>2, <4>1, <4>2, <4>3
    <3>2. CASE i # Len(t) + 1
      <4>1. i \in DOMAIN t /\ u[i] = t[i] /\ (i # 1 => u[i - 1] = t[i - 1])
        BY <1>18, <3>2
      <4> QED
        BY <2>1, <4>1
    <3> QED
      BY <3>1, <3>2
  <2>4. ASSUME NEW g \in DOMAIN full, NEW i \in DOMAIN trechos'[g]
        PROVE  /\ trechos'[g][i].linha = full[g].linha /\ trechos'[g][i].ini < trechos'[g][i].fim
               /\ trechos'[g][i].ini = IF i = 1 THEN full[g].ponto ELSE trechos'[g][i - 1].fim
    <3>1. CASE g = f
      BY <1>14, <1>19, <2>3, <3>1
    <3>2. CASE g # f
      <4>1. trechos'[g] = trechos[g]
        BY <1>19, <3>2, LidoPor
      <4> QED
        BY <2>4, <4>1 DEF InvCopia, CadeiaContinua
    <3> QED
      BY <3>1, <3>2
  <2> QED
    BY <1>3, <2>4 DEF CadeiaContinua
<1>25. trava = p /\ \A q \in ProcCp \ {p} : passo[q] = Parada
  BY <1>3, Sozinho
<1>26. Captura(m)' /\ (p = Tarefa => Boas(m)')
  BY <1>3, <1>14, <1>16, LidoPor DEF Captura, Boas, Copiando
<1>27. /\ binlog' \in [linha : Nat, inicio : Nat, fim : Nat]
       /\ full' \in Seq(LinhaFull) /\ Len(full') <= MaxFull
       /\ controle' \in [ativo : Nat, suporte : BOOLEAN] /\ controle'.ativo <= Len(full')
  BY <1>3 DEF InvCopia, TiposCopia
<1> QED
  BY <1>13, <1>16, <1>19, <1>23, <1>24, <1>25, <1>26, <1>27, Trabalha

\* a new FULL has no segment yet
LEMMA PassoPublicarFull ==
  ASSUME InvCopia, NEW p \in ProcCp, PublicarFull(p)
  PROVE  InvCopia'
<1>1. PICK l : l = [linha |-> binlog.linha, ponto |-> passo[p].ponto, integro |-> TRUE]
  OBVIOUS
<1>2. PICK m : m = IF p = Tarefa THEN [passo[p] EXCEPT !.em = "adotar"] ELSE Parada
  OBVIOUS
<1>3. /\ passo[p].em = "dump" /\ passo[p].ponto <= binlog.fim /\ Len(full) < MaxFull
      /\ full' = Append(full, l) /\ UNCHANGED <<trechos, cabeca, binlog, controle>>
      /\ passo' = [passo EXCEPT ![p] = m]
      /\ IF p = Tarefa THEN trava' = trava ELSE trava' = NuloCp
  BY <1>1, <1>2 DEF PublicarFull, JanelaConfere, Ir, Sair, Servidor
<1>4. m \in PassoNat /\ (p = Tarefa => m.em = "adotar" /\ m.boas = passo[p].boas)
      /\ (p # Tarefa => m = Parada)
  BY <1>2, LidoPor, ParadaTipo DEF PassoNat
<1>5. l \in LinhaFull /\ l.linha = binlog.linha /\ l.ponto = passo[p].ponto
  BY <1>1, LidoPor DEF LinhaFull, PassoNat
<1>6. PICK k : k = Len(full) + 1
  OBVIOUS
<1>7. /\ full' \in Seq(LinhaFull) /\ Len(full') = k /\ full'[k] = l
      /\ \A f \in DOMAIN full : full'[f] = full[f]
      /\ DOMAIN full' = DOMAIN full \cup {k} /\ k \notin DOMAIN full
      /\ k \in NomeFull /\ Len(full') <= MaxFull /\ Len(full) \in Nat
  <2>1. full \in Seq(LinhaFull) /\ Len(full) \in Nat /\ MaxFull \in Nat
    BY LidoPor, ConstantesCopia DEF TiposCopia
  <2>2. full' \in Seq(LinhaFull) /\ Len(full') = k /\ full'[k] = l
    BY <1>3, <1>5, <1>6, <2>1
  <2>3. \A f \in 1..Len(full) : full'[f] = full[f]
    BY <1>3, <1>5, <2>1
  <2>4. DOMAIN full = 1..Len(full) /\ DOMAIN full' = 1..k
    BY <2>1, <2>2
  <2> QED
    BY <1>3, <1>6, <2>1, <2>2, <2>3, <2>4 DEF NomeFull
<1>8. trechos[k] = <<>>
  BY <1>7 DEF InvCopia, Discos
<1>9. \A f \in DOMAIN full : FimDaCadeia(f)' = FimDaCadeia(f)
  BY <1>3, <1>7 DEF FimDaCadeia
<1>10. FimDaCadeia(k)' = passo[p].ponto
  BY <1>3, <1>5, <1>7, <1>8 DEF FimDaCadeia
<1>11. Discos'
  <2>1. \A f \in DOMAIN full : ChegaAoBinlog(f)'
    BY <1>3, <1>7, <1>9 DEF InvCopia, Discos, ChegaAoBinlog
  <2>2. ChegaAoBinlog(k)'
    BY <1>3, <1>5, <1>7, <1>10, LidoPor DEF ChegaAoBinlog
  <2>3. \A f \in NomeFull \ DOMAIN full' : trechos'[f] = <<>>
    BY <1>3, <1>7 DEF InvCopia, Discos
  <2> QED
    BY <1>7, <2>1, <2>2, <2>3 DEF Discos
<1>12. CadeiaContinua'
  <2>1. DOMAIN trechos[k] = {}
    BY <1>8
  <2> QED
    BY <1>3, <1>7, <2>1 DEF InvCopia, CadeiaContinua
<1>13. trava = p /\ \A q \in ProcCp \ {p} : passo[q] = Parada
  BY <1>3, Sozinho
<1>14. Captura(m)' /\ (p = Tarefa => Boas(m)')
  <2>1. Captura(m)'
    BY <1>4, ParadaTipo DEF Captura, Copiando
  <2>2. p = Tarefa => Boas(m)'
    BY <1>3, <1>4, LidoPor DEF Boas
  <2> QED
    BY <2>1, <2>2
<1>15. /\ binlog' \in [linha : Nat, inicio : Nat, fim : Nat]
       /\ trechos' \in [NomeFull -> Seq(TrechoNat)]
       /\ controle' \in [ativo : Nat, suporte : BOOLEAN] /\ controle'.ativo <= Len(full')
  BY <1>3, <1>6, <1>7, LidoPor DEF TiposCopia
<1>16. (m # Parada => trava' = p) /\ trava' \in ProcCp \cup {NuloCp}
  BY <1>3, <1>4, <1>13
<1> QED
  BY <1>3, <1>4, <1>7, <1>11, <1>12, <1>13, <1>14, <1>15, <1>16, Trabalha

-----------------------------------------------------------------------------
(* Copia: the server and the disk *)

\* a step of the server or of the disk: what it changes of a chain, it changes
\* with no process at work
LEMMA SemProcesso ==
  ASSUME InvCopia, UNCHANGED <<controle, trava, passo>>,
         binlog' \in [linha : Nat, inicio : Nat, fim : Nat],
         full' \in Seq(LinhaFull), Len(full') = Len(full),
         \A f \in DOMAIN full : full'[f].linha = full[f].linha,
         trechos' \in [NomeFull -> Seq(TrechoNat)],
         Discos', CadeiaContinua',
         trava # NuloCp => \A f \in DOMAIN full : /\ Valida(f)' => Valida(f)
                                                  /\ FimDaCadeia(f)' = FimDaCadeia(f)
  PROVE  InvCopia'
<1>1. TiposCopia'
  BY DEF InvCopia, TiposCopia
<1>2. UmDeCadaVez'
  BY DEF InvCopia, UmDeCadaVez
<1>3. DOMAIN full' = DOMAIN full
  BY DEF InvCopia, TiposCopia
<1>4. CASE trava = NuloCp
  <2>1. \A q \in ProcCp : passo'[q].em = "parada"
    BY <1>4, TodosParados, ParadaTipo
  <2>2. (\A q \in ProcCp : Captura(passo[q]))'
    BY <2>1 DEF Captura, Copiando
  <2>3. Boas(passo[Tarefa])'
    BY <2>1, ConstantesCopia DEF Boas
  <2> QED
    BY <1>1, <1>2, <2>2, <2>3 DEF InvCopia
<1>5. CASE trava # NuloCp
  <2>1. (\A q \in ProcCp : Captura(passo[q]))'
    <3>1. SUFFICES ASSUME NEW q \in ProcCp PROVE Captura(passo[q])'
      OBVIOUS
    <3>2. Captura(passo[q]) /\ passo'[q] = passo[q]
      BY DEF InvCopia
    <3> QED
      BY <1>3, <1>5, <3>2 DEF Captura, Copiando
  <2>2. Boas(passo[Tarefa])'
    BY <1>3, <1>5 DEF InvCopia, Boas
  <2> QED
    BY <1>1, <1>2, <2>1, <2>2 DEF InvCopia
<1> QED
  BY <1>4, <1>5

LEMMA PassoBinlog ==
  ASSUME InvCopia, GravarBinlog \/ ExpirarBinlog
  PROVE  InvCopia'
<1>1. /\ UNCHANGED <<full, trechos, cabeca, controle, trava, passo>>
      /\ binlog'.linha = binlog.linha /\ binlog'.fim >= binlog.fim /\ binlog'.inicio >= binlog.inicio
      /\ binlog' \in [linha : Nat, inicio : Nat, fim : Nat]
  <2>1. binlog \in [linha : Nat, inicio : Nat, fim : Nat]
    BY DEF InvCopia, TiposCopia
  <2> QED
    BY <2>1 DEF GravarBinlog, ExpirarBinlog, Disco
<1>2. binlog \in [linha : Nat, inicio : Nat, fim : Nat]
  BY DEF InvCopia, TiposCopia
<1>3. \A f : FimDaCadeia(f)' = FimDaCadeia(f)
  BY <1>1 DEF FimDaCadeia
<1>4. \A f \in DOMAIN full : FimDaCadeia(f) \in Nat /\ ChegaAoBinlog(f)
  BY FimTipo DEF InvCopia, Discos
<1>5. Discos'
  BY <1>1, <1>2, <1>3, <1>4 DEF InvCopia, Discos, ChegaAoBinlog
<1>6. CadeiaContinua'
  BY <1>1 DEF InvCopia, CadeiaContinua
<1>7. \A f \in DOMAIN full : Valida(f)' => Valida(f)
  <2>1. \A f : CadeiaLida(f)' = CadeiaLida(f)
    BY <1>1 DEF CadeiaLida
  <2>2. SUFFICES ASSUME NEW f \in DOMAIN full, Valida(f)' PROVE Valida(f)
    OBVIOUS
  <2>3. /\ CadeiaLida(f) /\ binlog.linha = full[f].linha /\ binlog'.inicio <= FimDaCadeia(f)
    BY <1>1, <1>3, <2>1, <2>2 DEF Valida, FonteConfere, JanelaConfere
  <2>4. FimDaCadeia(f) \in Nat /\ FimDaCadeia(f) <= binlog.fim
    BY <1>4, <2>3 DEF ChegaAoBinlog
  <2>5. binlog.inicio <= FimDaCadeia(f)
    BY <1>1, <1>2, <2>3, <2>4
  <2> QED
    BY <2>3, <2>4, <2>5 DEF Valida, FonteConfere, JanelaConfere
<1>8. full' \in Seq(LinhaFull) /\ Len(full') = Len(full) /\ trechos' \in [NomeFull -> Seq(TrechoNat)]
  BY <1>1 DEF InvCopia, TiposCopia
<1> QED
  BY <1>1, <1>3, <1>5, <1>6, <1>7, <1>8, SemProcesso

LEMMA PassoRecriar ==
  ASSUME InvCopia, Recriar
  PROVE  InvCopia'
<1>1. /\ UNCHANGED <<full, trechos, cabeca, controle, trava, passo>>
      /\ binlog' = [linha |-> binlog.linha + 1, inicio |-> 0, fim |-> 0]
  BY DEF Recriar, Disco
<1>2. binlog.linha \in Nat /\ \A f \in DOMAIN full : full[f].linha \in Nat
  BY FullsTipo DEF InvCopia, TiposCopia, LinhaFull
<1>3. binlog' \in [linha : Nat, inicio : Nat, fim : Nat] /\ binlog'.linha = binlog.linha + 1
  BY <1>1, <1>2
<1>4. Discos'
  BY <1>1, <1>2, <1>3 DEF InvCopia, Discos, ChegaAoBinlog
<1>5. CadeiaContinua'
  BY <1>1 DEF InvCopia, CadeiaContinua
<1>6. full' \in Seq(LinhaFull) /\ Len(full') = Len(full) /\ trechos' \in [NomeFull -> Seq(TrechoNat)]
  BY <1>1 DEF InvCopia, TiposCopia
<1>7. \A f \in DOMAIN full : ~Valida(f)' /\ FimDaCadeia(f)' = FimDaCadeia(f)
  BY <1>1, <1>2, <1>3 DEF InvCopia, Discos, ChegaAoBinlog, Valida, FonteConfere, FimDaCadeia
<1> QED
  BY <1>1, <1>3, <1>4, <1>5, <1>6, <1>7, SemProcesso

LEMMA PassoDanificar ==
  ASSUME InvCopia, NEW f \in DOMAIN full, Danificar(f)
  PROVE  InvCopia'
<1>1. PICK l : l = [full[f] EXCEPT !.integro = FALSE]
  OBVIOUS
<1>2. full' = [full EXCEPT ![f] = l] /\ UNCHANGED <<trechos, cabeca, controle, trava, passo, binlog>>
  BY <1>1 DEF Danificar
<1>3. full \in Seq(LinhaFull) /\ full[f] \in LinhaFull
  BY FullsTipo DEF InvCopia, TiposCopia
<1>4. l \in LinhaFull /\ l.linha = full[f].linha /\ l.ponto = full[f].ponto
  BY <1>1, <1>3 DEF LinhaFull
<1>5. ~l.integro
  BY <1>1, <1>3 DEF LinhaFull
<1>6. /\ full' \in Seq(LinhaFull) /\ Len(full') = Len(full) /\ DOMAIN full' = DOMAIN full
      /\ \A g \in DOMAIN full : full'[g] = IF g = f THEN l ELSE full[g]
  BY <1>2, <1>3, <1>4
<1>7. \A g \in DOMAIN full : /\ full'[g].linha = full[g].linha /\ full'[g].ponto = full[g].ponto
                             /\ FimDaCadeia(g)' = FimDaCadeia(g)
  BY <1>2, <1>4, <1>6 DEF FimDaCadeia
<1>8. Discos'
  BY <1>2, <1>6, <1>7 DEF InvCopia, Discos, ChegaAoBinlog
<1>9. CadeiaContinua'
  BY <1>2, <1>6, <1>7 DEF InvCopia, CadeiaContinua
<1>10. \A g \in DOMAIN full : Valida(g)' => Valida(g)
  <2>1. SUFFICES ASSUME NEW g \in DOMAIN full, Valida(g)' PROVE Valida(g)
    OBVIOUS
  <2>2. g # f
    BY <1>5, <1>6, <2>1 DEF Valida, CadeiaLida
  <2>3. full'[g] = full[g]
    BY <1>6, <2>2
  <2> QED
    BY <1>2, <1>7, <2>1, <2>3 DEF Valida, CadeiaLida, FonteConfere, JanelaConfere
<1>11. binlog' \in [linha : Nat, inicio : Nat, fim : Nat] /\ trechos' \in [NomeFull -> Seq(TrechoNat)]
  BY <1>2 DEF InvCopia, TiposCopia
<1> QED
  BY <1>2, <1>6, <1>7, <1>8, <1>9, <1>10, <1>11, SemProcesso

\* what is left of a chain that lost its newest segment is a chain that ends
\* earlier
LEMMA PassoPerder ==
  ASSUME InvCopia, NEW f \in DOMAIN full, Perder(f)
  PROVE  InvCopia'
<1>1. PICK t : t = trechos[f]
  OBVIOUS
<1>2. PICK u : u = Front(t)
  OBVIOUS
<1>3. /\ trava = NuloCp /\ t # <<>> /\ trechos' = [trechos EXCEPT ![f] = u]
      /\ UNCHANGED <<full, cabeca, controle, trava, passo, binlog>>
  BY <1>1, <1>2 DEF Perder
<1>4. f \in NomeFull /\ t \in Seq(TrechoNat) /\ full[f] \in LinhaFull
  BY <1>1, FullsTipo DEF InvCopia
<1>5. Len(t) \in Nat /\ Len(t) >= 1 /\ DOMAIN t = 1..Len(t)
  BY <1>3, <1>4
<1>6. /\ u \in Seq(TrechoNat) /\ Len(u) = Len(t) - 1 /\ DOMAIN u = 1..(Len(t) - 1)
      /\ \A i \in 1..(Len(t) - 1) : u[i] = t[i]
  BY <1>2, <1>4, <1>5 DEF Front
<1>7. /\ trechos' \in [NomeFull -> Seq(TrechoNat)]
      /\ \A g \in NomeFull : trechos'[g] = IF g = f THEN u ELSE trechos[g]
  BY <1>3, <1>4, <1>6 DEF InvCopia, TiposCopia
<1>8. \A i \in DOMAIN t : /\ t[i].linha = full[f].linha /\ t[i].ini < t[i].fim
                          /\ t[i].ini = IF i = 1 THEN full[f].ponto ELSE t[i - 1].fim
  BY <1>1 DEF InvCopia, CadeiaContinua
<1>9. FimDaCadeia(f)' \in Nat /\ FimDaCadeia(f)' <= FimDaCadeia(f)
  <2>1. FimDaCadeia(f) = t[Len(t)].fim /\ t[Len(t)] \in TrechoNat
    BY <1>1, <1>3, <1>4, <1>5 DEF FimDaCadeia, Last
  <2>2. t[Len(t)].ini \in Nat /\ t[Len(t)].fim \in Nat /\ t[Len(t)].ini < t[Len(t)].fim
    BY <1>5, <1>8, <2>1 DEF TrechoNat
  <2>3. FimDaCadeia(f)' = t[Len(t)].ini
    <3>1. FimDaCadeia(f)' = IF u = <<>> THEN full[f].ponto ELSE u[Len(u)].fim
      BY <1>3, <1>4, <1>7 DEF FimDaCadeia, Last
    <3>2. CASE Len(t) = 1
      <4>1. u = <<>>
        BY <1>6, <3>2
      <4> QED
        BY <1>5, <1>8, <3>1, <3>2, <4>1
    <3>3. CASE Len(t) # 1
      <4>1. u # <<>> /\ u[Len(u)] = t[Len(t) - 1]
        BY <1>5, <1>6, <3>3
      <4> QED
        BY <1>5, <1>8, <3>1, <3>3, <4>1
    <3> QED
      BY <3>2, <3>3
  <2> QED
    BY <2>1, <2>2, <2>3
<1>10. Discos'
  <2>1. \A g \in DOMAIN full : ChegaAoBinlog(g)
    BY DEF InvCopia, Discos
  <2>2. ChegaAoBinlog(f)'
    <3>1. FimDaCadeia(f) \in Nat /\ binlog.fim \in Nat
      BY FimTipo DEF InvCopia, TiposCopia
    <3> QED
      BY <1>3, <1>9, <2>1, <3>1 DEF ChegaAoBinlog
  <2>3. \A g \in DOMAIN full : g # f => ChegaAoBinlog(g)'
    <3>1. \A g \in DOMAIN full : g # f => trechos'[g] = trechos[g]
      BY <1>7, FullsTipo DEF InvCopia
    <3> QED
      BY <1>3, <2>1, <3>1 DEF ChegaAoBinlog, FimDaCadeia
  <2>4. \A g \in NomeFull \ DOMAIN full : trechos'[g] = <<>>
    BY <1>7 DEF InvCopia, Discos
  <2> QED
    BY <1>3, <2>2, <2>3, <2>4 DEF Discos
<1>11. CadeiaContinua'
  <2>1. ASSUME NEW g \in DOMAIN full, NEW i \in DOMAIN trechos'[g]
        PROVE  /\ trechos'[g][i].linha = full[g].linha /\ trechos'[g][i].ini < trechos'[g][i].fim
               /\ trechos'[g][i].ini = IF i = 1 THEN full[g].ponto ELSE trechos'[g][i - 1].fim
    <3>1. CASE g = f
      <4>1. trechos'[g] = u /\ i \in 1..(Len(t) - 1)
        BY <1>4, <1>6, <1>7, <2>1, <3>1
      <4>2. u[i] = t[i] /\ (i # 1 => u[i - 1] = t[i - 1]) /\ i \in DOMAIN t
        BY <1>5, <1>6, <4>1
      <4> QED
        BY <1>8, <3>1, <4>1, <4>2
    <3>2. CASE g # f
      <4>1. trechos'[g] = trechos[g]
        BY <1>7, <3>2, FullsTipo DEF InvCopia
      <4> QED
        BY <2>1, <4>1 DEF InvCopia, CadeiaContinua
    <3> QED
      BY <3>1, <3>2
  <2> QED
    BY <1>3, <2>1 DEF CadeiaContinua
<1>12. /\ binlog' \in [linha : Nat, inicio : Nat, fim : Nat]
       /\ full' \in Seq(LinhaFull) /\ Len(full') = Len(full)
  BY <1>3 DEF InvCopia, TiposCopia
<1> QED
  BY <1>3, <1>7, <1>10, <1>11, <1>12, SemProcesso

LEMMA PassoCopia == InvCopia /\ [NextCopia]_varsCopia => InvCopia'
<1> SUFFICES ASSUME InvCopia, [NextCopia]_varsCopia PROVE InvCopia'
  OBVIOUS
<1>1. CASE UNCHANGED varsCopia
  <2>1. /\ UNCHANGED <<controle, trava, passo, full, trechos, binlog, cabeca>>
        /\ \A f : Valida(f)' = Valida(f)
    BY <1>1 DEF varsCopia, Valida, CadeiaLida, FonteConfere, JanelaConfere, FimDaCadeia
  <2>2. Discos' /\ CadeiaContinua' /\ \A f : FimDaCadeia(f)' = FimDaCadeia(f)
    BY <2>1, MesmaCadeia
  <2>3. /\ binlog' \in [linha : Nat, inicio : Nat, fim : Nat]
        /\ full' \in Seq(LinhaFull) /\ Len(full') = Len(full)
        /\ trechos' \in [NomeFull -> Seq(TrechoNat)]
    BY <2>1 DEF InvCopia, TiposCopia
  <2> QED
    BY <2>1, <2>2, <2>3, SemProcesso
<1>2. CASE NextCopia
  <2>1. ASSUME NEW r \in BOOLEAN, Iniciar(r) PROVE InvCopia'
    BY <2>1, PassoIniciar
  <2>2. CASE (\E s \in BOOLEAN : Falhar(s)) \/ CadeiaRecusada \/ NaoRenovar \/ AdotarNovo
    BY <2>2, PassoControle
  <2>3. CASE EscolherCadeia
    BY <2>3, PassoEscolher
  <2>4. CASE Renovar
    BY <2>4, PassoRenovar
  <2>5. ASSUME NEW p \in ProcCp, FullManual(p) \/ \E f \in NomeFull : IncrementalManual(p, f)
        PROVE  InvCopia'
    BY <2>5, PassoManual
  <2>6. ASSUME NEW p \in ProcCp, Reparar(p) PROVE InvCopia'
    BY <2>6, PassoReparar
  <2>7. ASSUME NEW p \in ProcCp, Capturar(p) \/ CopiarAteFim(p) \/ \E m \in BOOLEAN : ConferirCopias(p, m)
        PROVE  InvCopia'
    BY <2>7, PassoCapturar
  <2>8. ASSUME NEW p \in ProcCp, Publicar(p) PROVE InvCopia'
    BY <2>8, PassoPublicar
  <2>17. ASSUME NEW p \in ProcCp, LerJanela(p) \/ ConferirFonte(p) PROVE InvCopia'
    BY <2>17, PassoLerJanela, PassoConferirFonte
  <2>9. ASSUME NEW p \in ProcCp, GravarCabeca(p) PROVE InvCopia'
    BY <2>9, PassoCabeca
  <2>10. ASSUME NEW p \in ProcCp, Dump(p) PROVE InvCopia'
    BY <2>10, PassoDump
  <2>11. ASSUME NEW p \in ProcCp, PublicarFull(p) PROVE InvCopia'
    BY <2>11, PassoPublicarFull
  <2>12. ASSUME NEW p \in ProcCp, Interromper(p) PROVE InvCopia'
    BY <2>12, PassoInterromper
  <2>13. CASE GravarBinlog \/ ExpirarBinlog
    BY <2>13, PassoBinlog
  <2>14. CASE Recriar
    BY <2>14, PassoRecriar
  <2>15. ASSUME NEW f \in DOMAIN full, Danificar(f) PROVE InvCopia'
    BY <2>15, PassoDanificar
  <2>16. ASSUME NEW f \in DOMAIN full, Perder(f) PROVE InvCopia'
    BY <2>16, PassoPerder
  <2> QED
    BY <1>2, <2>1, <2>2, <2>3, <2>4, <2>5, <2>6, <2>7, <2>8, <2>9, <2>10, <2>11, <2>12, <2>13,
       <2>14, <2>15, <2>16, <2>17 DEF NextCopia
<1> QED
  BY <1>1, <1>2

\* the active FULL changes only when the task chooses or adopts the newest one
LEMMA TrocaAVista ==
  ASSUME InvCopia, [NextCopia]_varsCopia, controle'.ativo # controle.ativo, controle.ativo # 0
  PROVE  controle.ativo \in passo[Tarefa].boas
<1>1. /\ Boas(passo[Tarefa]) /\ controle \in [ativo : Nat, suporte : BOOLEAN]
      /\ controle.ativo <= Len(full) /\ DOMAIN full = 1..Len(full) /\ Len(full) \in Nat
  BY LidoPor, ConstantesCopia
<1>2. controle.ativo \in DOMAIN full
  BY <1>1
<1>3. CASE EscolherCadeia
  <2>1. passo[Tarefa].em = "cadeia" /\ Valida(controle.ativo)
    BY <1>3 DEF EscolherCadeia, AtivaOk, EmUsoCp
  <2> QED
    BY <1>1, <1>2, <2>1 DEF Boas
<1>4. CASE AdotarNovo
  BY <1>1, <1>4 DEF AdotarNovo, Boas
<1>5. (\E r \in BOOLEAN : Iniciar(r)) => controle'.ativo = controle.ativo
  BY <1>1 DEF Iniciar
<1>6. (\E s \in BOOLEAN : Falhar(s)) \/ CadeiaRecusada \/ NaoRenovar => controle'.ativo = controle.ativo
  BY DEF Falhar, CadeiaRecusada, NaoRenovar, Encerrar
<1>7. Renovar => controle'.ativo = controle.ativo
  BY DEF Renovar, Encerrar
<1>8. \A p \in ProcCp : FullManual(p) \/ (\E f \in NomeFull : IncrementalManual(p, f)) \/ Reparar(p)
        \/ LerJanela(p) \/ ConferirFonte(p) \/ Capturar(p) \/ CopiarAteFim(p)
        \/ (\E m \in BOOLEAN : ConferirCopias(p, m)) \/ Publicar(p) \/ GravarCabeca(p) \/ Dump(p)
        \/ PublicarFull(p) \/ Interromper(p) => UNCHANGED controle
  BY DEF FullManual, IncrementalManual, Reparar, LerJanela, ConferirFonte, Capturar, CopiarAteFim,
         ConferirCopias, Publicar, GravarCabeca, Dump, PublicarFull, Interromper
<1>9. GravarBinlog \/ ExpirarBinlog \/ Recriar \/ (\E f \in DOMAIN full : Danificar(f) \/ Perder(f))
        \/ UNCHANGED varsCopia => UNCHANGED controle
  BY DEF GravarBinlog, ExpirarBinlog, Recriar, Danificar, Perder, varsCopia
<1> QED
  BY <1>3, <1>4, <1>5, <1>6, <1>7, <1>8, <1>9 DEF NextCopia

\* The segments on disk of every FULL restore it up to the last one, whatever the
\* operator runs beside the task and wherever a process dies: the lock is held
\* from the reading of the chain to its last write, so that the point a capture
\* starts from is still the end of the chain when it is published.
\* Code: mysql-backup.ps1:555-592 and 670-733.
THEOREM CadeiaContinuaSempre == SpecCopia => []CadeiaContinua
<1>1. InvCopia => CadeiaContinua
  BY DEF InvCopia
<1> QED
  BY <1>1, InicioCopia, PassoCopia, PTL DEF SpecCopia

\* And a change of the active FULL is never one that hides that the chain of the
\* old one could no longer be continued when the run of the control began.
\* Code: mysql-backup-control.ps1:101-113 and 128-143.
THEOREM CadeiaGuardadaSempre == SpecCopia => CadeiaGuardada
<1>1. InvCopia => CadeiaContinua
  BY DEF InvCopia
<1>2. InvCopia /\ [NextCopia]_varsCopia
        => [controle'.ativo # controle.ativo /\ controle.ativo # 0
              => controle.ativo \in passo[Tarefa].boas]_varsCopia
  BY TrocaAVista
<1>3. InvCopia /\ [NextCopia]_varsCopia => [CadeiaContinua']_varsCopia
  BY PassoCopia DEF InvCopia
<1> QED
  BY <1>1, <1>2, <1>3, InicioCopia, PassoCopia, PTL DEF SpecCopia, CadeiaGuardada, SemTrocaEscondida

-----------------------------------------------------------------------------
(* Instalacao: what each step of a script may count on, and the recovery that *)
(* keeps the hub out                                                          *)

Contas == {"root", "hub", "copia"}
SemContas == \A c \in Contas : conta[c] = Nada

PassosTodos == PassosInstala \cup PassosOutros \cup {"fora"}
TipoScript == [passo : PassosTodos, rec : BOOLEAN, nova : BOOLEAN, raiz : BOOLEAN]

TipoServicos ==
  [mysql : {"nenhum", "parado", "rodando"}, hub : {"nenhum", "parado", "rodando"},
   inicio : {"auto", "desativado"}]

TiposInstalacao ==
  /\ arq \in [env : Senha \cup {Nada}, admin : Senha \cup {Nada, SemSegredo},
              copia : Senha \cup {Nada, SemSegredo}, ini : BOOLEAN, marcador : BOOLEAN]
  /\ sistema \in {"nenhum", "parcial", "pronto"}
  /\ conta \in [Contas -> Senha \cup {Nada}]
  /\ tabelas \in BOOLEAN /\ restaurado \in BOOLEAN
  /\ svc \in TipoServicos
  /\ script \in TipoScript

\* the steps of an installation, from the last
PassosProntos == {"iniciarHub", "conferir", "pronta"}
PassosMigrados == {"preparar", "registrarHub"} \cup PassosProntos
PassosDoHub == {"contaCopia", "copiaConta", "migrar"} \cup PassosMigrados
PassosExaminados ==
  {"env", "ini", "inicializar", "adminInicial", "registrarMySql", "iniciarMySql", "raiz",
   "adminRaiz", "raizSenha", "verificar", "banco"} \cup PassosDoHub

\* a service that runs has its process, and a server that runs its directory
ServicosReais ==
  /\ svc.hub = "rodando" <=> hubProc # "fora"
  /\ svc.mysql = "rodando" => sistema = "pronto"
  /\ sistema # "pronto" => SemContas /\ ~restaurado

SegredosConferem ==
  /\ arq.ini => arq.env \in Senha
  /\ sistema = "pronto" =>
       /\ arq.admin \in Senha /\ conta["root"] # Nada => arq.admin = conta["root"]
       /\ arq.env \in Senha /\ conta["hub"] # Nada => arq.env = conta["hub"]
       /\ arq.copia \in Senha /\ conta["copia"] # Nada => arq.copia = conta["copia"]

Instalando(m) ==
  /\ m.passo \in PassosExaminados \cup {"preflight"} /\ ~m.rec => ~arq.marcador
  /\ m.passo \in PassosExaminados =>
       /\ m.rec \/ ~restaurado
       /\ arq.ini \/ (m.nova /\ m.passo \in {"env", "ini"})
  /\ m.passo \in {"assertParado", "marcar", "desativar"} => m.rec
  /\ m.passo = "ini" => arq.env \in Senha
  /\ m.passo \in {"env", "ini", "inicializar"} /\ m.nova => sistema = "nenhum"
  /\ m.passo \in {"adminInicial", "adminRaiz"} => conta["root"] = Nada
  /\ m.passo \in PassosExaminados \ ({"migrar"} \cup PassosMigrados) /\ m.nova => conta["copia"] = Nada
  /\ m.passo \in {"contaCopia", "copiaConta"} => m.nova
  /\ m.passo = "copiaConta" => arq.copia \in Senha
  /\ m.passo \in PassosDoHub =>
       /\ ~m.rec /\ sistema = "pronto" /\ arq.admin # Nada
       /\ conta["root"] = IF arq.admin = SemSegredo THEN Nada ELSE arq.admin
  /\ m.passo \in PassosMigrados => conta["hub"] = arq.env /\ tabelas
  /\ m.passo \in PassosProntos => svc.hub # "nenhum" /\ svc.inicio = "auto"

\* no process of the hub, and none that could start
HubFora == hubProc = "fora" /\ (svc.hub = "nenhum" \/ svc.inicio = "desativado")

Recuperando(m) ==
  /\ m.passo \in {"verParado", "verTipo", "verVazio", "importar"} => arq.marcador
  /\ m.passo = "verTipo" => hubProc = "fora" \/ (svc.hub # "nenhum" /\ svc.inicio = "auto")
  /\ m.passo \in {"verVazio", "importar"} => HubFora
  /\ m.passo = "importar" => sistema = "pronto"

RestauradoFora == restaurado => HubFora /\ (arq.marcador \/ ~arq.ini)

InvInstalacao ==
  /\ TiposInstalacao /\ ServicosReais /\ SegredosConferem /\ RestauradoFora
  /\ Instalando(script) /\ Recuperando(script)

-----------------------------------------------------------------------------
LEMMA ScriptParado ==
  Parado \in TipoScript /\ Parado.passo = "fora" /\ Parado.rec = FALSE /\ Parado.nova = FALSE
BY DEF Parado, TipoScript, PassosTodos

LEMMA CamposInstalacao ==
  ASSUME TiposInstalacao
  PROVE  /\ script.passo \in PassosTodos /\ script.rec \in BOOLEAN /\ script.nova \in BOOLEAN
         /\ arq.env \in Senha \cup {Nada} /\ arq.admin \in Senha \cup {Nada, SemSegredo}
         /\ arq.copia \in Senha \cup {Nada, SemSegredo}
         /\ arq.ini \in BOOLEAN /\ arq.marcador \in BOOLEAN
         /\ conta["root"] \in Senha \cup {Nada} /\ conta["hub"] \in Senha \cup {Nada}
         /\ conta["copia"] \in Senha \cup {Nada}
BY DEF TiposInstalacao, TipoScript, Contas

LEMMA Andar ==
  ASSUME TiposInstalacao, NEW p \in PassosTodos, Vai(p)
  PROVE  /\ script' \in TipoScript /\ script'.passo = p
         /\ script'.rec = script.rec /\ script'.nova = script.nova
BY DEF TiposInstalacao, TipoScript, Vai

\* a step that only moves the script
LEMMA SoOScript ==
  ASSUME InvInstalacao, UNCHANGED <<arq, sistema, conta, tabelas, restaurado, svc, hubProc>>,
         script' \in TipoScript, Instalando(script'), Recuperando(script')
  PROVE  InvInstalacao'
<1>1. TiposInstalacao'
  BY DEF InvInstalacao, TiposInstalacao
<1>2. ServicosReais' /\ SegredosConferem' /\ RestauradoFora'
  BY DEF InvInstalacao, ServicosReais, SegredosConferem, RestauradoFora, HubFora, SemContas
<1>3. Instalando(script)'
  BY DEF Instalando
<1>4. Recuperando(script)'
  BY DEF Recuperando, HubFora
<1> QED
  BY <1>1, <1>2, <1>3, <1>4 DEF InvInstalacao

\* a script that ended counts on nothing
LEMMA ScriptFora ==
  ASSUME NEW m \in TipoScript,
         \/ m.passo \in {"fora", "setupHub", "setupMySql", "instalar", "pararHub", "excluirHub",
                          "pararMySql", "excluirMySql", "purgar"}
         \/ m.passo \in {"assertParado", "marcar", "desativar"} /\ m.rec
  PROVE  /\ Instalando(m) /\ Recuperando(m) /\ Instalando(m)' /\ Recuperando(m)'
BY DEF Instalando, Recuperando, PassosExaminados, PassosDoHub, PassosMigrados, PassosProntos

LEMMA SoLanca ==
  ASSUME InvInstalacao, UNCHANGED <<arq, sistema, conta, tabelas, restaurado, svc, hubProc>>, Lanca
  PROVE  InvInstalacao'
BY ScriptParado, ScriptFora, SoOScript DEF Lanca

\* a step that only moves the script, to step p
LEMMA SoAndar ==
  ASSUME InvInstalacao, UNCHANGED <<arq, sistema, conta, tabelas, restaurado, svc, hubProc>>,
         NEW p \in PassosTodos, Vai(p),
         \A m \in TipoScript : m.passo = p /\ m.rec = script.rec /\ m.nova = script.nova
                                 => Instalando(m) /\ Recuperando(m)
  PROVE  InvInstalacao'
<1>1. script' \in TipoScript /\ script'.passo = p /\ script'.rec = script.rec /\ script'.nova = script.nova
  BY Andar DEF InvInstalacao
<1> QED
  BY <1>1, SoOScript

LEMMA PassoInstalar ==
  ASSUME InvInstalacao, NEW r \in BOOLEAN, Instalar(r)
  PROVE  InvInstalacao'
<1>1. UNCHANGED <<arq, sistema, conta, tabelas, restaurado, svc, hubProc>>
  BY DEF Instalar
<1>2. CASE r
  <2>1. PICK m : m = [Parado EXCEPT !.passo = IF r THEN "assertParado" ELSE "preflight", !.rec = r]
    OBVIOUS
  <2>2. m \in TipoScript /\ m.passo = "assertParado" /\ m.rec
    BY <1>2, <2>1, ScriptParado DEF TipoScript, PassosTodos, PassosInstala
  <2> QED
    BY <1>1, <1>2, <2>1, <2>2, ScriptFora, SoOScript DEF Instalar
<1>3. CASE ~r /\ ~arq.marcador
  <2>1. PICK m : m = [Parado EXCEPT !.passo = IF r THEN "assertParado" ELSE "preflight", !.rec = r]
    OBVIOUS
  <2>2. m \in TipoScript /\ m.passo = "preflight"
    BY <1>3, <2>1, ScriptParado DEF TipoScript, PassosTodos, PassosInstala
  <2>3. Instalando(m) /\ Recuperando(m)
    BY <1>3, <2>2 DEF Instalando, Recuperando, PassosExaminados, PassosDoHub, PassosMigrados, PassosProntos
  <2> QED
    BY <1>1, <1>3, <2>1, <2>2, <2>3, SoOScript DEF Instalar
<1>4. CASE ~r /\ arq.marcador
  BY <1>1, <1>4, SoLanca DEF Instalar
<1> QED
  BY <1>2, <1>3, <1>4

LEMMA PassoPreflight ==
  ASSUME InvInstalacao, Preflight
  PROVE  InvInstalacao'
<1>1. UNCHANGED <<arq, sistema, conta, tabelas, restaurado, svc, hubProc>> /\ script.passo = "preflight"
  BY DEF Preflight, No
<1>2. CASE InstalacaoNova \/ (arq.ini /\ sistema # "nenhum")
  <2>1. PICK m : m = [script EXCEPT !.passo = "env", !.nova = InstalacaoNova]
    OBVIOUS
  <2>2. InstalacaoNova \in BOOLEAN
    BY DEF InstalacaoNova
  <2>3. m \in TipoScript /\ m.passo = "env" /\ m.rec = script.rec
    BY <2>1, <2>2 DEF InvInstalacao, TiposInstalacao, TipoScript, PassosTodos, PassosInstala
  <2>4. m.nova = InstalacaoNova
    BY <2>1 DEF InvInstalacao, TiposInstalacao, TipoScript
  <2>5. CASE InstalacaoNova
    <3>1. sistema = "nenhum" /\ conta["root"] = Nada /\ conta["copia"] = Nada /\ ~restaurado
      BY <2>5 DEF InstalacaoNova, InvInstalacao, ServicosReais, SemContas, Contas
    <3>2. ~m.rec => ~arq.marcador
      BY <1>1, <2>3 DEF InvInstalacao, Instalando
    <3>3. m.nova
      BY <2>4, <2>5
    <3> QED
      BY <1>1, <1>2, <2>1, <2>3, <3>1, <3>2, <3>3, SoOScript
      DEF Preflight, Instalando, Recuperando, PassosExaminados, PassosDoHub, PassosMigrados, PassosProntos
  <2>6. CASE ~InstalacaoNova
    <3>1. ~m.nova
      BY <2>4, <2>6
    <3>2. ~m.rec => ~arq.marcador
      BY <1>1, <2>3 DEF InvInstalacao, Instalando
    <3>3. arq.ini
      BY <1>2, <2>6
    <3>4. restaurado => arq.marcador
      BY <3>3 DEF InvInstalacao, RestauradoFora
    <3> QED
      BY <1>1, <1>2, <2>1, <2>3, <3>1, <3>2, <3>3, <3>4, SoOScript
      DEF Preflight, Instalando, Recuperando, PassosExaminados, PassosDoHub, PassosMigrados, PassosProntos
  <2> QED
    BY <2>5, <2>6
<1>3. CASE ~(InstalacaoNova \/ (arq.ini /\ sistema # "nenhum"))
  BY <1>1, <1>3, SoLanca DEF Preflight
<1> QED
  BY <1>2, <1>3

LEMMA PassoEscolherRaiz ==
  ASSUME InvInstalacao, EscolherRaiz
  PROVE  InvInstalacao'
<1>1. UNCHANGED <<arq, sistema, conta, tabelas, restaurado, svc, hubProc>> /\ script.passo = "raiz"
  BY DEF EscolherRaiz, No
<1>2. Instalando(script) /\ Recuperando(script) /\ TiposInstalacao
  BY DEF InvInstalacao
<1>3. ASSUME NEW p \in {"raizSenha", "verificar", "banco"}, Vai(p) PROVE InvInstalacao'
  <2>1. p \in PassosTodos
    BY DEF PassosTodos, PassosInstala
  <2>2. ASSUME NEW m \in TipoScript, m.passo = p, m.rec = script.rec, m.nova = script.nova
        PROVE  Instalando(m) /\ Recuperando(m)
    BY <1>1, <1>2, <1>3, <2>2
    DEF Instalando, Recuperando, PassosExaminados, PassosDoHub, PassosMigrados, PassosProntos
  <2> QED
    BY <1>1, <1>3, <2>1, <2>2, SoAndar
<1>4. CASE Vai("adminRaiz") /\ conta.root = Nada
  <2>1. "adminRaiz" \in PassosTodos
    BY DEF PassosTodos, PassosInstala
  <2>2. ASSUME NEW m \in TipoScript, m.passo = "adminRaiz", m.rec = script.rec, m.nova = script.nova
        PROVE  Instalando(m) /\ Recuperando(m)
    BY <1>1, <1>2, <1>4, <2>2
    DEF Instalando, Recuperando, PassosExaminados, PassosDoHub, PassosMigrados, PassosProntos
  <2> QED
    BY <1>1, <1>4, <2>1, <2>2, SoAndar
<1>5. CASE Lanca
  BY <1>1, <1>5, SoLanca
<1>6. \/ \E p \in {"raizSenha", "verificar", "banco"} : Vai(p)
      \/ Vai("adminRaiz") /\ conta.root = Nada
      \/ Lanca
  BY DEF EscolherRaiz, DepoisDaRaiz
<1> QED
  BY <1>3, <1>4, <1>5, <1>6

LEMMA PassoExige ==
  ASSUME InvInstalacao, VerificarDestino \/ PrepararInstalacao \/ Conferir \/ VerificarRecuperacao \/ Recuperar
  PROVE  InvInstalacao'
<1>1. UNCHANGED <<arq, sistema, conta, tabelas, restaurado, svc, hubProc>>
  BY DEF VerificarDestino, PrepararInstalacao, Conferir, VerificarRecuperacao, Recuperar
<1>2. Instalando(script) /\ Recuperando(script) /\ TiposInstalacao /\ ServicosReais
  BY DEF InvInstalacao
<1>3. \/ Lanca
      \/ script.passo = "verificar" /\ Vai("banco")
      \/ script.passo = "preparar" /\ Vai("registrarHub")
      \/ script.passo = "conferir" /\ Vai("pronta")
      \/ script.passo = "fora" /\ arq.marcador /\ Vai("verParado")
      \/ script.passo = "verParado" /\ svc.hub # "rodando" /\ Vai("verTipo")
      \/ script.passo = "verTipo" /\ (svc.hub = "nenhum" \/ svc.inicio = "desativado") /\ Vai("verVazio")
      \/ script.passo = "verVazio" /\ svc.mysql = "rodando" /\ Vai("importar")
  BY DEF VerificarDestino, PrepararInstalacao, Conferir, VerificarRecuperacao, Recuperar, No, Exige,
         HubParado, MySql
<1>4. CASE Lanca
  BY <1>1, <1>4, SoLanca
<1>5. ASSUME NEW p \in PassosTodos, Vai(p),
             \/ script.passo = "verificar" /\ p = "banco"
             \/ script.passo = "preparar" /\ p = "registrarHub"
             \/ script.passo = "conferir" /\ p = "pronta"
      PROVE  InvInstalacao'
  <2>1. ASSUME NEW m \in TipoScript, m.passo = p, m.rec = script.rec, m.nova = script.nova
        PROVE  Instalando(m) /\ Recuperando(m)
    BY <1>2, <1>5, <2>1
    DEF Instalando, Recuperando, PassosExaminados, PassosDoHub, PassosMigrados, PassosProntos
  <2> QED
    BY <1>1, <1>5, <2>1, SoAndar
<1>6. ASSUME NEW p \in PassosTodos, Vai(p),
             \/ p = "verParado" /\ arq.marcador
             \/ script.passo = "verParado" /\ svc.hub # "rodando" /\ p = "verTipo"
             \/ /\ script.passo = "verTipo" /\ p = "verVazio"
                /\ svc.hub = "nenhum" \/ svc.inicio = "desativado"
             \/ script.passo = "verVazio" /\ svc.mysql = "rodando" /\ p = "importar"
      PROVE  InvInstalacao'
  <2>1. ASSUME NEW m \in TipoScript, m.passo = p, m.rec = script.rec, m.nova = script.nova
        PROVE  Instalando(m) /\ Recuperando(m)
    <3>1. p \in {"verParado", "verTipo", "verVazio", "importar"}
      BY <1>6
    <3>2. Instalando(m)
      BY <2>1, <3>1 DEF Instalando, PassosExaminados, PassosDoHub, PassosMigrados, PassosProntos
    <3>3. Recuperando(m)
      BY <1>2, <1>6, <2>1 DEF Recuperando, HubFora, ServicosReais
    <3> QED
      BY <3>2, <3>3
  <2> QED
    BY <1>1, <1>6, <2>1, SoAndar
<1>7. {"banco", "registrarHub", "pronta", "verParado", "verTipo", "verVazio", "importar"} \subseteq PassosTodos
  BY DEF PassosTodos, PassosInstala, PassosOutros
<1> QED
  BY <1>3, <1>4, <1>5, <1>6, <1>7

-----------------------------------------------------------------------------
(* Instalacao: the services *)

LEMMA SoServicos ==
  ASSUME InvInstalacao, UNCHANGED <<arq, sistema, conta, tabelas, restaurado>>,
         svc' \in TipoServicos, script' \in TipoScript,
         svc'.hub = "rodando" <=> hubProc' # "fora",
         svc'.mysql = "rodando" => sistema = "pronto",
         restaurado /\ HubFora => HubFora',
         Instalando(script)', Recuperando(script)'
  PROVE  InvInstalacao'
<1>1. TiposInstalacao'
  BY DEF InvInstalacao, TiposInstalacao
<1>2. ServicosReais' /\ SegredosConferem' /\ RestauradoFora'
  BY DEF InvInstalacao, ServicosReais, SegredosConferem, RestauradoFora, SemContas
<1> QED
  BY <1>1, <1>2 DEF InvInstalacao

\* the script stays where it is
LEMMA MesmoScript ==
  ASSUME InvInstalacao, UNCHANGED <<arq, sistema, conta, tabelas, restaurado, script>>,
         svc.hub # "nenhum" => svc'.hub # "nenhum", svc'.inicio = svc.inicio
  PROVE  Instalando(script)'
BY DEF InvInstalacao, Instalando

LEMMA PassoServico ==
  ASSUME InvInstalacao, IniciarServico \/ Guardar \/ Operar \/ PararServico
  PROVE  InvInstalacao'
<1>1. svc \in TipoServicos /\ script \in TipoScript /\ ServicosReais /\ Recuperando(script)
      /\ UNCHANGED <<arq, sistema, conta, tabelas, restaurado, script>>
  BY DEF InvInstalacao, TiposInstalacao, IniciarServico, Guardar, Operar, PararServico
<1>2. CASE IniciarServico
  <2>1. PICK s : s = [svc EXCEPT !.hub = "rodando", !.mysql = "rodando"]
    OBVIOUS
  <2>2. svc' = s /\ hubProc' = "inicio" /\ sistema = "pronto" /\ svc.hub = "parado" /\ svc.inicio = "auto"
    BY <1>2, <2>1 DEF IniciarServico
  <2>3. s \in TipoServicos /\ s.hub = "rodando" /\ s.inicio = "auto"
    BY <1>1, <2>1, <2>2 DEF TipoServicos
  <2>4. ~HubFora
    BY <2>2 DEF HubFora
  <2>5. Recuperando(script)'
    BY <1>1, <2>2, <2>3, <2>4 DEF Recuperando
  <2> QED
    BY <1>1, <2>2, <2>3, <2>4, <2>5, MesmoScript, SoServicos
<1>3. CASE Guardar /\ arq.marcador
  <2>1. PICK s : s = [svc EXCEPT !.hub = "parado"]
    OBVIOUS
  <2>2. svc' = s /\ hubProc' = "fora" /\ hubProc = "inicio"
    BY <1>3, <2>1 DEF Guardar
  <2>3. s \in TipoServicos /\ s.hub = "parado" /\ s.inicio = svc.inicio /\ s.mysql = svc.mysql
    BY <1>1, <2>1 DEF TipoServicos
  <2>4. ~HubFora
    BY <2>2 DEF HubFora
  <2>5. Recuperando(script)'
    BY <1>1, <2>2, <2>4 DEF Recuperando
  <2> QED
    BY <1>1, <2>2, <2>3, <2>4, <2>5, MesmoScript, SoServicos DEF ServicosReais
<1>4. CASE (Guardar /\ ~arq.marcador) \/ Operar
  <2>1. svc' = svc /\ hubProc # "fora" /\ hubProc' # "fora"
    BY <1>4 DEF Guardar, Operar
  <2>2. ~HubFora
    BY <2>1 DEF HubFora
  <2>3. Recuperando(script)'
    BY <1>1, <2>1, <2>2 DEF Recuperando
  <2> QED
    BY <1>1, <2>1, <2>2, <2>3, MesmoScript, SoServicos DEF ServicosReais
<1>5. CASE PararServico
  <2>1. CASE svc.hub = "rodando" /\ hubProc' = "fora" /\ svc' = [svc EXCEPT !.hub = "parado"]
    <3>1. PICK s : s = [svc EXCEPT !.hub = "parado"]
      OBVIOUS
    <3>2. s \in TipoServicos /\ s.hub = "parado" /\ s.inicio = svc.inicio /\ s.mysql = svc.mysql
      BY <1>1, <3>1 DEF TipoServicos
    <3>3. ~HubFora
      BY <1>1, <2>1 DEF HubFora, ServicosReais
    <3>4. Recuperando(script)'
      BY <1>1, <2>1, <3>3 DEF Recuperando
    <3> QED
      BY <1>1, <2>1, <3>1, <3>2, <3>3, <3>4, MesmoScript, SoServicos DEF ServicosReais
  <2>2. CASE svc' = [svc EXCEPT !.mysql = "parado"] /\ UNCHANGED hubProc
    <3>1. PICK s : s = [svc EXCEPT !.mysql = "parado"]
      OBVIOUS
    <3>2. s \in TipoServicos /\ s.hub = svc.hub /\ s.inicio = svc.inicio /\ s.mysql = "parado"
      BY <1>1, <3>1 DEF TipoServicos
    <3>3. HubFora' = HubFora
      BY <2>2, <3>1, <3>2 DEF HubFora
    <3>4. Recuperando(script)'
      BY <1>1, <2>2, <3>1, <3>2, <3>3 DEF Recuperando
    <3> QED
      BY <1>1, <2>2, <3>1, <3>2, <3>3, <3>4, MesmoScript, SoServicos DEF ServicosReais
  <2> QED
    BY <1>5, <2>1, <2>2 DEF PararServico
<1> QED
  BY <1>2, <1>3, <1>4, <1>5

\* the setup and the removal stop and delete services, and count on nothing
LEMMA PassoDosServicos ==
  ASSUME InvInstalacao, (\E r \in BOOLEAN : PrepararSetup(r)) \/ RemoverServicos
  PROVE  InvInstalacao'
<1>1. svc \in TipoServicos /\ script \in TipoScript /\ ServicosReais
      /\ UNCHANGED <<arq, sistema, conta, tabelas, restaurado>>
  BY DEF InvInstalacao, TiposInstalacao, PrepararSetup, RemoverServicos
<1>2. /\ script' \in TipoScript
      /\ script'.passo \in {"fora", "setupHub", "setupMySql", "instalar", "excluirHub", "pararMySql",
                            "excluirMySql"}
  <2>1. CASE script' = Parado
    BY <2>1, ScriptParado
  <2>2. CASE \E r \in BOOLEAN : script' = [Parado EXCEPT !.passo = "setupHub", !.rec = r]
    BY <2>2, ScriptParado DEF TipoScript, PassosTodos, PassosOutros
  <2>3. CASE \E p \in {"setupMySql", "instalar", "excluirHub", "pararMySql", "excluirMySql"} : Vai(p)
    <3>1. PICK p \in {"setupMySql", "instalar", "excluirHub", "pararMySql", "excluirMySql"} : Vai(p)
      BY <2>3
    <3>2. p \in PassosTodos
      BY DEF PassosTodos, PassosOutros
    <3> QED
      BY <3>1, <3>2, Andar DEF InvInstalacao
  <2> QED
    BY <2>1, <2>2, <2>3 DEF PrepararSetup, RemoverServicos, Lanca, Exige
<1>3. Instalando(script)' /\ Recuperando(script)'
  <2>1. PICK m \in TipoScript : m = script'
    BY <1>2
  <2>2. Instalando(m)' /\ Recuperando(m)'
    BY <1>2, <2>1, ScriptFora
  <2> QED
    BY <2>1, <2>2 DEF Instalando, Recuperando
<1>4. /\ svc' \in TipoServicos
      /\ svc'.hub = "rodando" <=> hubProc' # "fora"
      /\ svc'.mysql = "rodando" => svc.mysql = "rodando"
      /\ HubFora => HubFora'
  <2>1. CASE UNCHANGED <<svc, hubProc>>
    BY <1>1, <2>1 DEF HubFora, ServicosReais
  <2>2. CASE hubProc' = "fora" /\ svc' = IF svc.hub = "rodando" THEN [svc EXCEPT !.hub = "parado"] ELSE svc
    BY <1>1, <2>2 DEF HubFora, ServicosReais, TipoServicos
  <2>3. CASE UNCHANGED hubProc /\ svc' = IF svc.mysql = "rodando" THEN [svc EXCEPT !.mysql = "parado"] ELSE svc
    BY <1>1, <2>3 DEF HubFora, ServicosReais, TipoServicos
  <2>4. CASE UNCHANGED hubProc /\ svc' = IF svc.hub # "rodando" THEN [svc EXCEPT !.hub = "nenhum", !.inicio = "auto"] ELSE svc
    BY <1>1, <2>4 DEF HubFora, ServicosReais, TipoServicos
  <2>5. CASE UNCHANGED hubProc /\ svc' = IF svc.mysql = "rodando" THEN svc ELSE [svc EXCEPT !.mysql = "nenhum"]
    BY <1>1, <2>5 DEF HubFora, ServicosReais, TipoServicos
  <2> QED
    BY <2>1, <2>2, <2>3, <2>4, <2>5 DEF PrepararSetup, RemoverServicos, MySql
<1> QED
  BY <1>1, <1>2, <1>3, <1>4, SoServicos DEF ServicosReais

LEMMA PassoServicosInstalados ==
  ASSUME InvInstalacao, RegistrarMySql \/ IniciarMySql \/ RegistrarHub \/ ArrancarHub
  PROVE  InvInstalacao'
<1>1. svc \in TipoServicos /\ TiposInstalacao /\ ServicosReais /\ Instalando(script) /\ RestauradoFora
      /\ UNCHANGED <<arq, sistema, conta, tabelas, restaurado>>
  BY DEF InvInstalacao, TiposInstalacao, RegistrarMySql, IniciarMySql, RegistrarHub, ArrancarHub
<1>2. ASSUME NEW p \in {"iniciarMySql", "raiz", "iniciarHub", "conferir"}, Vai(p)
      PROVE  /\ script' \in TipoScript /\ script'.passo = p
             /\ script'.rec = script.rec /\ script'.nova = script.nova
             /\ Recuperando(script)'
  <2>1. p \in PassosTodos
    BY DEF PassosTodos, PassosInstala
  <2>2. /\ script' \in TipoScript /\ script'.passo = p
        /\ script'.rec = script.rec /\ script'.nova = script.nova
    BY <1>1, <1>2, <2>1, Andar
  <2> QED
    BY <2>2 DEF Recuperando
<1>3. CASE RegistrarMySql
  <2>1. PICK s : s = IF svc.mysql = "nenhum" THEN [svc EXCEPT !.mysql = "parado"] ELSE svc
    OBVIOUS
  <2>2. s \in TipoServicos /\ s.hub = svc.hub /\ s.inicio = svc.inicio
        /\ (s.mysql = "rodando" => svc.mysql = "rodando")
    BY <1>1, <2>1 DEF TipoServicos
  <2>3. script.passo = "registrarMySql" /\ Vai("iniciarMySql") /\ svc' = s /\ UNCHANGED hubProc
    BY <1>3, <2>1 DEF RegistrarMySql, No
  <2>4. Instalando(script)'
    BY <1>1, <1>2, <2>3 DEF Instalando, PassosExaminados, PassosDoHub, PassosMigrados, PassosProntos
  <2> QED
    BY <1>1, <1>2, <2>2, <2>3, <2>4, SoServicos DEF ServicosReais, HubFora
<1>4. CASE IniciarMySql /\ sistema = "pronto"
  <2>1. PICK s : s = [svc EXCEPT !.mysql = "rodando"]
    OBVIOUS
  <2>2. s \in TipoServicos /\ s.hub = svc.hub /\ s.inicio = svc.inicio
    BY <1>1, <2>1 DEF TipoServicos
  <2>3. script.passo = "iniciarMySql" /\ Vai("raiz") /\ svc' = s /\ UNCHANGED hubProc
    BY <1>4, <2>1 DEF IniciarMySql, No
  <2>4. Instalando(script)'
    BY <1>1, <1>2, <2>3 DEF Instalando, PassosExaminados, PassosDoHub, PassosMigrados, PassosProntos
  <2> QED
    BY <1>1, <1>2, <1>4, <2>2, <2>3, <2>4, SoServicos DEF ServicosReais, HubFora
<1>5. CASE IniciarMySql /\ sistema # "pronto"
  BY <1>5, SoLanca DEF IniciarMySql
<1>6. CASE RegistrarHub
  <2>1. PICK h : h = IF svc.hub = "nenhum" THEN "parado" ELSE svc.hub
    OBVIOUS
  <2>2. PICK s : s = [svc EXCEPT !.hub = h, !.inicio = "auto"]
    OBVIOUS
  <2>3. h \in {"parado", "rodando"} /\ (h = "rodando" <=> svc.hub = "rodando")
    BY <1>1, <2>1 DEF TipoServicos
  <2>4. s \in TipoServicos /\ s.hub = h /\ s.inicio = "auto" /\ s.mysql = svc.mysql
    BY <1>1, <2>2, <2>3 DEF TipoServicos
  <2>5. script.passo = "registrarHub" /\ Vai("iniciarHub") /\ svc' = s /\ UNCHANGED hubProc
    BY <1>6, <2>1, <2>2 DEF RegistrarHub, No
  <2>6. script.passo \in PassosExaminados /\ script.passo \in PassosDoHub /\ script.passo \in PassosMigrados
    BY <2>5 DEF PassosExaminados, PassosDoHub, PassosMigrados
  <2>7. ~restaurado /\ ~script.rec
    BY <1>1, <2>6 DEF Instalando
  <2>8. Instalando(script)'
    BY <1>1, <1>2, <2>3, <2>4, <2>5
    DEF Instalando, PassosExaminados, PassosDoHub, PassosMigrados, PassosProntos
  <2> QED
    BY <1>1, <1>2, <2>3, <2>4, <2>5, <2>7, <2>8, SoServicos DEF ServicosReais
<1>7. CASE ArrancarHub
  <2>1. script.passo = "iniciarHub" /\ Vai("conferir")
    BY <1>7 DEF ArrancarHub, No
  <2>2. script.passo \in PassosExaminados /\ script.passo \in PassosDoHub /\ script.passo \in PassosProntos
    BY <2>1 DEF PassosExaminados, PassosDoHub, PassosMigrados, PassosProntos
  <2>3. ~restaurado /\ sistema = "pronto" /\ svc.hub # "nenhum" /\ svc.inicio = "auto"
    BY <1>1, <2>2 DEF Instalando
  <2>4. /\ svc' \in TipoServicos /\ svc'.hub # "nenhum" /\ svc'.inicio = "auto"
        /\ svc'.hub = "rodando" <=> hubProc' # "fora"
    <3>1. CASE svc.hub = "parado"
      BY <1>1, <1>7, <2>3, <3>1 DEF ArrancarHub, TipoServicos
    <3>2. CASE svc.hub # "parado"
      BY <1>1, <1>7, <2>3, <3>2 DEF ArrancarHub, ServicosReais
    <3> QED
      BY <3>1, <3>2
  <2>5. Instalando(script)'
    BY <1>1, <1>2, <2>1, <2>4 DEF Instalando, PassosExaminados, PassosDoHub, PassosMigrados, PassosProntos
  <2> QED
    BY <1>1, <1>2, <2>1, <2>3, <2>4, <2>5, SoServicos
<1> QED
  BY <1>3, <1>4, <1>5, <1>6, <1>7

\* Initialize-HubRecoveryMode leaves the marker and disables the service
LEMMA PassoRecuperacao ==
  ASSUME InvInstalacao, PrepararRecuperacao
  PROVE  InvInstalacao'
<1>1. svc \in TipoServicos /\ TiposInstalacao /\ ServicosReais /\ script.rec
      /\ UNCHANGED <<sistema, conta, tabelas, restaurado, hubProc>>
  BY DEF InvInstalacao, Instalando, No, TiposInstalacao, PrepararRecuperacao
<1>2. CASE script.passo = "assertParado"
  <2>1. UNCHANGED <<arq, svc>> /\ (Vai("marcar") \/ Lanca)
    BY <1>2 DEF PrepararRecuperacao, No, Exige
  <2>2. ASSUME Vai("marcar") PROVE InvInstalacao'
    <3>1. "marcar" \in PassosTodos
      BY DEF PassosTodos, PassosInstala
    <3> QED
      BY <1>1, <2>1, <2>2, <3>1, SoAndar, ScriptFora
  <2> QED
    BY <1>1, <2>1, <2>2, SoLanca
<1>3. CASE script.passo = "marcar"
  <2>1. PICK a : a = [arq EXCEPT !.marcador = TRUE]
    OBVIOUS
  <2>2. arq' = a /\ UNCHANGED svc /\ Vai("desativar")
    BY <1>3, <2>1 DEF PrepararRecuperacao, No
  <2>3. a.env = arq.env /\ a.admin = arq.admin /\ a.copia = arq.copia /\ a.ini = arq.ini /\ a.marcador
    BY <1>1, <2>1 DEF TiposInstalacao
  <2>4. a \in [env : Senha \cup {Nada}, admin : Senha \cup {Nada, SemSegredo},
               copia : Senha \cup {Nada, SemSegredo}, ini : BOOLEAN, marcador : BOOLEAN]
    BY <1>1, <2>1 DEF TiposInstalacao
  <2>5. PICK m \in TipoScript : m = script' /\ m.passo = "desativar" /\ m.rec
    BY <1>1, <2>2, Andar DEF PassosTodos, PassosInstala
  <2>6. Instalando(m)' /\ Recuperando(m)'
    BY <2>5, ScriptFora
  <2>7. Instalando(script)' /\ Recuperando(script)'
    BY <2>5, <2>6 DEF Instalando, Recuperando
  <2>8. TiposInstalacao'
    BY <1>1, <2>2, <2>4, <2>5 DEF TiposInstalacao
  <2>9. ServicosReais' /\ SegredosConferem' /\ RestauradoFora'
    BY <1>1, <2>2, <2>3 DEF InvInstalacao, ServicosReais, SegredosConferem, RestauradoFora, HubFora, SemContas
  <2> QED
    BY <2>7, <2>8, <2>9 DEF InvInstalacao
<1>4. CASE script.passo = "desativar"
  <2>1. PICK s : s = IF svc.hub = "nenhum" THEN svc ELSE [svc EXCEPT !.inicio = "desativado"]
    OBVIOUS
  <2>2. svc' = s /\ UNCHANGED arq /\ Vai("preflight")
    BY <1>4, <2>1 DEF PrepararRecuperacao, No
  <2>3. s \in TipoServicos /\ s.hub = svc.hub /\ s.mysql = svc.mysql
        /\ (s.hub = "nenhum" \/ s.inicio = "desativado")
    BY <1>1, <2>1 DEF TipoServicos
  <2>4. /\ script' \in TipoScript /\ script'.passo = "preflight"
        /\ script'.rec
    BY <1>1, <2>2, Andar DEF PassosTodos, PassosInstala
  <2>5. Recuperando(script)'
    BY <2>4 DEF Recuperando
  <2>6. Instalando(script)'
    BY <2>4 DEF Instalando, PassosExaminados, PassosDoHub, PassosMigrados, PassosProntos
  <2> QED
    BY <1>1, <2>2, <2>3, <2>4, <2>5, <2>6, SoServicos DEF ServicosReais, HubFora
<1> QED
  BY <1>2, <1>3, <1>4 DEF PrepararRecuperacao, No

-----------------------------------------------------------------------------
(* Instalacao: the files, the accounts and the database *)

TipoArquivos ==
  [env : Senha \cup {Nada}, admin : Senha \cup {Nada, SemSegredo},
   copia : Senha \cup {Nada, SemSegredo}, ini : BOOLEAN, marcador : BOOLEAN]

LEMMA SeisNoMaximo ==
  ASSUME NEW a, NEW b, NEW c, NEW d, NEW e, NEW f
  PROVE  IsFiniteSet({a, b, c, d, e, f}) /\ Cardinality({a, b, c, d, e, f}) <= 6
<1>1. IsFiniteSet({a}) /\ Cardinality({a}) = 1
  BY FS_Singleton
<1>2. IsFiniteSet({a} \cup {b}) /\ Cardinality({a} \cup {b}) \in 1..2
  BY <1>1, FS_AddElement
<1>3. IsFiniteSet({a} \cup {b} \cup {c}) /\ Cardinality({a} \cup {b} \cup {c}) \in 1..3
  BY <1>2, FS_AddElement
<1>4. IsFiniteSet({a} \cup {b} \cup {c} \cup {d}) /\ Cardinality({a} \cup {b} \cup {c} \cup {d}) \in 1..4
  BY <1>3, FS_AddElement
<1>5. /\ IsFiniteSet({a} \cup {b} \cup {c} \cup {d} \cup {e})
      /\ Cardinality({a} \cup {b} \cup {c} \cup {d} \cup {e}) \in 1..5
  BY <1>4, FS_AddElement
<1>6. /\ IsFiniteSet({a} \cup {b} \cup {c} \cup {d} \cup {e} \cup {f})
      /\ Cardinality({a} \cup {b} \cup {c} \cup {d} \cup {e} \cup {f}) \in 1..6
  BY <1>5, FS_AddElement
<1>7. {a} \cup {b} \cup {c} \cup {d} \cup {e} \cup {f} = {a, b, c, d, e, f}
  OBVIOUS
<1> QED
  BY <1>6, <1>7

\* New-Secret finds a value that no file and no account has
LEMMA NovaTipo == Nova \in Senha
<1>1. PICK S : S = SegredosEmUso
  OBVIOUS
<1>2. IsFiniteSet(S) /\ Cardinality(S) <= 6 /\ Cardinality(S) \in Nat
  <2>1. IsFiniteSet(S) /\ Cardinality(S) <= 6
    BY <1>1, SeisNoMaximo DEF SegredosEmUso
  <2> QED
    BY <2>1, FS_CardinalityType
<1>3. \E s \in Senha : s \notin S
  <2>1. SUFFICES ASSUME Senha \subseteq S PROVE FALSE
    OBVIOUS
  <2>2. IsFiniteSet(Senha) /\ Cardinality(Senha) <= Cardinality(S)
    BY <1>2, <2>1, FS_Subset
  <2>3. Cardinality(Senha) \in Nat /\ Cardinality(Senha) > 6
    BY <2>2, FS_CardinalityType, ConstantesInstalacao
  <2> QED
    BY <1>2, <2>2, <2>3
<1> QED
  BY <1>1, <1>3 DEF Nova

\* a step of an installation that writes a file and goes on to p, or ends
LEMMA SoArquivos ==
  ASSUME InvInstalacao, UNCHANGED <<sistema, conta, tabelas, restaurado, svc, hubProc>>,
         NEW a \in TipoArquivos, arq' = a, script' \in TipoScript,
         a.ini => a.env \in Senha, restaurado => a.marcador \/ ~a.ini,
         sistema = "pronto" =>
           /\ a.admin \in Senha /\ conta["root"] # Nada => a.admin = conta["root"]
           /\ a.env \in Senha /\ conta["hub"] # Nada => a.env = conta["hub"]
           /\ a.copia \in Senha /\ conta["copia"] # Nada => a.copia = conta["copia"],
         Instalando(script)', Recuperando(script)'
  PROVE  InvInstalacao'
<1>1. TiposInstalacao'
  BY DEF InvInstalacao, TiposInstalacao, TipoArquivos
<1>2. ServicosReais' /\ SegredosConferem' /\ RestauradoFora'
  BY DEF InvInstalacao, ServicosReais, SegredosConferem, RestauradoFora, HubFora, SemContas
<1> QED
  BY <1>1, <1>2 DEF InvInstalacao

LEMMA PassoEnv ==
  ASSUME InvInstalacao, EscreverEnv
  PROVE  InvInstalacao'
<1>1. PICK e : e = EnvDe(arq.env)
  OBVIOUS
<1>2. PICK a : a = [arq EXCEPT !.env = e]
  OBVIOUS
<1>3. /\ arq' = a /\ script.passo = "env" /\ Vai("ini")
      /\ UNCHANGED <<sistema, conta, tabelas, restaurado, svc, hubProc>>
  BY <1>1, <1>2 DEF EscreverEnv, No
<1>4. e \in Senha /\ (arq.env # Nada => e = arq.env)
  BY <1>1, NovaTipo, CamposInstalacao DEF EnvDe, InvInstalacao
<1>5. a \in TipoArquivos /\ a.env = e /\ a.admin = arq.admin /\ a.copia = arq.copia
  BY <1>2, <1>4 DEF InvInstalacao, TiposInstalacao, TipoArquivos
<1>6. a.ini = arq.ini /\ a.marcador = arq.marcador
  BY <1>2 DEF InvInstalacao, TiposInstalacao
<1>7. /\ script' \in TipoScript /\ script'.passo = "ini"
      /\ script'.rec = script.rec /\ script'.nova = script.nova
  BY <1>3, Andar DEF InvInstalacao, PassosTodos, PassosInstala
<1>8. Instalando(script) /\ SegredosConferem /\ RestauradoFora /\ ServicosReais
  BY DEF InvInstalacao
<1>9. Instalando(script)' /\ Recuperando(script)'
  BY <1>3, <1>4, <1>5, <1>6, <1>7, <1>8
  DEF Instalando, Recuperando, PassosExaminados, PassosDoHub, PassosMigrados, PassosProntos
<1>10. sistema = "pronto" => arq.env # Nada
  <2>1. script.passo \in PassosExaminados
    BY <1>3 DEF PassosExaminados
  <2>2. sistema = "pronto" => arq.ini
    BY <1>3, <1>8, <2>1 DEF Instalando
  <2> QED
    BY <1>8, <2>2, ConstantesInstalacao DEF SegredosConferem
<1>11. restaurado => a.marcador \/ ~a.ini
  BY <1>6, <1>8 DEF RestauradoFora
<1> QED
  BY <1>3, <1>4, <1>5, <1>6, <1>7, <1>8, <1>9, <1>10, <1>11, SoArquivos DEF SegredosConferem

LEMMA PassoIni ==
  ASSUME InvInstalacao, EscreverIni
  PROVE  InvInstalacao'
<1>1. PICK a : a = IF script.nova THEN [arq EXCEPT !.ini = TRUE] ELSE arq
  OBVIOUS
<1>2. /\ arq' = a /\ script.passo = "ini" /\ Vai("inicializar")
      /\ UNCHANGED <<sistema, conta, tabelas, restaurado, svc, hubProc>>
  BY <1>1 DEF EscreverIni, No
<1>3. Instalando(script) /\ SegredosConferem /\ RestauradoFora /\ ServicosReais /\ TiposInstalacao
  BY DEF InvInstalacao
<1>4. a \in TipoArquivos /\ a.env = arq.env /\ a.admin = arq.admin /\ a.copia = arq.copia
  BY <1>1, <1>3 DEF TiposInstalacao, TipoArquivos
<1>5. a.marcador = arq.marcador /\ (script.nova => a.ini) /\ (~script.nova => a.ini = arq.ini)
  BY <1>1, <1>3 DEF TiposInstalacao
<1>6. /\ script' \in TipoScript /\ script'.passo = "inicializar"
      /\ script'.rec = script.rec /\ script'.nova = script.nova
  BY <1>2, <1>3, Andar DEF PassosTodos, PassosInstala
<1>7. arq.env \in Senha /\ (script.nova => sistema = "nenhum" /\ ~restaurado)
  BY <1>2, <1>3 DEF Instalando, ServicosReais
<1>8. Instalando(script)' /\ Recuperando(script)'
  BY <1>2, <1>3, <1>4, <1>5, <1>6, <1>7
  DEF Instalando, Recuperando, PassosExaminados, PassosDoHub, PassosMigrados, PassosProntos
<1>9. restaurado => a.marcador \/ ~a.ini
  BY <1>3, <1>5, <1>7 DEF RestauradoFora
<1> QED
  BY <1>2, <1>3, <1>4, <1>6, <1>7, <1>8, <1>9, SoArquivos DEF SegredosConferem

\* what is written is a secret or a file without it
LEMMA SegredoGravado ==
  ASSUME TiposInstalacao, NEW c \in {"admin", "copia"}, GravarSegredo(c)
  PROVE  \E a \in TipoArquivos :
           /\ arq' = a /\ a[c] \in Senha \cup {SemSegredo}
           /\ a.env = arq.env /\ a.ini = arq.ini /\ a.marcador = arq.marcador
           /\ c = "copia" => a.admin = arq.admin
           /\ c = "admin" => a.copia = arq.copia
<1>1. PICK s \in Senha \cup {SemSegredo} : arq' = [arq EXCEPT ![c] = s]
  BY NovaTipo DEF GravarSegredo
<1>2. PICK a : a = [arq EXCEPT ![c] = s]
  OBVIOUS
<1>3. CASE c = "admin"
  <2>1. a = [arq EXCEPT !.admin = s]
    BY <1>2, <1>3
  <2>2. a \in TipoArquivos /\ a.admin = s
    BY <1>1, <2>1 DEF TiposInstalacao, TipoArquivos
  <2>3. a.env = arq.env /\ a.copia = arq.copia /\ a.ini = arq.ini /\ a.marcador = arq.marcador
    BY <2>1 DEF TiposInstalacao
  <2> QED
    BY <1>1, <1>2, <1>3, <2>2, <2>3
<1>4. CASE c = "copia"
  <2>1. a = [arq EXCEPT !.copia = s]
    BY <1>2, <1>4
  <2>2. a \in TipoArquivos /\ a.copia = s
    BY <1>1, <2>1 DEF TiposInstalacao, TipoArquivos
  <2>3. a.env = arq.env /\ a.admin = arq.admin /\ a.ini = arq.ini /\ a.marcador = arq.marcador
    BY <2>1 DEF TiposInstalacao
  <2> QED
    BY <1>1, <1>2, <1>4, <2>2, <2>3
<1> QED
  BY <1>3, <1>4

LEMMA PassoAdmin ==
  ASSUME InvInstalacao, EscreverAdmin
  PROVE  InvInstalacao'
<1>1. /\ script.passo \in {"adminInicial", "adminRaiz"} /\ GravarSegredo("admin")
      /\ UNCHANGED <<sistema, conta, tabelas, restaurado, svc, hubProc>>
  BY DEF EscreverAdmin, No
<1>2. Instalando(script) /\ SegredosConferem /\ RestauradoFora /\ TiposInstalacao
  BY DEF InvInstalacao
<1>3. PICK a \in TipoArquivos :
        /\ arq' = a /\ a.env = arq.env /\ a.copia = arq.copia
        /\ a.ini = arq.ini /\ a.marcador = arq.marcador
  BY <1>1, <1>2, SegredoGravado
<1>4. conta["root"] = Nada
  BY <1>1, <1>2 DEF Instalando
<1>5. \/ script' = Parado
      \/ Vai("raizSenha")
      \/ script' = [script EXCEPT !.passo = "registrarMySql", !.raiz = TRUE]
  BY DEF EscreverAdmin, Lanca
<1>6. /\ script' \in TipoScript
      /\ \/ script'.passo = "fora"
         \/ /\ script'.passo \in {"raizSenha", "registrarMySql"}
            /\ script'.rec = script.rec /\ script'.nova = script.nova
  <2>1. CASE script' = Parado
    BY <2>1, ScriptParado
  <2>2. CASE Vai("raizSenha")
    BY <1>2, <2>2, Andar DEF PassosTodos, PassosInstala
  <2>3. CASE script' = [script EXCEPT !.passo = "registrarMySql", !.raiz = TRUE]
    BY <1>2, <2>3 DEF TiposInstalacao, TipoScript, PassosTodos, PassosInstala
  <2> QED
    BY <1>5, <2>1, <2>2, <2>3
<1>7. Instalando(script)' /\ Recuperando(script)'
  BY <1>1, <1>2, <1>3, <1>6
  DEF Instalando, Recuperando, PassosExaminados, PassosDoHub, PassosMigrados, PassosProntos
<1> QED
  BY <1>1, <1>2, <1>3, <1>4, <1>6, <1>7, SoArquivos DEF SegredosConferem, RestauradoFora

\* an account gets the password of its file
LEMMA SoContas ==
  ASSUME InvInstalacao, UNCHANGED <<arq, sistema, tabelas, restaurado, svc, hubProc>>,
         sistema = "pronto", script' \in TipoScript, conta' \in [Contas -> Senha \cup {Nada}],
         conta'["root"] \in {conta["root"], arq.admin}, conta'["hub"] \in {conta["hub"], arq.env},
         conta'["copia"] \in {conta["copia"], arq.copia},
         Instalando(script)', Recuperando(script)'
  PROVE  InvInstalacao'
<1>1. TiposInstalacao'
  BY DEF InvInstalacao, TiposInstalacao
<1>2. ServicosReais' /\ RestauradoFora'
  BY DEF InvInstalacao, ServicosReais, RestauradoFora, HubFora
<1>3. SegredosConferem'
  BY DEF InvInstalacao, SegredosConferem
<1> QED
  BY <1>1, <1>2, <1>3 DEF InvInstalacao

LEMMA PassoCopiaConta ==
  ASSUME InvInstalacao, CriarContaCopia
  PROVE  InvInstalacao'
<1>1. Instalando(script) /\ SegredosConferem /\ RestauradoFora /\ ServicosReais /\ TiposInstalacao
  BY DEF InvInstalacao
<1>2. script.passo \in {"contaCopia", "copiaConta"} /\ UNCHANGED <<sistema, tabelas, restaurado, svc, hubProc>>
  BY DEF CriarContaCopia, No
<1>3. script.nova /\ conta["copia"] = Nada /\ sistema = "pronto" /\ ~script.rec
  <2>1. script.passo \in PassosDoHub /\ script.passo \in PassosExaminados \ ({"migrar"} \cup PassosMigrados)
    BY <1>2 DEF PassosExaminados, PassosDoHub, PassosMigrados, PassosProntos
  <2> QED
    BY <1>1, <1>2, <2>1 DEF Instalando
<1>4. ASSUME NEW p \in {"copiaConta", "migrar"}, Lanca \/ Vai(p)
      PROVE  /\ script' \in TipoScript
             /\ \/ script'.passo = "fora"
                \/ script'.passo = p /\ script'.rec = script.rec /\ script'.nova = script.nova
  <2>1. p \in PassosTodos
    BY DEF PassosTodos, PassosInstala
  <2> QED
    BY <1>1, <1>4, <2>1, ScriptParado, Andar DEF Lanca
<1>5. CASE script.passo = "contaCopia" /\ GravarSegredo("copia")
  <2>1. PICK a \in TipoArquivos :
          /\ arq' = a /\ a.copia \in Senha \cup {SemSegredo} /\ a.env = arq.env
          /\ a.admin = arq.admin /\ a.ini = arq.ini /\ a.marcador = arq.marcador
    BY <1>1, <1>5, SegredoGravado
  <2>2. UNCHANGED conta /\ (Lanca \/ (Vai("copiaConta") /\ a.copia \in Senha))
    BY <1>5, <2>1 DEF CriarContaCopia, No
  <2>3. script' \in TipoScript /\ Instalando(script)' /\ Recuperando(script)'
    BY <1>1, <1>2, <1>3, <1>4, <1>5, <2>1, <2>2
    DEF Instalando, Recuperando, PassosExaminados, PassosDoHub, PassosMigrados, PassosProntos
  <2> QED
    BY <1>1, <1>2, <1>3, <2>1, <2>2, <2>3, SoArquivos DEF SegredosConferem, RestauradoFora
<1>6. CASE script.passo = "copiaConta" /\ conta' = [conta EXCEPT !.copia = arq.copia] /\ Vai("migrar")
           /\ AdminVale /\ UNCHANGED arq
  <2>1. arq.copia \in Senha
    BY <1>1, <1>6 DEF Instalando
  <2>2. PICK k : k = [conta EXCEPT !["copia"] = arq.copia]
    OBVIOUS
  <2>3. k \in [Contas -> Senha \cup {Nada}] /\ k["root"] = conta["root"] /\ k["hub"] = conta["hub"]
        /\ k["copia"] = arq.copia
    BY <1>1, <2>1, <2>2 DEF TiposInstalacao, Contas
  <2>4. script' \in TipoScript /\ Instalando(script)' /\ Recuperando(script)'
    BY <1>1, <1>2, <1>3, <1>4, <1>6, <2>2, <2>3
    DEF Instalando, Recuperando, PassosExaminados, PassosDoHub, PassosMigrados, PassosProntos
  <2> QED
    BY <1>2, <1>3, <1>6, <2>2, <2>3, <2>4, SoContas
<1>7. CASE Lanca /\ UNCHANGED <<arq, conta>>
  BY <1>2, <1>7, SoLanca
<1> QED
  BY <1>2, <1>5, <1>6, <1>7 DEF CriarContaCopia, No

LEMMA PassoContas ==
  ASSUME InvInstalacao, ProtegerRaiz \/ PrepararBanco
  PROVE  InvInstalacao'
<1>1. Instalando(script) /\ ServicosReais /\ TiposInstalacao
      /\ UNCHANGED <<arq, sistema, tabelas, restaurado, svc, hubProc>>
  BY DEF InvInstalacao, ProtegerRaiz, PrepararBanco
<1>2. ASSUME NEW p \in {"verificar", "banco", "contaCopia", "migrar"}, Lanca \/ Vai(p)
      PROVE  /\ script' \in TipoScript
             /\ \/ script'.passo = "fora"
                \/ script'.passo = p /\ script'.rec = script.rec /\ script'.nova = script.nova
  <2>1. p \in PassosTodos
    BY DEF PassosTodos, PassosInstala
  <2> QED
    BY <1>1, <1>2, <2>1, ScriptParado, Andar DEF Lanca
<1>3. CASE /\ script.passo = "raizSenha" /\ svc.mysql = "rodando" /\ arq.admin \in Senha
           /\ conta' = [conta EXCEPT !.root = arq.admin]
           /\ Vai(DepoisDaRaiz)
  <2>1. PICK k : k = [conta EXCEPT !["root"] = arq.admin]
    OBVIOUS
  <2>2. k \in [Contas -> Senha \cup {Nada}] /\ k["root"] = arq.admin /\ k["hub"] = conta["hub"]
        /\ k["copia"] = conta["copia"]
    BY <1>1, <1>3, <2>1 DEF TiposInstalacao, Contas
  <2>3. PICK p \in {"verificar", "banco"} : Vai(p)
    BY <1>3 DEF DepoisDaRaiz
  <2>4. script' \in TipoScript /\ Instalando(script)' /\ Recuperando(script)'
    BY <1>1, <1>2, <1>3, <2>1, <2>2, <2>3
    DEF Instalando, Recuperando, PassosExaminados, PassosDoHub, PassosMigrados, PassosProntos
  <2> QED
    BY <1>1, <1>3, <2>1, <2>2, <2>4, SoContas DEF ServicosReais
<1>4. CASE /\ script.passo = "banco" /\ AdminVale
           /\ conta' = IF conta.hub = Nada THEN [conta EXCEPT !.hub = arq.env] ELSE conta
           /\ IF script.rec THEN Lanca ELSE Vai(IF script.nova THEN "contaCopia" ELSE "migrar")
  <2>1. PICK k : k = IF conta.hub = Nada THEN [conta EXCEPT !["hub"] = arq.env] ELSE conta
    OBVIOUS
  <2>2. k \in [Contas -> Senha \cup {Nada}] /\ k["root"] = conta["root"] /\ k["hub"] \in {conta["hub"], arq.env}
        /\ k["copia"] = conta["copia"]
    BY <1>1, <2>1 DEF TiposInstalacao, Contas
  <2>3. /\ svc.mysql = "rodando" /\ arq.admin # Nada
        /\ conta["root"] = IF arq.admin = SemSegredo THEN Nada ELSE arq.admin
    BY <1>4 DEF AdminVale, MySql, SenhaDoArquivo
  <2>4. PICK p \in {"contaCopia", "migrar"} :
          /\ IF script.rec THEN Lanca ELSE Vai(p)
          /\ p = "contaCopia" => script.nova
    BY <1>4
  <2>5. sistema = "pronto"
    BY <1>1, <2>3 DEF ServicosReais
  <2>6. script' \in TipoScript /\ Instalando(script)' /\ Recuperando(script)'
    BY <1>1, <1>2, <1>4, <2>1, <2>2, <2>3, <2>4, <2>5, ScriptParado
    DEF Instalando, Recuperando, PassosExaminados, PassosDoHub, PassosMigrados, PassosProntos, Lanca
  <2> QED
    BY <1>1, <1>4, <2>1, <2>2, <2>5, <2>6, SoContas
<1>5. CASE Lanca /\ UNCHANGED conta
  BY <1>1, <1>5, SoLanca
<1> QED
  BY <1>3, <1>4, <1>5 DEF ProtegerRaiz, PrepararBanco, No, MySql

\* a step that changes what the database has
LEMMA SoTabelas ==
  ASSUME InvInstalacao, UNCHANGED <<arq, sistema, conta, svc, hubProc>>,
         script' \in TipoScript, tabelas' \in BOOLEAN, restaurado' \in BOOLEAN,
         restaurado' => sistema = "pronto" /\ HubFora /\ (arq.marcador \/ ~arq.ini),
         Instalando(script)', Recuperando(script)'
  PROVE  InvInstalacao'
<1>1. TiposInstalacao'
  BY DEF InvInstalacao, TiposInstalacao
<1>2. ServicosReais' /\ RestauradoFora'
  BY DEF InvInstalacao, ServicosReais, RestauradoFora, HubFora, SemContas
<1>3. SegredosConferem'
  BY DEF InvInstalacao, SegredosConferem
<1> QED
  BY <1>1, <1>2, <1>3 DEF InvInstalacao

LEMMA PassoTabelas ==
  ASSUME InvInstalacao, Migrar \/ Importar \/ EsvaziarBanco
  PROVE  InvInstalacao'
<1>1. Instalando(script) /\ Recuperando(script) /\ RestauradoFora /\ ServicosReais /\ TiposInstalacao
      /\ UNCHANGED <<arq, sistema, conta, svc, hubProc>>
  BY DEF InvInstalacao, Migrar, Importar, EsvaziarBanco
<1>2. CASE Migrar /\ ~arq.marcador /\ HubConecta
  <2>1. script.passo = "migrar" /\ tabelas' = TRUE /\ Vai("preparar") /\ restaurado' = restaurado
        /\ conta["hub"] = arq.env
    BY <1>2 DEF Migrar, No, HubConecta
  <2>2. /\ script' \in TipoScript /\ script'.passo = "preparar"
        /\ script'.rec = script.rec /\ script'.nova = script.nova
    BY <1>1, <2>1, Andar DEF PassosTodos, PassosInstala
  <2>3. Instalando(script)' /\ Recuperando(script)'
    BY <1>1, <2>1, <2>2
    DEF Instalando, Recuperando, PassosExaminados, PassosDoHub, PassosMigrados, PassosProntos
  <2>4. restaurado \in BOOLEAN /\ (restaurado => sistema = "pronto" /\ HubFora /\ (arq.marcador \/ ~arq.ini))
    BY <1>1 DEF TiposInstalacao, ServicosReais, RestauradoFora
  <2> QED
    BY <1>1, <2>1, <2>2, <2>3, <2>4, SoTabelas
<1>3. CASE Migrar /\ ~(~arq.marcador /\ HubConecta)
  BY <1>3, SoLanca DEF Migrar
<1>4. CASE Importar
  <2>1. script.passo = "importar" /\ tabelas' = TRUE /\ restaurado' = TRUE /\ script' = Parado
    BY <1>4 DEF Importar, No, Lanca
  <2>2. sistema = "pronto" /\ HubFora /\ arq.marcador
    BY <1>1, <2>1 DEF Recuperando
  <2>3. Instalando(script)' /\ Recuperando(script)'
    BY <2>1, ScriptParado
    DEF Instalando, Recuperando, PassosExaminados, PassosDoHub, PassosMigrados, PassosProntos
  <2> QED
    BY <1>1, <2>1, <2>2, <2>3, ScriptParado, SoTabelas
<1>5. CASE EsvaziarBanco
  <2>1. script.passo = "fora" /\ tabelas' = FALSE /\ restaurado' = FALSE /\ script' = script
    BY <1>5 DEF EsvaziarBanco, No
  <2>2. Instalando(script)' /\ Recuperando(script)'
    BY <2>1
    DEF Instalando, Recuperando, PassosExaminados, PassosDoHub, PassosMigrados, PassosProntos
  <2> QED
    BY <1>1, <2>1, <2>2, SoTabelas DEF TiposInstalacao
<1> QED
  BY <1>2, <1>3, <1>4, <1>5

\* mysqld --initialize-insecure finds no account, and leaves none with a password
LEMMA PassoInicializar ==
  ASSUME InvInstalacao, InicializarMySql
  PROVE  InvInstalacao'
<1>1. Instalando(script) /\ RestauradoFora /\ SegredosConferem /\ ServicosReais /\ TiposInstalacao
      /\ script.passo = "inicializar" /\ UNCHANGED <<arq, conta, tabelas, restaurado, svc, hubProc>>
  BY DEF InvInstalacao, InicializarMySql, No
<1>2. CASE sistema # "nenhum"
  <2>1. Vai("registrarMySql") /\ UNCHANGED sistema /\ "registrarMySql" \in PassosTodos
    BY <1>2 DEF InicializarMySql, PassosTodos, PassosInstala
  <2>2. ASSUME NEW m \in TipoScript, m.passo = "registrarMySql", m.rec = script.rec, m.nova = script.nova
        PROVE  Instalando(m) /\ Recuperando(m)
    BY <1>1, <1>2, <2>2
    DEF Instalando, Recuperando, PassosExaminados, PassosDoHub, PassosMigrados, PassosProntos
  <2> QED
    BY <1>1, <2>1, <2>2, SoAndar
<1>3. CASE sistema = "nenhum"
  <2>1. \/ sistema' = "pronto" /\ Vai("adminInicial")
        \/ sistema' = "parcial" /\ Lanca
    BY <1>3 DEF InicializarMySql
  <2>2. conta["root"] = Nada /\ conta["hub"] = Nada /\ conta["copia"] = Nada /\ SemContas /\ ~restaurado
        /\ svc.mysql # "rodando"
    BY <1>1, <1>3 DEF ServicosReais, SemContas, Contas
  <2>3. /\ script' \in TipoScript
        /\ \/ script'.passo = "fora"
           \/ /\ script'.passo = "adminInicial"
              /\ script'.rec = script.rec /\ script'.nova = script.nova
    BY <1>1, <2>1, ScriptParado, Andar DEF Lanca, PassosTodos, PassosInstala
  <2>4. Instalando(script)' /\ Recuperando(script)'
    BY <1>1, <2>2, <2>3
    DEF Instalando, Recuperando, PassosExaminados, PassosDoHub, PassosMigrados, PassosProntos
  <2>5. TiposInstalacao'
    BY <1>1, <2>1, <2>3 DEF TiposInstalacao
  <2>6. ServicosReais' /\ RestauradoFora'
    BY <1>1, <2>2 DEF ServicosReais, RestauradoFora, SemContas
  <2>7. SegredosConferem'
    BY <1>1, <2>2 DEF SegredosConferem
  <2> QED
    BY <2>4, <2>5, <2>6, <2>7 DEF InvInstalacao
<1> QED
  BY <1>2, <1>3

\* the support releases the hub, which may start from then on
LEMMA PassoLiberar ==
  ASSUME InvInstalacao, Liberar
  PROVE  InvInstalacao'
<1>1. /\ script.passo = "fora" /\ svc.hub # "rodando" /\ restaurado' = FALSE
      /\ UNCHANGED <<sistema, conta, tabelas, hubProc, script>>
      /\ ServicosReais /\ SegredosConferem /\ TiposInstalacao
  BY DEF Liberar, No, InvInstalacao
<1>2. PICK a : a = [arq EXCEPT !.marcador = FALSE]
  OBVIOUS
<1>3. a \in TipoArquivos /\ a.env = arq.env /\ a.admin = arq.admin /\ a.copia = arq.copia
      /\ a.ini = arq.ini
  BY <1>1, <1>2 DEF TiposInstalacao, TipoArquivos
<1>4. PICK s : s = [svc EXCEPT !.inicio = "auto"]
  OBVIOUS
<1>5. s \in TipoServicos /\ s.hub = svc.hub /\ s.mysql = svc.mysql
  BY <1>1, <1>4 DEF TiposInstalacao, TipoServicos
<1>6. arq' = a /\ svc' = s
  BY <1>2, <1>4 DEF Liberar
<1>7. Instalando(script)' /\ Recuperando(script)'
  BY <1>1
  DEF Instalando, Recuperando, PassosExaminados, PassosDoHub, PassosMigrados, PassosProntos
<1>8. TiposInstalacao'
  BY <1>1, <1>3, <1>5, <1>6 DEF TiposInstalacao, TipoArquivos
<1>9. ServicosReais' /\ RestauradoFora'
  BY <1>1, <1>5, <1>6 DEF ServicosReais, RestauradoFora, SemContas
<1>10. SegredosConferem'
  BY <1>1, <1>3, <1>6 DEF SegredosConferem
<1> QED
  BY <1>7, <1>8, <1>9, <1>10 DEF InvInstalacao

\* the purge takes the files first; what MySQL holds goes with it or stays
LEMMA PassoPurgar ==
  ASSUME InvInstalacao, Purgar
  PROVE  InvInstalacao'
<1>1. UNCHANGED <<svc, hubProc>> /\ ServicosReais /\ SegredosConferem /\ RestauradoFora /\ TiposInstalacao
  BY DEF Purgar, InvInstalacao
<1>2. CASE /\ script.passo = "fora" /\ Vai("purgar") /\ arq' = InitArq
           /\ UNCHANGED <<sistema, conta, tabelas, restaurado>>
  <2>1. InitArq \in TipoArquivos /\ ~InitArq.ini /\ InitArq.env \notin Senha /\ InitArq.admin \notin Senha
        /\ InitArq.copia \notin Senha
    BY ConstantesInstalacao DEF InitArq, TipoArquivos
  <2>2. script' \in TipoScript /\ script'.passo = "purgar"
    BY <1>1, <1>2, Andar DEF PassosTodos, PassosOutros
  <2>3. Instalando(script)' /\ Recuperando(script)'
    BY <2>2
    DEF Instalando, Recuperando, PassosExaminados, PassosDoHub, PassosMigrados, PassosProntos
  <2> QED
    BY <1>1, <1>2, <2>1, <2>2, <2>3, SoArquivos
<1>3. CASE Lanca /\ UNCHANGED <<arq, sistema, conta, tabelas, restaurado>>
  BY <1>1, <1>3, SoLanca
<1>4. CASE /\ Lanca /\ UNCHANGED arq /\ svc.mysql # "rodando" /\ sistema' = "nenhum"
           /\ conta' = [c \in DOMAIN conta |-> Nada] /\ tabelas' = FALSE /\ restaurado' = FALSE
  <2>1. DOMAIN conta = Contas
    BY <1>1 DEF TiposInstalacao
  <2>2. conta' \in [Contas -> Senha \cup {Nada}] /\ \A c \in Contas : conta'[c] = Nada
    BY <1>4, <2>1
  <2>3. script' \in TipoScript /\ Instalando(script)' /\ Recuperando(script)'
    BY <1>4, ScriptParado
    DEF Instalando, Recuperando, PassosExaminados, PassosDoHub, PassosMigrados, PassosProntos, Lanca
  <2>4. TiposInstalacao'
    BY <1>1, <1>4, <2>2, <2>3 DEF TiposInstalacao
  <2>5. ServicosReais' /\ RestauradoFora'
    BY <1>1, <1>4, <2>2 DEF ServicosReais, RestauradoFora, SemContas
  <2>6. SegredosConferem'
    BY <1>1, <1>4 DEF SegredosConferem
  <2> QED
    BY <2>3, <2>4, <2>5, <2>6 DEF InvInstalacao
<1> QED
  BY <1>2, <1>3, <1>4 DEF Purgar, No, MySql

LEMMA PassoFechar ==
  ASSUME InvInstalacao, Desinstalar("pararHub") \/ FecharScript \/ UNCHANGED varsInstalacao
  PROVE  InvInstalacao'
<1>1. CASE Desinstalar("pararHub")
  <2>1. Vai("pararHub") /\ UNCHANGED <<arq, sistema, conta, tabelas, restaurado, svc, hubProc>>
        /\ "pararHub" \in PassosTodos
    BY <1>1 DEF Desinstalar, PassosTodos, PassosOutros
  <2> QED
    BY <2>1, SoAndar, ScriptFora
<1>2. CASE FecharScript
  BY <1>2, SoLanca DEF FecharScript, Lanca
<1>3. CASE UNCHANGED varsInstalacao
  <2>1. UNCHANGED <<arq, sistema, conta, tabelas, restaurado, svc, hubProc>> /\ script' = script
    BY <1>3 DEF varsInstalacao
  <2> QED
    BY <2>1, SoOScript DEF InvInstalacao, TiposInstalacao
<1> QED
  BY <1>1, <1>2, <1>3

LEMMA InicioInstalacao == InitInstalacao => InvInstalacao
<1> SUFFICES ASSUME InitInstalacao PROVE InvInstalacao
  OBVIOUS
<1>1. /\ arq = InitArq /\ sistema = "nenhum" /\ conta = [c \in {"root", "hub", "copia"} |-> Nada]
      /\ tabelas = FALSE /\ restaurado = FALSE /\ hubProc = "fora" /\ script = Parado
      /\ svc = [mysql |-> "nenhum", hub |-> "nenhum", inicio |-> "auto"]
  BY DEF InitInstalacao
<1>2. svc \in TipoServicos /\ svc.hub = "nenhum" /\ svc.mysql = "nenhum"
  BY <1>1 DEF TipoServicos
<1>3. conta \in [Contas -> Senha \cup {Nada}] /\ SemContas
  BY <1>1 DEF Contas, SemContas
<1>4. arq \in TipoArquivos /\ ~arq.ini
  BY <1>1 DEF InitArq, TipoArquivos
<1>5. Instalando(script) /\ Recuperando(script)
  BY <1>1, ScriptParado
  DEF Instalando, Recuperando, PassosExaminados, PassosDoHub, PassosMigrados, PassosProntos
<1>6. TiposInstalacao
  BY <1>1, <1>2, <1>3, <1>4, ScriptParado DEF TiposInstalacao, TipoArquivos
<1> QED
  BY <1>1, <1>2, <1>3, <1>4, <1>5, <1>6
  DEF InvInstalacao, ServicosReais, SegredosConferem, RestauradoFora

LEMMA PassoInstalacao == InvInstalacao /\ [NextInstalacao]_varsInstalacao => InvInstalacao'
<1> SUFFICES ASSUME InvInstalacao, [NextInstalacao]_varsInstalacao PROVE InvInstalacao'
  OBVIOUS
<1>1. ASSUME NEW r \in BOOLEAN, Instalar(r) PROVE InvInstalacao'
  BY <1>1, PassoInstalar
<1>2. ASSUME NEW r \in BOOLEAN, PrepararSetup(r) PROVE InvInstalacao'
  BY <1>2, PassoDosServicos
<1>3. CASE RemoverServicos
  BY <1>3, PassoDosServicos
<1>4. CASE PrepararRecuperacao
  BY <1>4, PassoRecuperacao
<1>5. CASE Preflight \/ EscreverEnv \/ EscreverIni
  BY <1>5, PassoPreflight, PassoEnv, PassoIni
<1>6. CASE InicializarMySql \/ EscreverAdmin \/ EscolherRaiz
  BY <1>6, PassoInicializar, PassoAdmin, PassoEscolherRaiz
<1>7. CASE RegistrarMySql \/ IniciarMySql \/ RegistrarHub \/ ArrancarHub
  BY <1>7, PassoServicosInstalados
<1>8. CASE ProtegerRaiz \/ PrepararBanco \/ CriarContaCopia
  BY <1>8, PassoContas, PassoCopiaConta
<1>9. CASE VerificarDestino \/ PrepararInstalacao \/ Conferir \/ VerificarRecuperacao \/ Recuperar
  BY <1>9, PassoExige
<1>10. CASE Migrar \/ Importar \/ EsvaziarBanco
  BY <1>10, PassoTabelas
<1>11. CASE Liberar \/ Purgar
  BY <1>11, PassoLiberar, PassoPurgar
<1>12. CASE IniciarServico \/ Guardar \/ Operar \/ PararServico
  BY <1>12, PassoServico
<1>13. CASE Desinstalar("pararHub") \/ FecharScript \/ UNCHANGED varsInstalacao
  BY <1>13, PassoFechar
<1> QED
  BY <1>1, <1>2, <1>3, <1>4, <1>5, <1>6, <1>7, <1>8, <1>9, <1>10, <1>11, <1>12, <1>13
  DEF NextInstalacao

\* From the moment the recovery imports until the support releases what it
\* brought, no process of the hub has passed its guard: the marker, the stopped
\* hub and the disabled service (Assert-HubRecoveryStopped, mysql-recovery.ps1),
\* also when the files are purged meanwhile.
THEOREM ImportaSozinhaSempre == SpecInstalacao => []ImportaSozinha
<1>1. InvInstalacao => ImportaSozinha
  BY DEF InvInstalacao, Recuperando, RestauradoFora, HubFora, ImportaSozinha, No
<1> QED
  BY <1>1, InicioInstalacao, PassoInstalacao, PTL DEF SpecInstalacao

\* Whatever was interrupted, removed, purged and run again, a secret that MySQL
\* knows is the one its client reads, an installation that says it is ready has
\* what the hub needs and a root that its file opens (which may have no password,
\* when the file was left without one), and the hub never works on what a recovery is bringing
\* (install-hub.ps1, purge-data.ps1, mysql-recovery.ps1, recovery_guard.py).
THEOREM InstalacaoSeguraSempre == SpecInstalacao => []InstalacaoSegura
<1>1. InvInstalacao => InstalacaoCoerente
  <2> SUFFICES ASSUME InvInstalacao PROVE InstalacaoCoerente
    OBVIOUS
  <2>1. script.passo = "pronta" =>
          /\ sistema = "pronto" /\ arq.ini /\ conta["hub"] = arq.env
          /\ arq.admin # Nada /\ conta["root"] = SenhaDoArquivo
          /\ tabelas /\ svc.hub # "nenhum" /\ svc.inicio = "auto"
    BY DEF InvInstalacao, Instalando, SenhaDoArquivo, PassosExaminados, PassosDoHub, PassosMigrados, PassosProntos
  <2> QED
    BY <2>1 DEF InvInstalacao, SegredosConferem, InstalacaoCoerente, No, SenhaDoArquivo
<1>2. InvInstalacao => ImportaSozinha
  BY DEF InvInstalacao, Recuperando, RestauradoFora, HubFora, ImportaSozinha, No
<1> QED
  BY <1>1, <1>2, InicioInstalacao, PassoInstalacao, PTL DEF SpecInstalacao, InstalacaoSegura

-----------------------------------------------------------------------------
(* Retrato: what is in use is of the last import, and the payment keeps the   *)
(* next one from being committed                                              *)

RegistroR == [versao : Nat, ativo : BOOLEAN, parcelado : BOOLEAN]
ParcialR(T) == UNION {[S -> T] : S \in SUBSET LinhasR}
EscritoR == ParcialR(RegistroR)
CopiaR == ParcialR(Nat)

TipoImport ==
  [passo : {"prazos", "formas", "condicoes ausentes", "prazos ausentes", "formas ausentes", "hub"},
   cadastro : Cadastros, escrito : EscritoR]
TipoTx ==
  [passo : {"forma", "parcelas", "prazo", "parcelas do prazo", "condicao", "gravar"},
   oper : OperR, forma : FormaR, prazo : PrazoR \cup {SemPrazo}, copia : CopiaR]
TipoPago == [passo : {"pago"}, forma : FormaR, prazo : PrazoR \cup {SemPrazo}, copia : CopiaR]

TiposRetrato ==
  /\ versaoR \in Nat
  /\ linhaR \in [LinhasR -> RegistroR]
  /\ impR \in TipoImport \cup {ParadoR}
  /\ txR \in TipoTx \cup {ParadoR}
  /\ pagoR \in [OperR -> TipoPago \cup {ParadoR}]

\* a row in use, and the instalments it goes with, are of the last import
Vigentes ==
  /\ \A r \in Bloqueaveis : linhaR[r].ativo => linhaR[r].versao = versaoR
  /\ \A f \in FormaR : linhaR[Forma(f)].ativo => linhaR[ParcelasForma(f)].versao = versaoR
  /\ \A p \in PrazoR : linhaR[Prazo(p)].ativo => linhaR[ParcelasPrazo(p)].versao = versaoR

\* what an import wrote is of the next version, and what it has not written of the
\* kinds it has been through is not in use
EscritoVigente(e) ==
  /\ \A r \in DOMAIN e : e[r].ativo => e[r].versao = versaoR + 1
  /\ \A f \in FormaR : Forma(f) \in DOMAIN e /\ e[Forma(f)].ativo =>
       ParcelasForma(f) \in DOMAIN e /\ e[ParcelasForma(f)].versao = versaoR + 1
  /\ \A p \in PrazoR : Prazo(p) \in DOMAIN e /\ e[Prazo(p)].ativo =>
       ParcelasPrazo(p) \in DOMAIN e /\ e[ParcelasPrazo(p)].versao = versaoR + 1

Passadas(ps) ==
  (IF ps \in {"prazos ausentes", "formas ausentes", "hub"}
   THEN CondicoesR ELSE {})
  \cup (IF ps \in {"formas ausentes", "hub"} THEN PrazosR ELSE {})
  \cup (IF ps = "hub" THEN FormasR ELSE {})

ImportVigente ==
  impR # ParadoR =>
    /\ EscritoVigente(impR.escrito)
    /\ \A r \in Passadas(impR.passo) : linhaR[r].ativo => r \in DOMAIN impR.escrito

\* what the payment copied is of the version in force, and so is what it will copy
CopiaVigente ==
  txR # ParadoR =>
    /\ \A r \in DOMAIN txR.copia : txR.copia[r] = versaoR
    /\ txR.passo = "parcelas" => linhaR[Forma(txR.forma)].ativo
    /\ txR.passo = "parcelas do prazo" => linhaR[Prazo(txR.prazo)].ativo
    /\ txR.passo \in {"prazo", "parcelas do prazo", "condicao"} => txR.prazo \in PrazoR

InvRetrato == TiposRetrato /\ Vigentes /\ ImportVigente /\ CopiaVigente

-----------------------------------------------------------------------------
LEMMA LinhasDistintas ==
  /\ \A f, g, p : Forma(f) # ParcelasForma(g) /\ Forma(f) # Prazo(p) /\ Forma(f) # ParcelasPrazo(p)
  /\ \A p, q, f : Prazo(p) # ParcelasPrazo(q) /\ Prazo(p) # ParcelasForma(f)
  /\ \A f, g, p : Condicao(f, p) # Forma(g) /\ Condicao(f, p) # Prazo(g)
  /\ \A f, g : Forma(f) = Forma(g) => f = g
  /\ \A p, q : Prazo(p) = Prazo(q) => p = q
BY DEF Forma, ParcelasForma, Prazo, ParcelasPrazo, Condicao

LEMMA LinhasTipo ==
  /\ \A f \in FormaR : Forma(f) \in LinhasR /\ ParcelasForma(f) \in LinhasR /\ Forma(f) \in Bloqueaveis
  /\ \A p \in PrazoR : Prazo(p) \in LinhasR /\ ParcelasPrazo(p) \in LinhasR /\ Prazo(p) \in Bloqueaveis
  /\ \A f \in FormaR, p \in PrazoR : Condicao(f, p) \in LinhasR /\ Condicao(f, p) \in Bloqueaveis
  /\ Bloqueaveis \subseteq LinhasR
<1>1. ASSUME NEW f \in FormaR
      PROVE  Forma(f) \in LinhasR /\ ParcelasForma(f) \in LinhasR /\ Forma(f) \in Bloqueaveis
  <2>1. Forma(f) \in DaForma(f) /\ ParcelasForma(f) \in DaForma(f)
    BY DEF DaForma
  <2>2. DaForma(f) \subseteq UNION {DaForma(g) : g \in FormaR}
    OBVIOUS
  <2>3. Forma(f) \in {Forma(g) : g \in FormaR}
    OBVIOUS
  <2> QED
    BY <2>1, <2>2, <2>3 DEF LinhasR, Bloqueaveis, FormasR, PrazosR, CondicoesR
<1>2. ASSUME NEW p \in PrazoR
      PROVE  Prazo(p) \in LinhasR /\ ParcelasPrazo(p) \in LinhasR /\ Prazo(p) \in Bloqueaveis
  <2>1. Prazo(p) \in DoPrazo(p) /\ ParcelasPrazo(p) \in DoPrazo(p)
    BY DEF DoPrazo
  <2>2. DoPrazo(p) \subseteq UNION {DoPrazo(q) : q \in PrazoR}
    OBVIOUS
  <2>3. Prazo(p) \in {Prazo(q) : q \in PrazoR}
    OBVIOUS
  <2> QED
    BY <2>1, <2>2, <2>3 DEF LinhasR, Bloqueaveis, FormasR, PrazosR, CondicoesR
<1>3. ASSUME NEW f \in FormaR, NEW p \in PrazoR
      PROVE  Condicao(f, p) \in LinhasR /\ Condicao(f, p) \in Bloqueaveis
  <2>1. Condicao(f, p) \in {Condicao(g, q) : g \in FormaR, q \in PrazoR}
    OBVIOUS
  <2> QED
    BY <2>1 DEF LinhasR, Bloqueaveis, FormasR, PrazosR, CondicoesR
<1>4. ASSUME NEW r \in Bloqueaveis
      PROVE  \/ \E f \in FormaR : r = Forma(f)
             \/ \E p \in PrazoR : r = Prazo(p)
             \/ \E f \in FormaR, p \in PrazoR : r = Condicao(f, p)
  <2>1. \/ r \in {Forma(f) : f \in FormaR} \/ r \in {Prazo(p) : p \in PrazoR}
        \/ r \in {Condicao(f, p) : f \in FormaR, p \in PrazoR}
    BY DEF Bloqueaveis, FormasR, PrazosR, CondicoesR
  <2> QED
    BY <2>1
<1> QED
  BY <1>1, <1>2, <1>3, <1>4

LEMMA ParadoDistinto ==
  /\ ParadoR.passo = "livre" /\ ParadoR \notin TipoTx /\ ParadoR \notin TipoImport
  /\ \A t \in TipoTx : t # ParadoR
  /\ \A i \in TipoImport : i # ParadoR
<1>1. ParadoR.passo = "livre"
  BY DEF ParadoR
<1>2. \A t \in TipoTx : t.passo # "livre"
  BY DEF TipoTx
<1>3. \A i \in TipoImport : i.passo # "livre"
  BY DEF TipoImport
<1> QED
  BY <1>1, <1>2, <1>3

LEMMA SobreRTipo ==
  ASSUME NEW T, NEW e \in ParcialR(T), NEW n \in ParcialR(T), NEW c, c = SobreR(e, n)
  PROVE  /\ c \in ParcialR(T)
         /\ DOMAIN c = DOMAIN e \cup DOMAIN n
         /\ \A r \in DOMAIN c : c[r] = IF r \in DOMAIN n THEN n[r] ELSE e[r]
<1>1. PICK D : D \in SUBSET LinhasR /\ e \in [D -> T]
  BY DEF ParcialR
<1>2. PICK F : F \in SUBSET LinhasR /\ n \in [F -> T]
  BY DEF ParcialR
<1>3. c = [r \in D \cup F |-> IF r \in F THEN n[r] ELSE e[r]]
  BY <1>1, <1>2 DEF SobreR
<1>4. c \in [D \cup F -> T]
  BY <1>1, <1>2, <1>3
<1> QED
  BY <1>1, <1>2, <1>3, <1>4 DEF ParcialR

LEMMA InicioRetrato == InitRetrato => InvRetrato
<1> SUFFICES ASSUME InitRetrato PROVE InvRetrato
  OBVIOUS
<1>1. /\ versaoR = 0 /\ linhaR = [r \in LinhasR |-> SemLinha] /\ impR = ParadoR /\ txR = ParadoR
      /\ pagoR = [o \in OperR |-> ParadoR]
  BY DEF InitRetrato
<1>2. SemLinha \in RegistroR /\ ~SemLinha.ativo
  BY DEF SemLinha, RegistroR
<1>3. TiposRetrato
  BY <1>1, <1>2 DEF TiposRetrato
<1>4. Vigentes
  BY <1>1, <1>2, LinhasTipo DEF Vigentes
<1> QED
  BY <1>1, <1>3, <1>4 DEF InvRetrato, ImportVigente, CopiaVigente

\* a step of the payment, which writes nothing that the others read
LEMMA SoPagamento ==
  ASSUME InvRetrato, UNCHANGED <<versaoR, linhaR, impR>>,
         txR' \in TipoTx \cup {ParadoR}, pagoR' \in [OperR -> TipoPago \cup {ParadoR}],
         CopiaVigente'
  PROVE  InvRetrato'
<1>1. TiposRetrato'
  BY DEF InvRetrato, TiposRetrato
<1>2. Vigentes' /\ ImportVigente'
  BY DEF InvRetrato, Vigentes, ImportVigente, EscritoVigente
<1> QED
  BY <1>1, <1>2 DEF InvRetrato

\* copies a row of the version in force
LEMMA SoCopia ==
  ASSUME InvRetrato, txR \in TipoTx, NEW r \in LinhasR, linhaR[r].versao = versaoR,
         NEW s \in {"parcelas", "prazo", "parcelas do prazo", "condicao", "gravar"},
         Copiar(r, s),
         s = "parcelas" => linhaR[Forma(txR.forma)].ativo,
         s = "parcelas do prazo" => linhaR[Prazo(txR.prazo)].ativo,
         s \in {"prazo", "parcelas do prazo", "condicao"} => txR.prazo \in PrazoR
  PROVE  InvRetrato'
<1>1. PICK n : n = [x \in {r} |-> linhaR[x].versao]
  OBVIOUS
<1>2. n \in [{r} -> Nat] /\ n[r] = versaoR
  BY <1>1 DEF InvRetrato, TiposRetrato
<1>5. PICK k : k = txR.copia
  OBVIOUS
<1>3. PICK c : c = SobreR(k, n)
  OBVIOUS
<1>4. txR.copia \in CopiaR /\ n \in CopiaR /\ DOMAIN n = {r}
  <2>1. txR.copia \in CopiaR
    BY DEF TipoTx
  <2>2. {r} \in SUBSET LinhasR
    OBVIOUS
  <2>3. n \in CopiaR
    BY <1>2, <2>2 DEF CopiaR, ParcialR
  <2> QED
    BY <1>2, <2>1, <2>3
<1>6. /\ c \in CopiaR /\ \A x \in DOMAIN c : x # r => x \in DOMAIN k /\ c[x] = k[x]
      /\ r \in DOMAIN c => c[r] = n[r]
  <2>1. PICK D : D \in SUBSET LinhasR /\ k \in [D -> Nat]
    BY <1>4, <1>5 DEF CopiaR, ParcialR
  <2>2. c = [x \in D \cup {r} |-> IF x \in {r} THEN n[x] ELSE k[x]]
    BY <1>3, <1>4, <2>1 DEF SobreR
  <2>3. c \in [D \cup {r} -> Nat] /\ D \cup {r} \in SUBSET LinhasR
    BY <1>2, <2>1, <2>2
  <2>4. c \in CopiaR
    BY <2>3 DEF CopiaR, ParcialR
  <2> QED
    BY <2>1, <2>2, <2>4
<1>7. PICK t : t = [txR EXCEPT !.passo = s, !.copia = c]
  OBVIOUS
<1>8. txR' = t /\ UNCHANGED <<versaoR, linhaR, impR, pagoR>>
  BY <1>1, <1>3, <1>5, <1>7 DEF Copiar
<1>9. t \in TipoTx /\ t.passo = s /\ t.forma = txR.forma /\ t.prazo = txR.prazo /\ t.copia = c
  BY <1>6, <1>7 DEF TipoTx
<1>10. \A x \in DOMAIN c : c[x] = versaoR
  BY <1>2, <1>5, <1>6, ParadoDistinto DEF InvRetrato, CopiaVigente
<1>11. CopiaVigente'
  BY <1>8, <1>9, <1>10 DEF CopiaVigente
<1> QED
  BY <1>8, <1>9, <1>11, SoPagamento DEF InvRetrato, TiposRetrato

\* a step of the import, which the others see only once it is committed
LEMMA SoImport ==
  ASSUME InvRetrato, UNCHANGED <<versaoR, linhaR, txR, pagoR>>,
         impR' \in TipoImport \cup {ParadoR}, ImportVigente'
  PROVE  InvRetrato'
<1>1. TiposRetrato'
  BY DEF InvRetrato, TiposRetrato
<1>2. Vigentes' /\ CopiaVigente'
  BY DEF InvRetrato, Vigentes, CopiaVigente
<1> QED
  BY <1>1, <1>2 DEF InvRetrato

\* what an import writes leaves nothing in use without its instalments
LEMMA SoEscrita ==
  ASSUME InvRetrato, impR \in TipoImport, NEW n \in EscritoR, Escrever(n),
         \A r \in DOMAIN n : n[r].ativo => n[r].versao = versaoR + 1,
         \A f \in FormaR : Forma(f) \in DOMAIN n /\ n[Forma(f)].ativo => ParcelasForma(f) \in DOMAIN n,
         \A f \in FormaR : ParcelasForma(f) \in DOMAIN n => n[ParcelasForma(f)].versao = versaoR + 1,
         \A p \in PrazoR : Prazo(p) \in DOMAIN n /\ n[Prazo(p)].ativo => ParcelasPrazo(p) \in DOMAIN n,
         \A p \in PrazoR : ParcelasPrazo(p) \in DOMAIN n => n[ParcelasPrazo(p)].versao = versaoR + 1
  PROVE  InvRetrato'
<1>1. PICK k : k = impR.escrito
  OBVIOUS
<1>2. PICK c : c = SobreR(k, n)
  OBVIOUS
<1>3. PICK t : t = [impR EXCEPT !.escrito = c]
  OBVIOUS
<1>4. impR' = t /\ UNCHANGED <<versaoR, linhaR, txR, pagoR>>
  BY <1>1, <1>2, <1>3 DEF Escrever, Visivel
<1>5. /\ c \in EscritoR /\ DOMAIN c = DOMAIN k \cup DOMAIN n
      /\ \A r \in DOMAIN c : c[r] = IF r \in DOMAIN n THEN n[r] ELSE k[r]
  <2>1. k \in EscritoR
    BY <1>1 DEF TipoImport
  <2>2. PICK D : D \in SUBSET LinhasR /\ k \in [D -> RegistroR]
    BY <2>1 DEF EscritoR, ParcialR
  <2>3. PICK F : F \in SUBSET LinhasR /\ n \in [F -> RegistroR]
    BY DEF EscritoR, ParcialR
  <2>4. c = [r \in D \cup F |-> IF r \in F THEN n[r] ELSE k[r]]
    BY <1>2, <2>2, <2>3 DEF SobreR
  <2>5. c \in [D \cup F -> RegistroR] /\ D \cup F \in SUBSET LinhasR
    BY <2>2, <2>3, <2>4
  <2>6. c \in EscritoR
    BY <2>5 DEF EscritoR, ParcialR
  <2> QED
    BY <2>2, <2>3, <2>4, <2>6
<1>6. t \in TipoImport /\ t.passo = impR.passo /\ t.escrito = c
  BY <1>3, <1>5 DEF TipoImport
<1>7. EscritoVigente(k) /\ \A r \in Passadas(impR.passo) : linhaR[r].ativo => r \in DOMAIN k
  BY <1>1, ParadoDistinto DEF InvRetrato, ImportVigente
<1>8. EscritoVigente(c)
  <2>1. \A r \in DOMAIN c : c[r].ativo => c[r].versao = versaoR + 1
    BY <1>5, <1>7 DEF EscritoVigente
  <2>2. ASSUME NEW f \in FormaR, Forma(f) \in DOMAIN c, c[Forma(f)].ativo
        PROVE  ParcelasForma(f) \in DOMAIN c /\ c[ParcelasForma(f)].versao = versaoR + 1
    <3>1. ParcelasForma(f) \in DOMAIN n \/ (ParcelasForma(f) \in DOMAIN k /\ k[ParcelasForma(f)].versao = versaoR + 1)
      BY <1>5, <1>7, <2>2 DEF EscritoVigente
    <3> QED
      BY <1>5, <3>1
  <2>3. ASSUME NEW p \in PrazoR, Prazo(p) \in DOMAIN c, c[Prazo(p)].ativo
        PROVE  ParcelasPrazo(p) \in DOMAIN c /\ c[ParcelasPrazo(p)].versao = versaoR + 1
    <3>1. ParcelasPrazo(p) \in DOMAIN n \/ (ParcelasPrazo(p) \in DOMAIN k /\ k[ParcelasPrazo(p)].versao = versaoR + 1)
      BY <1>5, <1>7, <2>3 DEF EscritoVigente
    <3> QED
      BY <1>5, <3>1
  <2> QED
    BY <2>1, <2>2, <2>3 DEF EscritoVigente
<1>9. ImportVigente'
  <2>1. EscritoVigente(c)'
    BY <1>4, <1>8 DEF EscritoVigente
  <2>2. \A r \in Passadas(t.passo) : linhaR[r].ativo => r \in DOMAIN c
    BY <1>5, <1>6, <1>7
  <2> QED
    BY <1>4, <1>6, <2>1, <2>2 DEF ImportVigente, EscritoVigente
<1> QED
  BY <1>4, <1>6, <1>9, SoImport

\* what the answer brings is in use and of the next version
LEMMA PresenteTipo ==
  ASSUME TiposRetrato, NEW c, NEW r
  PROVE  /\ Presente(c, r) \in RegistroR
         /\ Presente(c, r).versao = versaoR + 1
BY DEF Presente, RegistroR, TiposRetrato

LEMMA ForaDoPasso ==
  ASSUME InvRetrato
  PROVE  /\ impR # ParadoR => impR \in TipoImport
         /\ impR.passo # "livre" => impR # ParadoR
BY ParadoDistinto DEF InvRetrato, TiposRetrato

LEMMA PassoImportarPrazo ==
  ASSUME InvRetrato, NEW p \in PrazoR, ImportarPrazo(p)
  PROVE  InvRetrato'
<1>1. impR \in TipoImport
  BY ForaDoPasso DEF ImportarPrazo
<1>2. PICK c : c = impR.cadastro
  OBVIOUS
<1>3. PICK n : n = [r \in DoPrazo(p) |-> Presente(c, r)]
  OBVIOUS
<1>4. Escrever(n)
  BY <1>2, <1>3 DEF ImportarPrazo
<1>5. DoPrazo(p) \in SUBSET LinhasR
  BY LinhasTipo DEF DoPrazo
<1>6. /\ n \in [DoPrazo(p) -> RegistroR]
      /\ \A r \in DOMAIN n : n[r].versao = versaoR + 1
  BY <1>3, PresenteTipo DEF InvRetrato
<1>7. n \in EscritoR /\ DOMAIN n = DoPrazo(p)
  BY <1>5, <1>6 DEF EscritoR, ParcialR
<1>8. \A f \in FormaR : Forma(f) \notin DoPrazo(p)
  BY LinhasDistintas DEF DoPrazo
<1>9. \A q \in PrazoR : Prazo(q) \in DoPrazo(p) => q = p
  BY LinhasDistintas DEF DoPrazo
<1>10. ParcelasPrazo(p) \in DoPrazo(p)
  BY DEF DoPrazo
<1> QED
  BY <1>1, <1>4, <1>6, <1>7, <1>8, <1>9, <1>10, SoEscrita

LEMMA PassoImportarForma ==
  ASSUME InvRetrato, NEW f \in FormaR, ImportarForma(f)
  PROVE  InvRetrato'
<1>1. impR \in TipoImport
  BY ForaDoPasso DEF ImportarForma
<1>2. PICK c : c = impR.cadastro
  OBVIOUS
<1>3. PICK C : C = {Condicao(f, p) : p \in {q \in PrazoR : <<f, q>> \in c.condicoes}}
  OBVIOUS
<1>4. PICK L : L = DaForma(f) \cup C
  OBVIOUS
<1>5. PICK n : n = [r \in L |-> Presente(c, r)]
  OBVIOUS
<1>6. Escrever(n)
  BY <1>2, <1>3, <1>4, <1>5 DEF ImportarForma
<1>7. L \in SUBSET LinhasR
  BY <1>3, <1>4, LinhasTipo DEF DaForma
<1>8. /\ n \in [L -> RegistroR]
      /\ \A r \in DOMAIN n : n[r].versao = versaoR + 1
  BY <1>5, PresenteTipo DEF InvRetrato
<1>9. n \in EscritoR /\ DOMAIN n = L
  BY <1>7, <1>8 DEF EscritoR, ParcialR
<1>10. \A x \in C : \E p \in PrazoR : x = Condicao(f, p)
  BY <1>3
<1>11. \A p \in PrazoR : Prazo(p) \notin L
  BY <1>4, <1>10, LinhasDistintas DEF DaForma
<1>12. \A g \in FormaR : Forma(g) \in L => g = f
  BY <1>4, <1>10, LinhasDistintas DEF DaForma
<1>13. ParcelasForma(f) \in L
  BY <1>4 DEF DaForma
<1> QED
  BY <1>1, <1>6, <1>8, <1>9, <1>11, <1>12, <1>13, SoEscrita

LEMMA AusentesTipo ==
  ASSUME InvRetrato
  PROVE  AusentesDoPasso \subseteq Bloqueaveis \ DaImportacao
<1>1. ASSUME NEW L \in SUBSET Bloqueaveis
      PROVE  Ausentes(L) \subseteq Bloqueaveis \ DaImportacao
  BY DEF Ausentes
<1>2. /\ Ausentes(CondicoesR) \subseteq Bloqueaveis \ DaImportacao
      /\ Ausentes(PrazosR) \subseteq Bloqueaveis \ DaImportacao
      /\ Ausentes(FormasR) \subseteq Bloqueaveis \ DaImportacao
  BY <1>1 DEF Bloqueaveis
<1> QED
  BY <1>2 DEF AusentesDoPasso

LEMMA PassoInativar ==
  ASSUME InvRetrato, InativarAusentes
  PROVE  InvRetrato'
<1>1. impR \in TipoImport
  BY ForaDoPasso DEF InativarAusentes
<1>2. PICK A : A = AusentesDoPasso
  OBVIOUS
<1>3. PICK n : n = [r \in A |-> [VistaR(r) EXCEPT !.ativo = FALSE]]
  OBVIOUS
<1>4. Escrever(n)
  BY <1>2, <1>3 DEF InativarAusentes
<1>5. A \subseteq LinhasR /\ A \subseteq Bloqueaveis /\ \A r \in A : VistaR(r) = linhaR[r]
  BY <1>2, AusentesTipo, LinhasTipo DEF VistaR
<1>6. \A r \in A : linhaR[r] \in RegistroR
  BY <1>5 DEF InvRetrato, TiposRetrato
<1>7. n \in [A -> RegistroR] /\ \A r \in A : ~n[r].ativo
  BY <1>3, <1>5, <1>6 DEF RegistroR
<1>8. n \in EscritoR /\ DOMAIN n = A
  BY <1>5, <1>7 DEF EscritoR, ParcialR
<1>9. (\A f \in FormaR : ParcelasForma(f) \notin A) /\ \A p \in PrazoR : ParcelasPrazo(p) \notin A
  <2>1. \A r \in Bloqueaveis : \/ \E f \in FormaR : r = Forma(f)
                               \/ \E p \in PrazoR : r = Prazo(p)
                               \/ \E f \in FormaR, p \in PrazoR : r = Condicao(f, p)
    BY DEF Bloqueaveis, FormasR, PrazosR, CondicoesR
  <2>2. \A f, g, p : ParcelasForma(f) # Forma(g) /\ ParcelasForma(f) # Prazo(p) /\ ParcelasForma(f) # Condicao(g, p)
    BY DEF ParcelasForma, Forma, Prazo, Condicao
  <2>3. \A q, g, p : ParcelasPrazo(q) # Forma(g) /\ ParcelasPrazo(q) # Prazo(p) /\ ParcelasPrazo(q) # Condicao(g, p)
    BY DEF ParcelasPrazo, Forma, Prazo, Condicao
  <2> QED
    BY <1>5, <2>1, <2>2, <2>3
<1> QED
  BY <1>1, <1>4, <1>7, <1>8, <1>9, SoEscrita

LEMMA PassoIniciarImport ==
  ASSUME InvRetrato, NEW c \in Cadastros, IniciarImportR(c)
  PROVE  InvRetrato'
<1>1. PICK n : n = NadaCopiado
  OBVIOUS
<1>2. n \in [{} -> RegistroR] /\ DOMAIN n = {}
  BY <1>1 DEF NadaCopiado
<1>3. n \in EscritoR
  BY <1>2 DEF EscritoR, ParcialR
<1>4. PICK t : t = [passo |-> "prazos", cadastro |-> c, escrito |-> n]
  OBVIOUS
<1>5. t \in TipoImport /\ t.escrito = n /\ t.passo = "prazos"
  BY <1>3, <1>4 DEF TipoImport
<1>6. impR' = t /\ UNCHANGED <<versaoR, linhaR, txR, pagoR>>
  BY <1>1, <1>4 DEF IniciarImportR
<1>7. Passadas("prazos") = {}
  BY DEF Passadas
<1>8. ImportVigente'
  BY <1>2, <1>5, <1>6, <1>7 DEF ImportVigente, EscritoVigente
<1> QED
  BY <1>5, <1>6, <1>8, SoImport

LEMMA PassoSeguirImport ==
  ASSUME InvRetrato, SeguirImport
  PROVE  InvRetrato'
<1>1. impR \in TipoImport /\ impR # ParadoR
  <2>1. impR.passo # "livre"
    BY DEF SeguirImport, SeguinteR
  <2> QED
    BY <2>1, ForaDoPasso
<1>2. PICK t : t = [impR EXCEPT !.passo = SeguinteR[@]]
  OBVIOUS
<1>3. impR' = t /\ UNCHANGED <<versaoR, linhaR, txR, pagoR>>
  BY <1>2 DEF SeguirImport
<1>4. t.escrito = impR.escrito /\ t.cadastro = impR.cadastro /\ t.passo = SeguinteR[impR.passo]
  BY <1>1, <1>2 DEF TipoImport
<1>5. \/ t.passo \in {"formas", "condicoes ausentes"}
      \/ impR.passo = "condicoes ausentes" /\ t.passo = "prazos ausentes"
      \/ impR.passo = "prazos ausentes" /\ t.passo = "formas ausentes"
      \/ impR.passo = "formas ausentes" /\ t.passo = "hub"
  BY <1>4 DEF SeguirImport, SeguinteR
<1>6. t \in TipoImport
  BY <1>1, <1>2, <1>5 DEF TipoImport
<1>7. EscritoVigente(impR.escrito) /\ \A r \in Passadas(impR.passo) : linhaR[r].ativo => r \in DOMAIN impR.escrito
  BY <1>1 DEF InvRetrato, ImportVigente
\* the step that ends has nothing left to write
<1>8. ASSUME NEW L, AusentesDoPasso = Ausentes(L), NEW r \in L, linhaR[r].ativo
      PROVE  r \in DOMAIN impR.escrito
  <2>1. Ausentes(L) = {}
    BY <1>8 DEF SeguirImport
  <2>2. ~(VistaR(r).ativo /\ r \notin DaImportacao)
    BY <2>1 DEF Ausentes
  <2>3. DaImportacao = DOMAIN impR.escrito
    BY <1>1 DEF DaImportacao
  <2> QED
    BY <1>8, <2>2, <2>3 DEF VistaR
<1>9. \A r \in Passadas(t.passo) : linhaR[r].ativo => r \in DOMAIN t.escrito
  <2>1. CASE t.passo \in {"formas", "condicoes ausentes"}
    BY <2>1 DEF Passadas
  <2>2. CASE impR.passo = "condicoes ausentes" /\ t.passo = "prazos ausentes"
    <3>1. Passadas(t.passo) = CondicoesR
      BY <2>2 DEF Passadas
    <3>2. AusentesDoPasso = Ausentes(CondicoesR)
      BY <2>2 DEF AusentesDoPasso
    <3> QED
      BY <1>4, <1>8, <3>1, <3>2
  <2>3. CASE impR.passo = "prazos ausentes" /\ t.passo = "formas ausentes"
    <3>1. Passadas(t.passo) = Passadas(impR.passo) \cup PrazosR
      BY <2>3 DEF Passadas
    <3>2. AusentesDoPasso = Ausentes(PrazosR)
      BY <2>3 DEF AusentesDoPasso
    <3> QED
      BY <1>4, <1>7, <1>8, <3>1, <3>2
  <2>4. CASE impR.passo = "formas ausentes" /\ t.passo = "hub"
    <3>1. Passadas(t.passo) = Passadas(impR.passo) \cup FormasR
      BY <2>4 DEF Passadas
    <3>2. AusentesDoPasso = Ausentes(FormasR)
      BY <2>4 DEF AusentesDoPasso
    <3> QED
      BY <1>4, <1>7, <1>8, <3>1, <3>2
  <2> QED
    BY <1>5, <2>1, <2>2, <2>3, <2>4
<1>10. ImportVigente'
  <2>1. EscritoVigente(t.escrito)'
    BY <1>2, <1>3, <1>4, <1>7 DEF EscritoVigente
  <2> QED
    BY <1>3, <1>4, <1>7, <1>9 DEF ImportVigente, EscritoVigente
<1> QED
  BY <1>3, <1>6, <1>10, SoImport

LEMMA PassoConfirmarImport ==
  ASSUME InvRetrato, ConfirmarImport
  PROVE  InvRetrato'
<1>1. impR \in TipoImport /\ impR # ParadoR /\ impR.passo = "hub"
  BY ForaDoPasso DEF ConfirmarImport
<1>2. PICK e : e = impR.escrito
  OBVIOUS
<1>3. PICK l : l = [r \in LinhasR |-> VistaR(r)]
  OBVIOUS
<1>4. /\ linhaR' = l /\ versaoR' = versaoR + 1 /\ impR' = ParadoR /\ txR' = txR /\ txR = ParadoR
      /\ pagoR' = pagoR
  BY <1>3 DEF ConfirmarImport, HubLivre
<1>5. e \in EscritoR /\ DaImportacao = DOMAIN e
  BY <1>1, <1>2 DEF TipoImport, DaImportacao
<1>6. PICK D : D \in SUBSET LinhasR /\ e \in [D -> RegistroR]
  BY <1>5 DEF EscritoR, ParcialR
<1>7. l = [r \in LinhasR |-> IF r \in D THEN e[r] ELSE linhaR[r]]
  BY <1>2, <1>3, <1>5, <1>6 DEF VistaR
<1>8. l \in [LinhasR -> RegistroR]
  BY <1>6, <1>7 DEF InvRetrato, TiposRetrato
<1>9. EscritoVigente(e) /\ \A r \in Bloqueaveis : linhaR[r].ativo => r \in DOMAIN e
  <2>1. Passadas("hub") = Bloqueaveis
    BY DEF Passadas, Bloqueaveis
  <2> QED
    BY <1>1, <1>2, <2>1 DEF InvRetrato, ImportVigente
<1>10. \A r \in Bloqueaveis : l[r].ativo => r \in D /\ l[r] = e[r]
  BY <1>6, <1>7, <1>9, LinhasTipo
<1>11. TiposRetrato'
  BY <1>4, <1>8 DEF InvRetrato, TiposRetrato
<1>12. Vigentes'
  <2>1. \A r \in Bloqueaveis : l[r].ativo => l[r].versao = versaoR + 1
    BY <1>6, <1>9, <1>10 DEF EscritoVigente
  <2>2. \A f \in FormaR : l[Forma(f)].ativo => l[ParcelasForma(f)].versao = versaoR + 1
    BY <1>6, <1>7, <1>9, <1>10, LinhasTipo DEF EscritoVigente
  <2>3. \A p \in PrazoR : l[Prazo(p)].ativo => l[ParcelasPrazo(p)].versao = versaoR + 1
    BY <1>6, <1>7, <1>9, <1>10, LinhasTipo DEF EscritoVigente
  <2> QED
    BY <1>4, <2>1, <2>2, <2>3 DEF Vigentes
<1> QED
  BY <1>4, <1>11, <1>12 DEF InvRetrato, ImportVigente, CopiaVigente

LEMMA PassoDesfazerImport ==
  ASSUME InvRetrato, DesfazerImport
  PROVE  InvRetrato'
BY SoImport DEF DesfazerImport, ImportVigente

LEMMA PassoListar ==
  ASSUME InvRetrato, ListarFormas \/ ListarCondicoes
  PROVE  InvRetrato'
<1>1. UNCHANGED <<versaoR, linhaR, impR, txR, pagoR>>
  BY DEF ListarFormas, ListarCondicoes
<1>2. CopiaVigente'
  BY <1>1 DEF InvRetrato, CopiaVigente
<1> QED
  BY <1>1, <1>2, SoPagamento DEF InvRetrato, TiposRetrato

LEMMA PassoPedir ==
  ASSUME InvRetrato, NEW o \in OperR, NEW f \in FormaR, NEW p \in PrazoR \cup {SemPrazo},
         PedirPagamento(o, f, p)
  PROVE  InvRetrato'
<1>1. PICK n : n = NadaCopiado
  OBVIOUS
<1>2. n \in [{} -> Nat] /\ DOMAIN n = {}
  BY <1>1 DEF NadaCopiado
<1>3. n \in CopiaR
  BY <1>2 DEF CopiaR, ParcialR
<1>4. PICK t : t = [passo |-> "forma", oper |-> o, forma |-> f, prazo |-> p, copia |-> n]
  OBVIOUS
<1>5. t \in TipoTx /\ t.copia = n /\ t.passo = "forma"
  BY <1>3, <1>4 DEF TipoTx
<1>6. txR' = t /\ UNCHANGED <<versaoR, linhaR, impR, pagoR>>
  BY <1>1, <1>4 DEF PedirPagamento
<1>7. CopiaVigente'
  BY <1>2, <1>5, <1>6 DEF CopiaVigente
<1> QED
  BY <1>5, <1>6, <1>7, SoPagamento DEF InvRetrato, TiposRetrato

LEMMA EmPagamento ==
  ASSUME InvRetrato
  PROVE  /\ txR.passo # "livre" => txR \in TipoTx /\ txR # ParadoR
         /\ txR # ParadoR => txR \in TipoTx
BY ParadoDistinto DEF InvRetrato, TiposRetrato

LEMMA PassoLerForma ==
  ASSUME InvRetrato, LerForma
  PROVE  InvRetrato'
<1>1. txR \in TipoTx
  BY EmPagamento DEF LerForma
<1>2. txR.forma \in FormaR
  BY <1>1 DEF TipoTx
<1>3. PICK r : r = Forma(txR.forma)
  OBVIOUS
<1>4. Copiar(r, "parcelas") /\ linhaR[r].ativo
  BY <1>3 DEF LerForma, CopiarTravada, Copiar, AtivoR
<1>5. r \in LinhasR /\ linhaR[r].versao = versaoR
  BY <1>2, <1>3, <1>4, LinhasTipo DEF InvRetrato, Vigentes
<1> QED
  BY <1>1, <1>3, <1>4, <1>5, SoCopia

LEMMA PassoLerParcelas ==
  ASSUME InvRetrato, LerParcelasR
  PROVE  InvRetrato'
<1>1. txR \in TipoTx /\ txR # ParadoR /\ txR.passo = "parcelas"
  BY EmPagamento DEF LerParcelasR
<1>2. txR.forma \in FormaR /\ txR.prazo \in PrazoR \cup {SemPrazo}
  BY <1>1 DEF TipoTx
<1>3. PICK r : r = ParcelasForma(txR.forma)
  OBVIOUS
<1>4. PICK s : s = IF linhaR[Forma(txR.forma)].parcelado THEN "prazo" ELSE "gravar"
  OBVIOUS
<1>5. Copiar(r, s)
  BY <1>3, <1>4 DEF LerParcelasR
<1>6. r \in LinhasR /\ linhaR[r].versao = versaoR
  BY <1>1, <1>2, <1>3, LinhasTipo DEF InvRetrato, Vigentes, CopiaVigente
<1>7. s \in {"prazo", "gravar"} /\ (s = "prazo" => txR.prazo \in PrazoR)
  BY <1>2, <1>4 DEF LerParcelasR
<1> QED
  BY <1>1, <1>5, <1>6, <1>7, SoCopia

LEMMA PassoLerPrazo ==
  ASSUME InvRetrato, LerPrazo
  PROVE  InvRetrato'
<1>1. txR \in TipoTx /\ txR # ParadoR /\ txR.passo = "prazo"
  BY EmPagamento DEF LerPrazo
<1>2. txR.prazo \in PrazoR
  BY <1>1 DEF InvRetrato, CopiaVigente
<1>3. PICK r : r = Prazo(txR.prazo)
  OBVIOUS
<1>4. Copiar(r, "parcelas do prazo") /\ linhaR[r].ativo
  BY <1>3 DEF LerPrazo, CopiarTravada, Copiar, AtivoR
<1>5. r \in LinhasR /\ linhaR[r].versao = versaoR
  BY <1>2, <1>3, <1>4, LinhasTipo DEF InvRetrato, Vigentes
<1> QED
  BY <1>1, <1>2, <1>3, <1>4, <1>5, SoCopia

LEMMA PassoLerParcelasDoPrazo ==
  ASSUME InvRetrato, LerParcelasDoPrazo
  PROVE  InvRetrato'
<1>1. txR \in TipoTx /\ txR # ParadoR /\ txR.passo = "parcelas do prazo"
  BY EmPagamento DEF LerParcelasDoPrazo
<1>2. txR.prazo \in PrazoR
  BY <1>1 DEF InvRetrato, CopiaVigente
<1>3. PICK r : r = ParcelasPrazo(txR.prazo)
  OBVIOUS
<1>4. Copiar(r, "condicao")
  BY <1>3 DEF LerParcelasDoPrazo
<1>5. r \in LinhasR /\ linhaR[r].versao = versaoR
  BY <1>1, <1>2, <1>3, LinhasTipo DEF InvRetrato, Vigentes, CopiaVigente
<1> QED
  BY <1>1, <1>2, <1>4, <1>5, SoCopia

LEMMA PassoLerCondicao ==
  ASSUME InvRetrato, LerCondicaoR
  PROVE  InvRetrato'
<1>1. txR \in TipoTx /\ txR # ParadoR /\ txR.passo = "condicao"
  BY EmPagamento DEF LerCondicaoR
<1>2. txR.forma \in FormaR /\ txR.prazo \in PrazoR
  BY <1>1 DEF InvRetrato, CopiaVigente, TipoTx
<1>3. PICK r : r = Condicao(txR.forma, txR.prazo)
  OBVIOUS
<1>4. Copiar(r, "gravar") /\ linhaR[r].ativo
  BY <1>3 DEF LerCondicaoR, CopiarTravada, Copiar, AtivoR
<1>5. r \in LinhasR /\ linhaR[r].versao = versaoR
  BY <1>2, <1>3, <1>4, LinhasTipo DEF InvRetrato, Vigentes
<1> QED
  BY <1>1, <1>4, <1>5, SoCopia

\* what is recorded is what was copied, all of the version in force
LEMMA PassoGravarRetrato ==
  ASSUME InvRetrato, GravarPagamentoR
  PROVE  /\ InvRetrato'
         /\ \A o \in OperR : pagoR'[o] # pagoR[o] =>
              \A r \in DOMAIN pagoR'[o].copia : pagoR'[o].copia[r] = versaoR
<1>1. txR \in TipoTx /\ txR # ParadoR
  BY EmPagamento DEF GravarPagamentoR
<1>2. PICK q : q = [passo |-> "pago", forma |-> txR.forma, prazo |-> txR.prazo, copia |-> txR.copia]
  OBVIOUS
<1>3. /\ pagoR' = [pagoR EXCEPT ![txR.oper] = q] /\ txR' = ParadoR
      /\ UNCHANGED <<versaoR, linhaR, impR>>
  BY <1>2 DEF GravarPagamentoR
<1>4. q \in TipoPago /\ q.copia = txR.copia
  BY <1>1, <1>2 DEF TipoTx, TipoPago
<1>5. pagoR' \in [OperR -> TipoPago \cup {ParadoR}]
  BY <1>3, <1>4 DEF InvRetrato, TiposRetrato
<1>6. CopiaVigente'
  BY <1>3 DEF CopiaVigente
<1>7. InvRetrato'
  BY <1>3, <1>5, <1>6, SoPagamento
<1>8. ASSUME NEW o \in OperR, pagoR'[o] # pagoR[o]
      PROVE  pagoR'[o] = q
  BY <1>3, <1>8 DEF InvRetrato, TiposRetrato
<1>9. \A r \in DOMAIN q.copia : q.copia[r] = versaoR
  BY <1>1, <1>4 DEF InvRetrato, CopiaVigente
<1> QED
  BY <1>7, <1>8, <1>9

LEMMA PassoDesfazerPagamento ==
  ASSUME InvRetrato, DesfazerPagamentoR
  PROVE  InvRetrato'
BY SoPagamento DEF DesfazerPagamentoR, CopiaVigente, InvRetrato, TiposRetrato

LEMMA PassoRetrato == InvRetrato /\ [NextRetrato]_varsRetrato => InvRetrato'
<1> SUFFICES ASSUME InvRetrato, [NextRetrato]_varsRetrato
             PROVE  InvRetrato'
  OBVIOUS
<1>1. CASE UNCHANGED varsRetrato
  <2>1. UNCHANGED <<versaoR, linhaR, impR, txR, pagoR>>
    BY <1>1 DEF varsRetrato
  <2>2. CopiaVigente'
    BY <2>1 DEF InvRetrato, CopiaVigente
  <2> QED
    BY <2>1, <2>2, SoPagamento DEF InvRetrato, TiposRetrato
<1>2. CASE \/ \E c \in Cadastros : IniciarImportR(c)
           \/ \E p \in PrazoR : ImportarPrazo(p)
           \/ \E f \in FormaR : ImportarForma(f)
           \/ InativarAusentes \/ SeguirImport \/ ConfirmarImport \/ DesfazerImport
  BY <1>2, PassoIniciarImport, PassoImportarPrazo, PassoImportarForma, PassoInativar,
     PassoSeguirImport, PassoConfirmarImport, PassoDesfazerImport
<1>3. CASE \/ ListarFormas \/ ListarCondicoes
           \/ \E o \in OperR, f \in FormaR, p \in PrazoR \cup {SemPrazo} : PedirPagamento(o, f, p)
           \/ GravarPagamentoR \/ DesfazerPagamentoR
  BY <1>3, PassoListar, PassoPedir, PassoGravarRetrato, PassoDesfazerPagamento
<1>4. CASE LerForma \/ LerParcelasR \/ LerPrazo \/ LerParcelasDoPrazo \/ LerCondicaoR
  BY <1>4, PassoLerForma, PassoLerParcelas, PassoLerPrazo, PassoLerParcelasDoPrazo, PassoLerCondicao
<1> QED
  BY <1>1, <1>2, <1>3, <1>4 DEF NextRetrato

\* A payment is recorded with one version of the register, the one in force when
\* it is recorded, whatever the import of the forms does between its steps
\* (vendas.py:549-636, formas_pagamento.py:34-182).
THEOREM RetratoVigenteSempre == SpecRetrato => RetratoVigente
<1>1. InvRetrato /\ [NextRetrato]_varsRetrato =>
        [\A o \in OperR : pagoR'[o] # pagoR[o] =>
           \A r \in DOMAIN pagoR'[o].copia : pagoR'[o].copia[r] = versaoR]_varsRetrato
  <2> SUFFICES ASSUME InvRetrato, NextRetrato
               PROVE  \A o \in OperR : pagoR'[o] # pagoR[o] =>
                        \A r \in DOMAIN pagoR'[o].copia : pagoR'[o].copia[r] = versaoR
    OBVIOUS
  <2>1. CASE GravarPagamentoR
    BY <2>1, PassoGravarRetrato
  <2>2. CASE ~GravarPagamentoR
    <3>1. pagoR' = pagoR
      BY <2>2 DEF NextRetrato, IniciarImportR, ImportarPrazo, ImportarForma, InativarAusentes,
         Escrever, SeguirImport, ConfirmarImport, DesfazerImport, ListarFormas, ListarCondicoes,
         PedirPagamento, LerForma, LerParcelasR, LerPrazo, LerParcelasDoPrazo, LerCondicaoR,
         CopiarTravada, Copiar, DesfazerPagamentoR
    <3> QED
      BY <3>1
  <2> QED
    BY <2>1, <2>2
<1> QED
  BY <1>1, InicioRetrato, PassoRetrato, PTL DEF SpecRetrato, RetratoVigente

=============================================================================
