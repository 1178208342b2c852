------------------------------- MODULE Imagens -------------------------------
(***************************************************************************)
(* The pictures of the catalogue (integracao/services/catalogo.py): the    *)
(* rows that an import writes in its transaction, the files that it        *)
(* fetches from the Central after the commit, and the files it removes     *)
(* because no row names them.  The worker and a command may import at the  *)
(* same time.  The name of a file is made of the product, the picture and  *)
(* the version of the answer, cut at its last dot; its content is what the *)
(* Central has when it is fetched, by the number of the picture only.      *)
(***************************************************************************)
EXTENDS Naturals, FiniteSets

CONSTANTS
  ProdutoIm,    \* products, one row of the catalogue each
  ImportadorIm, \* the worker, the command
  NuloIm,       \* no import
  NumVersao,    \* bound of the model: pictures of a product at the Central
  NomeVersao,   \* of a version: the name of its file, with_suffix(...); versions may share one
  MaxImport     \* bound of the model: imports

ASSUME ConstantesImagens ==
  /\ NumVersao \in Nat /\ MaxImport \in Nat /\ NuloIm \notin ProdutoIm \cup ImportadorIm
  /\ NomeVersao \in [1..NumVersao -> 1..NumVersao]

VARIABLES
  centralIm,  \* newest version of the picture of each product at the Central, 0 before the first
  semImagem,  \* products without a picture at the Central
  linhaIm,    \* CatalogoItemHub: imagem_versao, and the name in imagem_local, 0 for none
  arquivoIm,  \* catalogo-imagens: the version each file is a picture of, 0 for no file
  importador, \* sincronizar_catalogo in progress
  importacoes \* imports so far

varsImagens == <<centralIm, semImagem, linhaIm, arquivoIm, importador, importacoes>>

VersaoIm == 0..NumVersao
NomeIm == 1..NumVersao
Arquivos == ProdutoIm \X NomeIm
ImLivre == [passo |-> "livre", resta |-> {}, produto |-> NuloIm, fora |-> {}, foto |-> 0,
            resposta |-> [p \in ProdutoIm |-> 0]]
Importacao ==
  [passo : {"livre", "resposta", "baixar", "gravar", "associar", "varrer", "remover"},
   resta : SUBSET (ProdutoIm \cup Arquivos), produto : ProdutoIm \cup {NuloIm},
   fora : SUBSET ProdutoIm, foto : VersaoIm, resposta : [ProdutoIm -> VersaoIm]]

TypeOKImagens ==
  /\ centralIm \in [ProdutoIm -> VersaoIm]
  /\ semImagem \subseteq ProdutoIm
  /\ linhaIm \in [ProdutoIm -> [versao : VersaoIm, local : VersaoIm]]
  /\ arquivoIm \in [Arquivos -> VersaoIm]
  /\ importador \in [ImportadorIm -> Importacao]
  /\ importacoes \in 0..MaxImport

InitImagens ==
  /\ centralIm = [p \in ProdutoIm |-> 0]
  /\ semImagem = ProdutoIm
  /\ linhaIm = [p \in ProdutoIm |-> [versao |-> 0, local |-> 0]]
  /\ arquivoIm = [a \in Arquivos |-> 0]
  /\ importador = [q \in ImportadorIm |-> ImLivre]
  /\ importacoes = 0

\* the Central gives a product another picture, or takes it away
TrocarImagem(p) ==
  /\ \/ /\ centralIm[p] < NumVersao /\ centralIm' = [centralIm EXCEPT ![p] = @ + 1]
        /\ semImagem' = semImagem \ {p}
     \/ p \notin semImagem /\ semImagem' = semImagem \cup {p} /\ UNCHANGED centralIm
  /\ UNCHANGED <<linhaIm, arquivoIm, importador, importacoes>>

Catalogo == [p \in ProdutoIm |-> IF p \in semImagem THEN 0 ELSE centralIm[p]]

\* the answer, without the products of F
PedirCatalogo(q, F) ==
  /\ importador[q] = ImLivre /\ importacoes < MaxImport
  /\ importador' = [importador EXCEPT ![q] = [ImLivre EXCEPT !.passo = "resposta", !.fora = F,
                                                            !.resposta = Catalogo]]
  /\ importacoes' = importacoes + 1
  /\ UNCHANGED <<centralIm, semImagem, linhaIm, arquivoIm>>

ComImagem(R) == {p \in ProdutoIm : R[p] # 0}

\* _imagem_defaults_para_item: the file is kept when the row has it for the
\* same version and it is still on the disk
\* mutant: the version is not compared
MutImagemDaLinha(p, v) ==
  IF v # 0 /\ linhaIm[p].local # 0 /\ arquivoIm[<<p, linhaIm[p].local>>] # 0 THEN linhaIm[p].local ELSE 0
ImagemDaLinha(p, v) ==
  IF /\ v # 0 /\ linhaIm[p].versao = v /\ linhaIm[p].local # 0
     /\ arquivoIm[<<p, linhaIm[p].local>>] # 0
  THEN linhaIm[p].local ELSE 0

\* the transaction of sincronizar_catalogo
GravarCatalogo(q) ==
  LET R == importador[q].resposta IN
  /\ importador[q].passo = "resposta"
  /\ linhaIm' = [p \in ProdutoIm |-> IF p \in importador[q].fora THEN linhaIm[p]
                                      ELSE [versao |-> R[p], local |-> ImagemDaLinha(p, R[p])]]
  /\ importador' = [importador EXCEPT ![q].passo = "baixar", ![q].resta = ComImagem(R) \ importador[q].fora]
  /\ UNCHANGED <<centralIm, semImagem, arquivoIm, importacoes>>

\* the file in which the picture of the answer is looked for and stored
\* mutant: one file for all the versions of a picture
MutArquivoPedido(q, p) == <<p, 1>>
ArquivoPedido(q, p) == <<p, NomeVersao[importador[q].resposta[p]]>>

\* _sincronizar_imagens: a file that is there is used
UsarArquivo(q, p) ==
  /\ importador[q].passo = "baixar" /\ p \in importador[q].resta
  /\ arquivoIm[ArquivoPedido(q, p)] # 0
  /\ importador' = [importador EXCEPT ![q].passo = "associar", ![q].produto = p]
  /\ UNCHANGED <<centralIm, semImagem, linhaIm, arquivoIm, importacoes>>

\* else it is fetched: the Central sends the picture it has by now
Baixar(q, p) ==
  /\ importador[q].passo = "baixar" /\ p \in importador[q].resta
  /\ arquivoIm[ArquivoPedido(q, p)] = 0
  /\ p \notin semImagem
  /\ importador' = [importador EXCEPT ![q].passo = "gravar", ![q].produto = p, ![q].foto = centralIm[p]]
  /\ UNCHANGED <<centralIm, semImagem, linhaIm, arquivoIm, importacoes>>

BaixarFalhou(q, p) ==
  /\ importador[q].passo = "baixar" /\ p \in importador[q].resta
  /\ arquivoIm[ArquivoPedido(q, p)] = 0
  /\ importador' = [importador EXCEPT ![q].resta = @ \ {p}]
  /\ UNCHANGED <<centralIm, semImagem, linhaIm, arquivoIm, importacoes>>

\* os.replace, over the file of another import as well
GravarArquivo(q) ==
  LET p == importador[q].produto IN
  /\ importador[q].passo = "gravar"
  /\ arquivoIm' = [arquivoIm EXCEPT ![ArquivoPedido(q, p)] = importador[q].foto]
  /\ importador' = [importador EXCEPT ![q].passo = "associar", ![q].foto = 0]
  /\ UNCHANGED <<centralIm, semImagem, linhaIm, importacoes>>

\* _associar_imagem_produto: the rows that still have the version of the answer
\* mutant: every row of the product
MutMesmaVersao(p, v) == TRUE
MesmaVersao(p, v) == linhaIm[p].versao = v

Associar(q) ==
  LET p == importador[q].produto
      v == importador[q].resposta[p] IN
  /\ importador[q].passo = "associar"
  /\ linhaIm' = IF MesmaVersao(p, v) THEN [linhaIm EXCEPT ![p].local = ArquivoPedido(q, p)[2]]
                                     ELSE linhaIm
  /\ importador' = [importador EXCEPT ![q].passo = "baixar", ![q].resta = @ \ {p}, ![q].produto = NuloIm]
  /\ UNCHANGED <<centralIm, semImagem, arquivoIm, importacoes>>

\* _limpar_arquivos_orfaos: the files are listed before the rows are read
Varrer(q) ==
  /\ importador[q].passo = "baixar" /\ importador[q].resta = {}
  /\ importador' = [importador EXCEPT ![q].passo = "varrer", ![q].resta = {a \in Arquivos : arquivoIm[a] # 0}]
  /\ UNCHANGED <<centralIm, semImagem, linhaIm, arquivoIm, importacoes>>

EmUso == {<<p, linhaIm[p].local>> : p \in ProdutoIm}

LerUsados(q) ==
  /\ importador[q].passo = "varrer"
  /\ importador' = [importador EXCEPT ![q].passo = "remover", ![q].resta = @ \ EmUso]
  /\ UNCHANGED <<centralIm, semImagem, linhaIm, arquivoIm, importacoes>>

Remover(q, a) ==
  /\ importador[q].passo = "remover" /\ a \in importador[q].resta
  /\ arquivoIm' = [arquivoIm EXCEPT ![a] = 0]
  /\ importador' = [importador EXCEPT ![q].resta = @ \ {a}]
  /\ UNCHANGED <<centralIm, semImagem, linhaIm, importacoes>>

\* the import is over, or its process is
Terminar(q) ==
  /\ importador[q] # ImLivre
  /\ importador' = [importador EXCEPT ![q] = ImLivre]
  /\ UNCHANGED <<centralIm, semImagem, linhaIm, arquivoIm, importacoes>>

NextImagens ==
  \/ \E p \in ProdutoIm : TrocarImagem(p)
  \/ \E q \in ImportadorIm :
       \/ \E F \in SUBSET ProdutoIm : PedirCatalogo(q, F)
       \/ GravarCatalogo(q) \/ GravarArquivo(q) \/ Associar(q)
       \/ \E p \in ProdutoIm : UsarArquivo(q, p) \/ Baixar(q, p) \/ BaixarFalhou(q, p)
       \/ Varrer(q) \/ LerUsados(q) \/ Terminar(q)
       \/ \E a \in Arquivos : Remover(q, a)
SpecImagens == InitImagens /\ [][NextImagens]_varsImagens

-----------------------------------------------------------------------------
(* Properties *)

\* The file a row names goes by the name of the version the row has, and the
\* picture in it is not older than every version of that name, whatever two
\* imports with different answers do between the commit of one and its downloads
\* and whatever the Central changes meanwhile (catalogo.py
\* _associar_imagem_produto, _imagem_defaults_para_item, baixar_catalogo_imagem).
\* It may be newer than the row's version, or of another version of the same name.
ImagemCerta ==
  \A p \in ProdutoIm : linhaIm[p].local # 0 =>
    /\ linhaIm[p].versao # 0 /\ linhaIm[p].local = NomeVersao[linhaIm[p].versao]
    /\ LET foto == arquivoIm[<<p, linhaIm[p].local>>]
       IN foto # 0 => \E v \in 1..foto : NomeVersao[v] = linhaIm[p].local
=============================================================================
