----------------------------- MODULE Nfce_proofs -----------------------------
(***************************************************************************)
(* Proofs about Nfce, for any sales, series and numbers.                   *)
(*                                                                         *)
(* The numbers, and what SEFAZ authorised for them, do not depend on who    *)
(* works on a row (InvNumero).  The documents need that the command and the *)
(* conclusion were not on it at once: then one process works on the row,    *)
(* what it holds in memory is the row (NaMao), and a row listed in          *)
(* contingency stays as it was listed (NaLista).                            *)
(***************************************************************************)
EXTENDS Nfce, TLAPS

-----------------------------------------------------------------------------
(* The invariants *)

\* the types of all but the history
TiposNf ==
  /\ configNf \in [serie : Serie, proximo : 1..(MaxNumeroNf + 1)]
  /\ nota \in [VendaNf -> Nota]
  /\ sefaz \subseteq DocumentoNf
  /\ eventoNf \subseteq EventoNf
  /\ proc \in [ProcessoNf -> ProcNf]
  /\ lista \subseteq (VendaNf \X Nota)

\* what a process works on was issued, with a number
Numerada(p) ==
  proc[p].passo # "livre" =>
    /\ nota[proc[p].venda].status # "NENHUMA"
    /\ proc[p].copia.numero >= 1
    /\ proc[p].passo = "resposta" => proc[p].resposta # "nenhuma"

\* a document authorised has the number of the row
Provada(v) == v \in Emitidas /\ \E d \in sefaz : DaSerieENumero(d, v)

\* numbers tell the sales apart, and what is called authorised was authorised
DaVenda ==
  /\ \A v, w \in Emitidas :
       nota[v].serie = nota[w].serie /\ nota[v].numero = nota[w].numero => v = w
  /\ \A d \in sefaz : \E v \in Emitidas : DaSerieENumero(d, v)
  /\ \A v \in VendaNf : nota[v].status = "AUTORIZADA" => Provada(v)
  /\ \A e \in eventoNf : e.status = "AUTORIZADA" => Provada(e.venda)

\* what is held in memory has the number of the row
Copiada(p) ==
  proc[p].passo # "livre" =>
    /\ DaSerieENumero(proc[p].copia, proc[p].venda)
    /\ proc[p].resposta = "AUTORIZADA" => Provada(proc[p].venda)
Listada(l) == DaSerieENumero(l[2], l[1])

InvNumero ==
  /\ TiposNf
  /\ \A v \in Emitidas : nota[v].numero >= 1
  /\ \A p \in ProcessoNf : Numerada(p)
  /\ \A l \in lista : nota[l[1]].status # "NENHUMA" /\ l[2].numero >= 1
  /\ NumeroLivre
  /\ DaVenda
  /\ \A p \in ProcessoNf : Copiada(p)
  /\ \A l \in lista : Listada(l)

Chave(n) == [serie |-> n.serie, numero |-> n.numero, tipo |-> n.tipo]

\* the conclusion of a sale works on its row
Dono ==
  /\ \A v \in VendaNf : proc[v].passo # "livre" => proc[v].venda = v /\ proc[v].passo # "ler"
  /\ proc[ComandoNf].passo # "preparada"

Ativo(p) == proc[p].passo \notin {"livre", "preparada"}
Separadas == \A v \in VendaNf \ disputada : ~NasDuas(v)

\* a process works on the row as it is, not yet told authorised
NaMao(p) ==
  Trabalha(p) /\ proc[p].venda \notin disputada =>
    /\ proc[p].copia = nota[proc[p].venda]
    /\ proc[p].passo = "gerar" => proc[p].copia.status = "PENDENTE_TRANSMISSAO"
    /\ proc[p].passo \in {"transmitir", "resposta"} => proc[p].copia.status \in {"GERADA", "CONTINGENCIA"}
    /\ proc[p].passo = "resposta" /\ proc[p].resposta = "AUTORIZADA" => Chave(proc[p].copia) \in sefaz
    /\ \A e \in eventoNf : e.venda = proc[p].venda => e.status # "AUTORIZADA"

\* a row listed in contingency is as it was listed
NaLista(l) ==
  /\ l[2].status = "CONTINGENCIA" /\ l[1] \notin disputada => nota[l[1]] = l[2]
  /\ Ativo(ComandoNf) => proc[ComandoNf].venda # l[1]
  /\ \A m \in lista : m[1] = l[1] => m = l

\* the properties of Nfce about one row, and one event
Autorizada(v) == v \notin disputada /\ nota[v].status = "AUTORIZADA" => Chave(nota[v]) \in sefaz
Documento(v) ==
  v \notin disputada /\ nota[v].status \in {"GERADA", "CONTINGENCIA", "AUTORIZADA"} =>
    nota[v].xml = nota[v].tipo /\ nota[v].qr = nota[v].tipo
Informada(e) ==
  e.status = "AUTORIZADA" /\ e.venda \notin disputada =>
    nota[e.venda].status = "AUTORIZADA" /\ nota[e.venda].versao = e.versao

InvNfce ==
  /\ InvNumero
  /\ Separadas
  /\ Dono
  /\ \A p \in ProcessoNf : NaMao(p)
  /\ \A l \in lista : NaLista(l)
  /\ \A v \in VendaNf : Autorizada(v) /\ Documento(v)
  /\ \A e \in eventoNf : Informada(e)

-----------------------------------------------------------------------------
(* Types and operators *)

ProcAtivo ==
  [passo : {"preparada", "ler", "gerar", "transmitir", "resposta", "regenerar", "excecao", "versao", "evento"},
   venda : VendaNf, copia : Nota, resposta : RespostaNf, retomada : BOOLEAN, erro : BOOLEAN]

LEMMA TiposDoProcesso ==
  ASSUME TiposNf, NEW p \in ProcessoNf
  PROVE  /\ proc[p].passo # "livre" => proc[p] \in ProcAtivo
         /\ proc[p].passo = "livre" => proc[p] = Ocioso
  BY DEF TiposNf, ProcNf, ProcAtivo, Ocioso

LEMMA MaiorDeDois ==
  ASSUME NEW a \in Nat, NEW b \in Nat
  PROVE  Max({a, b}) \in {a, b} /\ Max({a, b}) >= a /\ Max({a, b}) >= b
<1>1. \E x \in {a, b} : \A y \in {a, b} : x >= y
  <2>1. CASE a >= b
    BY <2>1
  <2>2. CASE b >= a
    BY <2>2
  <2>3. QED
    BY <2>1, <2>2
<1>2. QED
  BY <1>1 DEF Max

LEMMA NotaMantida ==
  ASSUME TiposNf, NEW v \in VendaNf
  PROVE  nota = [nota EXCEPT ![v] = nota[v]]
  BY DEF TiposNf

\* what a process writes on its row keeps series and number
LEMMA ComXmlTipo ==
  ASSUME NEW c \in Nota, NEW s \in StatusNf
  PROVE  /\ ComXml(c, s) \in Nota /\ ComXml(c, s).status = s /\ ComXml(c, s).versao = c.versao
         /\ ComXml(c, s).tipo = c.tipo /\ ComXml(c, s).xml = c.tipo /\ ComXml(c, s).qr = c.tipo
         /\ ComXml(c, s).serie = c.serie /\ ComXml(c, s).numero = c.numero
  BY DEF ComXml, XmlDe, QrDe, Nota

-----------------------------------------------------------------------------
(* Numbers *)

LEMMA InvInicialNumero == InitNfce => InvNumero
<1> SUFFICES ASSUME InitNfce PROVE InvNumero
  OBVIOUS
<1>1. PICK s \in Serie :
        /\ configNf = [serie |-> s, proximo |-> 1]
        /\ nota = [v \in VendaNf |-> [status |-> "NENHUMA", serie |-> s, numero |-> 0,
                                      tipo |-> "nenhuma", xml |-> "nenhuma", qr |-> "nenhuma", versao |-> 0]]
  BY DEF InitNfce
<1>2. sefaz = {} /\ eventoNf = {} /\ lista = {} /\ proc = [p \in ProcessoNf |-> Ocioso]
  BY DEF InitNfce
<1>3. configNf \in [serie : Serie, proximo : 1..(MaxNumeroNf + 1)]
  <2>1. 1 \in 1..(MaxNumeroNf + 1)
    BY ConstantesNfce
  <2>2. QED
    BY <1>1, <2>1
<1>4. nota \in [VendaNf -> Nota]
  <2>1. 0 \in 0..MaxNumeroNf /\ 0 \in Nat
    BY ConstantesNfce
  <2>2. [status |-> "NENHUMA", serie |-> s, numero |-> 0, tipo |-> "nenhuma", xml |-> "nenhuma", qr |-> "nenhuma", versao |-> 0] \in Nota
    BY <2>1 DEF Nota, StatusNf, Emissao
  <2>3. QED
    BY <1>1, <2>2
<1>5. TiposNf
  BY <1>2, <1>3, <1>4 DEF TiposNf, ProcNf
<1>6. Emitidas = {}
  BY <1>1 DEF Emitidas
<1>7. DaVenda
  BY <1>1, <1>2, <1>6 DEF DaVenda
<1>8. \A p \in ProcessoNf : Copiada(p)
  BY <1>2 DEF Copiada, Ocioso
<1>9. QED
  BY <1>2, <1>5, <1>6, <1>7, <1>8 DEF InvNumero, Numerada, NumeroLivre, Ocioso

\* rows that keep their numbers: what is new must be of them
LEMMA DaVendaMantida ==
  ASSUME TiposNf, DaVenda, \A q \in ProcessoNf : Copiada(q), \A l \in lista : Listada(l), Emitidas' = Emitidas,
         \A w \in VendaNf : /\ nota'[w].serie = nota[w].serie /\ nota'[w].numero = nota[w].numero
                            /\ nota'[w].status = "AUTORIZADA" => nota[w].status = "AUTORIZADA" \/ Provada(w)',
         sefaz \subseteq sefaz', \A d \in sefaz' : d \in sefaz \/ \E v \in Emitidas : DaSerieENumero(d, v),
         \A e \in eventoNf' : e \in eventoNf \/ (e.status = "AUTORIZADA" => Provada(e.venda)'),
         \A q \in ProcessoNf : proc'[q] = proc[q] \/ Copiada(q)', lista' \subseteq lista
  PROVE  DaVenda' /\ (\A q \in ProcessoNf : Copiada(q)') /\ \A l \in lista' : Listada(l)'
<1>1. ASSUME NEW w \in VendaNf, NEW d, d.serie = nota[w].serie, d.numero = nota[w].numero
      PROVE  d.serie = nota'[w].serie /\ d.numero = nota'[w].numero
  BY <1>1
<1>2. ASSUME NEW w \in VendaNf, Provada(w) PROVE Provada(w)'
  <2>1. PICK d \in sefaz : DaSerieENumero(d, w)
    BY <1>2 DEF Provada
  <2>2. d \in sefaz' /\ d.serie = nota'[w].serie /\ d.numero = nota'[w].numero
    BY <1>1, <2>1 DEF DaSerieENumero
  <2>3. QED
    BY <1>2, <2>2 DEF Provada, DaSerieENumero
<1>3. \A v, w \in Emitidas' :
        nota'[v].serie = nota'[w].serie /\ nota'[v].numero = nota'[w].numero => v = w
  BY DEF DaVenda, Emitidas
<1>4. ASSUME NEW d \in sefaz' PROVE \E v \in Emitidas' : DaSerieENumero(d, v)'
  <2>1. PICK v \in Emitidas : DaSerieENumero(d, v)
    BY DEF DaVenda
  <2>2. v \in VendaNf /\ v \in Emitidas'
    BY DEF Emitidas
  <2>3. QED
    BY <1>1, <2>1, <2>2 DEF DaSerieENumero
<1>5. \A v \in VendaNf : nota'[v].status = "AUTORIZADA" => Provada(v)'
  BY <1>2 DEF DaVenda
<1>6. ASSUME NEW e \in eventoNf', e.status = "AUTORIZADA" PROVE Provada(e.venda)'
  <2>1. CASE e \in eventoNf
    <3>1. e.venda \in VendaNf /\ Provada(e.venda)
      BY <1>6, <2>1 DEF TiposNf, EventoNf, DaVenda
    <3>2. QED
      BY <1>2, <3>1
  <2>2. QED
    BY <1>6, <2>1
<1>7. DaVenda'
  BY <1>3, <1>4, <1>5, <1>6 DEF DaVenda
<1>8. ASSUME NEW q \in ProcessoNf PROVE Copiada(q)'
  <2>1. CASE proc'[q] = proc[q] /\ proc[q].passo # "livre"
    <3>1. proc[q].venda \in VendaNf
      BY <2>1, TiposDoProcesso DEF ProcAtivo
    <3>2. Copiada(q)
      OBVIOUS
    <3>3. QED
      BY <1>1, <1>2, <2>1, <3>1, <3>2 DEF Copiada, DaSerieENumero
  <2>2. CASE proc'[q] = proc[q] /\ proc[q].passo = "livre"
    BY <2>2 DEF Copiada
  <2>3. QED
    BY <2>1, <2>2
<1>9. ASSUME NEW l \in lista' PROVE Listada(l)'
  <2>1. l[1] \in VendaNf /\ Listada(l)
    BY DEF TiposNf
  <2>2. QED
    BY <1>1, <2>1 DEF Listada, DaSerieENumero
<1>10. QED
  BY <1>7, <1>8, <1>9

\* a process that writes n on its row and goes on as k
LEMMA NumeroAoTrabalhar ==
  ASSUME InvNumero, NEW p \in ProcessoNf, NEW v \in VendaNf, proc[p].passo # "livre", proc[p].venda = v,
         NEW n \in Nota, n.serie = nota[v].serie, n.numero = nota[v].numero, n.status # "NENHUMA",
         NEW k \in ProcNf,
         k = Ocioso \/ /\ k.venda = v /\ DaSerieENumero(k.copia, v)
                       /\ k.passo = "resposta" => k.resposta # "nenhuma"
                       /\ k.resposta = "AUTORIZADA" => proc[p].resposta = "AUTORIZADA" \/ Provada(v)',
         n.status = "AUTORIZADA" => nota[v].status = "AUTORIZADA" \/ proc[p].resposta = "AUTORIZADA",
         nota' = [nota EXCEPT ![v] = n], proc' = [proc EXCEPT ![p] = k],
         configNf' = configNf, sefaz' \subseteq DocumentoNf, eventoNf' \subseteq EventoNf, lista' \subseteq lista,
         sefaz \subseteq sefaz', \A d \in sefaz' : d \in sefaz \/ DaSerieENumero(d, v),
         \A e \in eventoNf' : e \in eventoNf \/ (e.venda = v /\ e.status = nota[v].status)
  PROVE  InvNumero'
<1> USE DEF InvNumero
<1>1. TiposNf'
  BY DEF TiposNf
<1>2. Emitidas' = Emitidas
  BY DEF TiposNf, Emitidas, Numerada
<1>3. \A w \in VendaNf : /\ nota'[w].serie = nota[w].serie /\ nota'[w].numero = nota[w].numero
                         /\ nota'[w].status = "NENHUMA" => nota[w].status = "NENHUMA"
  BY DEF TiposNf
<1>4. (\A w \in Emitidas : nota[w].numero >= 1)' /\ NumeroLivre'
  BY <1>2, <1>3 DEF Emitidas, NumeroLivre
<1>5. ASSUME NEW q \in ProcessoNf PROVE Numerada(q)'
  <2>1. CASE q = p
    <3>1. proc'[q] = k
      BY <2>1 DEF TiposNf
    <3>2. nota'[v].status # "NENHUMA"
      BY DEF TiposNf
    <3>3. CASE k = Ocioso
      <4>1. proc'[q].passo = "livre"
        BY <3>1, <3>3 DEF Ocioso
      <4>2. QED
        BY <4>1 DEF Numerada
    <3>4. CASE k # Ocioso
      <4>1. k.copia.numero = nota[v].numero /\ nota[v].numero >= 1
        BY <1>2, <3>2, <3>4 DEF DaSerieENumero, Emitidas
      <4>2. QED
        BY <2>1, <3>1, <3>2, <3>4, <4>1 DEF Numerada
    <3>5. QED
      BY <3>3, <3>4
  <2>2. CASE q # p
    <3>1. proc'[q] = proc[q] /\ (proc[q].passo # "livre" => proc[q].venda \in VendaNf)
      BY <2>2, TiposDoProcesso DEF TiposNf, ProcAtivo
    <3>2. Numerada(q)
      OBVIOUS
    <3>3. QED
      BY <1>3, <3>1, <3>2 DEF Numerada
  <2>3. QED
    BY <2>1, <2>2
<1>6. (\A l \in lista : nota[l[1]].status # "NENHUMA" /\ l[2].numero >= 1)'
  <2>1. \A l \in lista : l[1] \in VendaNf
    BY DEF TiposNf
  <2>2. QED
    BY <1>3, <2>1
<1>7. DaVenda' /\ (\A q \in ProcessoNf : Copiada(q)') /\ \A l \in lista' : Listada(l)'
  <2>1. v \in Emitidas /\ nota \in [VendaNf -> Nota] /\ nota'[v] = n /\ Copiada(p)
        /\ \A w \in VendaNf : w # v => nota'[w] = nota[w]
    BY DEF Emitidas, Numerada, TiposNf
  <2>2. \A d : DaSerieENumero(d, v) => DaSerieENumero(d, v)'
    BY <1>3 DEF DaSerieENumero
  <2>3. Provada(v) => Provada(v)'
    BY <1>2, <2>2 DEF Provada
  <2>4. proc[p].resposta = "AUTORIZADA" \/ nota[v].status = "AUTORIZADA" => Provada(v)'
    BY <2>1, <2>3 DEF Copiada, DaVenda
  <2>5. \A w \in VendaNf : nota'[w].status = "AUTORIZADA" => nota[w].status = "AUTORIZADA" \/ Provada(w)'
    BY <2>1, <2>4
  <2>6. \A e \in eventoNf' : e \in eventoNf \/ (e.status = "AUTORIZADA" => Provada(e.venda)')
    BY <2>4
  <2>7. Copiada(p)'
    <3>1. proc'[p] = k
      BY DEF TiposNf
    <3>2. CASE k = Ocioso
      BY <3>1, <3>2 DEF Copiada, Ocioso
    <3>3. CASE k # Ocioso
      BY <2>2, <2>4, <3>1, <3>3 DEF Copiada
    <3>4. QED
      BY <3>2, <3>3
  <2>8. \A q \in ProcessoNf : proc'[q] = proc[q] \/ Copiada(q)'
    BY <2>7 DEF TiposNf
  <2>9. \A d \in sefaz' : d \in sefaz \/ \E w \in Emitidas : DaSerieENumero(d, w)
    BY <2>1
  <2>10. QED
    BY <1>2, <1>3, <2>5, <2>6, <2>8, <2>9, DaVendaMantida
<1>8. QED
  BY <1>1, <1>4, <1>5, <1>6, <1>7

\* the steps that read the row, or leave it
LEMMA NumeroSemGravar ==
  ASSUME InvNumero, NEW p \in ProcessoNf,
         LerNota(p) \/ SemMaterial(p) \/ PararNfce(p) \/ FicaEmContingencia(p)
  PROVE  InvNumero'
<1>1. proc[p].passo # "livre"
  BY DEF LerNota, SemMaterial, PararNfce, FicaEmContingencia
<1>2. PICK v \in VendaNf : proc[p].venda = v
  BY <1>1, TiposDoProcesso DEF InvNumero, ProcAtivo
<1>3. /\ nota[v] \in Nota /\ nota[v].status # "NENHUMA" /\ nota[v].numero >= 1
      /\ nota' = [nota EXCEPT ![v] = nota[v]]
      /\ sefaz' \subseteq DocumentoNf /\ eventoNf' \subseteq EventoNf /\ lista' \subseteq lista
      /\ configNf' = configNf
  <2>1. UNCHANGED <<configNf, nota, sefaz, eventoNf>> /\ lista' \subseteq lista
    BY DEF LerNota, SemMaterial, PararNfce, FicaEmContingencia
  <2>2. nota[v].status # "NENHUMA"
    BY <1>1, <1>2 DEF InvNumero, Numerada
  <2>3. QED
    BY <2>1, <2>2, NotaMantida DEF InvNumero, TiposNf, Emitidas
<1>4. Ocioso \in ProcNf
  BY DEF ProcNf
<1>5. UNCHANGED <<sefaz, eventoNf>> /\ nota[v] \in Nota
  BY <1>3 DEF LerNota, SemMaterial, PararNfce, FicaEmContingencia
<1>6. CASE proc' = [proc EXCEPT ![p] = Ocioso]
  BY <1>1, <1>2, <1>3, <1>4, <1>5, <1>6, NumeroAoTrabalhar
<1>7. CASE proc' = [proc EXCEPT ![p].passo = "gerar", ![p].copia = nota[proc[p].venda]]
  <2> DEFINE k == [proc[p] EXCEPT !.passo = "gerar", !.copia = nota[v]]
  <2>1. proc[p] \in ProcAtivo
    BY <1>1, TiposDoProcesso DEF InvNumero
  <2>2. k \in ProcAtivo /\ k.venda = v /\ k.copia = nota[v] /\ k.passo = "gerar"
        /\ k.resposta = proc[p].resposta
    BY <1>2, <1>3, <2>1 DEF ProcAtivo
  <2>3. k \in ProcNf
    BY <2>2 DEF ProcNf, ProcAtivo
  <2>4. proc' = [proc EXCEPT ![p] = k]
    BY <1>2, <1>7 DEF InvNumero, TiposNf
  <2> HIDE DEF k
  <2>5. QED
    BY <1>1, <1>2, <1>3, <1>5, <2>2, <2>3, <2>4, NumeroAoTrabalhar DEF DaSerieENumero
<1>8. QED
  BY <1>6, <1>7 DEF LerNota, SemMaterial, PararNfce, FicaEmContingencia

\* the steps with SEFAZ and the outbox, that leave the row
LEMMA NumeroForaDoHub ==
  ASSUME InvNumero, NEW p \in ProcessoNf, Transmitir(p) \/ EnfileirarNfce(p)
  PROVE  InvNumero'
<1>1. proc[p].passo # "livre"
  BY DEF Transmitir, EnfileirarNfce
<1>2. PICK v \in VendaNf : proc[p].venda = v
  BY <1>1, TiposDoProcesso DEF InvNumero, ProcAtivo
<1>3. proc[p] \in ProcAtivo
  BY <1>1, TiposDoProcesso DEF InvNumero
<1>4. /\ nota[v] \in Nota /\ nota[v].status # "NENHUMA" /\ proc[p].copia.numero >= 1
      /\ nota' = [nota EXCEPT ![v] = nota[v]] /\ configNf' = configNf /\ lista' = lista
  <2>1. UNCHANGED <<configNf, nota, lista>>
    BY DEF Transmitir, EnfileirarNfce
  <2>2. nota[v].status # "NENHUMA" /\ proc[p].copia.numero >= 1
    BY <1>1, <1>2 DEF InvNumero, Numerada
  <2>3. QED
    BY <2>1, <2>2, NotaMantida DEF InvNumero, TiposNf
<1>5. CASE Transmitir(p)
  <2>1. PICK r \in {"AUTORIZADA", "REJEITADA", "SEM_RESPOSTA"} :
          proc' = [proc EXCEPT ![p].passo = "resposta", ![p].resposta = r]
    BY <1>5 DEF Transmitir
  <2>2. sefaz' \subseteq DocumentoNf
    <3>1. [serie |-> proc[p].copia.serie, numero |-> proc[p].copia.numero, tipo |-> proc[p].copia.xml] \in DocumentoNf
      <4>1. proc[p].copia \in Nota /\ proc[p].copia.numero \in 1..MaxNumeroNf
        BY <1>3, <1>4, ConstantesNfce DEF ProcAtivo, Nota
      <4>2. QED
        BY <4>1 DEF Nota, DocumentoNf
    <3>2. sefaz \subseteq DocumentoNf
      BY DEF InvNumero, TiposNf
    <3>3. QED
      BY <1>5, <3>1, <3>2 DEF Transmitir
  <2> DEFINE k == [proc[p] EXCEPT !.passo = "resposta", !.resposta = r]
  <2>3. k \in ProcAtivo /\ k.venda = v /\ k.copia = proc[p].copia /\ k.resposta = r
    BY <1>2, <1>3 DEF ProcAtivo, RespostaNf
  <2>4. k \in ProcNf
    BY <2>3 DEF ProcNf, ProcAtivo
  <2>5. proc' = [proc EXCEPT ![p] = k]
    BY <2>1 DEF InvNumero, TiposNf
  <2>6. eventoNf' \subseteq EventoNf /\ eventoNf' = eventoNf /\ nota' = nota
    BY <1>5 DEF Transmitir, InvNumero, TiposNf
  <2>7. DaSerieENumero(proc[p].copia, v)
    BY <1>1, <1>2 DEF InvNumero, Copiada
  <2>8. /\ sefaz \subseteq sefaz' /\ \A d \in sefaz' : d \in sefaz \/ DaSerieENumero(d, v)
        /\ r = "AUTORIZADA" => \E d \in sefaz' : DaSerieENumero(d, v)
    <3>1. proc'[p].resposta = r
      BY <1>3, <2>5 DEF InvNumero, TiposNf, ProcAtivo
    <3>2. DaSerieENumero([serie |-> proc[p].copia.serie, numero |-> proc[p].copia.numero,
                          tipo |-> proc[p].copia.xml], v)
      BY <2>7 DEF DaSerieENumero
    <3>3. QED
      BY <1>3, <1>5, <2>1, <3>1, <3>2 DEF Transmitir, ProcAtivo, InvNumero, TiposNf
  <2>9. r = "AUTORIZADA" => Provada(v)'
    BY <1>4, <2>6, <2>8 DEF Provada, DaSerieENumero, Emitidas
  <2> HIDE DEF k
  <2>10. QED
    BY <1>1, <1>2, <1>4, <2>2, <2>3, <2>4, <2>5, <2>6, <2>7, <2>8, <2>9, NumeroAoTrabalhar
<1>6. CASE EnfileirarNfce(p)
  <2>1. proc' = [proc EXCEPT ![p] = Ocioso] /\ sefaz' = sefaz
    BY <1>6 DEF EnfileirarNfce
  <2>2. eventoNf' \subseteq EventoNf
    <3>1. [venda |-> v, versao |-> nota[v].versao, status |-> nota[v].status, tipo |-> nota[v].tipo] \in EventoNf
      BY <1>4 DEF EventoNf, Nota
    <3>2. QED
      BY <1>2, <1>6, <3>1 DEF EnfileirarNfce, InvNumero, TiposNf
  <2>3. Ocioso \in ProcNf /\ sefaz' \subseteq DocumentoNf
    BY <2>1 DEF ProcNf, InvNumero, TiposNf
  <2>4. \A e \in eventoNf' : e \in eventoNf \/ (e.venda = v /\ e.status = nota[v].status)
    BY <1>2, <1>6 DEF EnfileirarNfce
  <2>5. QED
    BY <1>1, <1>2, <1>4, <2>1, <2>2, <2>3, <2>4, NumeroAoTrabalhar
<1>7. QED
  BY <1>5, <1>6

\* the steps that save the row
LEMMA NumeroAoGravar ==
  ASSUME InvNumero, NEW p \in ProcessoNf,
         \/ GerarXml(p) \/ ConcluirNfce(p) \/ Regenerar(p) \/ RegenerarXml(p)
         \/ Excecao(p) \/ AvancarVersao(p)
  PROVE  InvNumero'
<1>1. proc[p].passo # "livre"
  BY DEF GerarXml, ConcluirNfce, Regenerar, RegenerarXml, Excecao, AvancarVersao
<1>2. PICK v \in VendaNf : proc[p].venda = v
  BY <1>1, TiposDoProcesso DEF InvNumero, ProcAtivo
<1>3. proc[p] \in ProcAtivo /\ proc[p].copia \in Nota /\ proc[p].copia.numero >= 1
  BY <1>1, TiposDoProcesso DEF InvNumero, ProcAtivo, Numerada
<1>4. nota[v] \in Nota /\ nota[v].status # "NENHUMA" /\ nota \in [VendaNf -> Nota] /\ proc \in [ProcessoNf -> ProcNf]
  BY <1>1, <1>2 DEF InvNumero, TiposNf, Numerada
<1>5. /\ configNf' = configNf /\ lista' \subseteq lista /\ UNCHANGED <<sefaz, eventoNf>>
      /\ sefaz' \subseteq DocumentoNf /\ eventoNf' \subseteq EventoNf
  BY DEF GerarXml, ConcluirNfce, Regenerar, RegenerarXml, Excecao, AvancarVersao, InvNumero, TiposNf
<1>6. ASSUME NEW n \in Nota, NEW k \in ProcAtivo,
             n.serie = nota[v].serie, n.numero = nota[v].numero, n.status # "NENHUMA",
             n.status = "AUTORIZADA" => nota[v].status = "AUTORIZADA" \/ proc[p].resposta = "AUTORIZADA",
             k.venda = v, k.copia.serie = proc[p].copia.serie, k.copia.numero = proc[p].copia.numero,
             k.passo # "resposta", k.resposta = proc[p].resposta,
             nota' = [nota EXCEPT ![v] = n], proc' = [proc EXCEPT ![p] = k]
      PROVE  InvNumero'
  <2>1. k \in ProcNf
    BY DEF ProcNf, ProcAtivo
  <2>2. DaSerieENumero(k.copia, v)
    BY <1>1, <1>2, <1>6 DEF InvNumero, Copiada, DaSerieENumero
  <2>3. QED
    BY <1>1, <1>2, <1>5, <1>6, <2>1, <2>2, NumeroAoTrabalhar
<1>7. ASSUME NEW c \in Nota, NEW s \in {"transmitir", "versao"}, NEW t \in {"GERADA", "CONTINGENCIA"},
             c = ComXml(proc[p].copia, t),
             proc' = [proc EXCEPT ![p].passo = s, ![p].copia = c],
             nota' = Gravada(proc'[p])
      PROVE  InvNumero'
  <2> DEFINE k == [proc[p] EXCEPT !.passo = s, !.copia = c]
             n == [nota[v] EXCEPT !.xml = c.xml, !.qr = c.qr, !.status = c.status]
  <2>1. k \in ProcAtivo /\ k.venda = v /\ k.copia = c /\ k.passo = s /\ k.resposta = proc[p].resposta
    BY <1>2, <1>3 DEF ProcAtivo
  <2>2. proc' = [proc EXCEPT ![p] = k] /\ proc'[p] = k
    BY <1>4, <1>7
  <2>3. c.status = t /\ c.serie = proc[p].copia.serie /\ c.numero = proc[p].copia.numero
    BY <1>3, <1>7, ComXmlTipo DEF StatusNf
  <2>4. n \in Nota /\ n.serie = nota[v].serie /\ n.numero = nota[v].numero /\ n.status = t
    BY <1>4, <2>3 DEF Nota
  <2>5. nota' = [nota EXCEPT ![v] = n]
    BY <1>4, <1>7, <2>1, <2>2 DEF Gravada
  <2> HIDE DEF k, n
  <2>6. /\ n.status # "NENHUMA" /\ n.status # "AUTORIZADA" /\ k.passo # "resposta"
        /\ k.copia.serie = proc[p].copia.serie /\ k.copia.numero = proc[p].copia.numero
        /\ proc' = [proc EXCEPT ![p] = k]
    BY <2>1, <2>2, <2>3, <2>4
  <2>7. QED
    BY <1>6, <2>1, <2>4, <2>5, <2>6
<1>8. CASE GerarXml(p)
  <2>1. ComXml(proc[p].copia, "GERADA") \in Nota
    BY <1>3, ComXmlTipo DEF StatusNf
  <2>2. proc' = [proc EXCEPT ![p].passo = "transmitir", ![p].copia = ComXml(proc[p].copia, "GERADA")]
    BY <1>8 DEF GerarXml
  <2>3. nota' = Gravada(proc'[p])
    BY <1>8 DEF GerarXml
  <2>4. QED
    BY <1>7, <2>1, <2>2, <2>3
<1>9. CASE RegenerarXml(p)
  <2>1. ComXml(proc[p].copia, "CONTINGENCIA") \in Nota
    BY <1>3, ComXmlTipo DEF StatusNf
  <2>2. proc' = [proc EXCEPT ![p].passo = "versao", ![p].copia = ComXml(proc[p].copia, "CONTINGENCIA")]
    BY <1>9 DEF RegenerarXml
  <2>3. nota' = Gravada(proc'[p])
    BY <1>9 DEF RegenerarXml
  <2>4. QED
    BY <1>7, <2>1, <2>2, <2>3
<1>10. CASE ConcluirNfce(p)
  <2> DEFINE r == proc[p].resposta
             c == [proc[p].copia EXCEPT !.status = r]
             k == [proc[p] EXCEPT !.passo = "versao", !.copia = c]
             n == [nota[v] EXCEPT !.status = r]
  <2>1. r \in {"AUTORIZADA", "REJEITADA"}
    BY <1>3, <1>10 DEF ConcluirNfce, InvNumero, Numerada, ProcAtivo, RespostaNf
  <2>2. c \in Nota /\ c.serie = proc[p].copia.serie /\ c.numero = proc[p].copia.numero
    BY <1>3, <2>1 DEF Nota, StatusNf
  <2>3. n \in Nota /\ n.serie = nota[v].serie /\ n.numero = nota[v].numero /\ n.status # "NENHUMA"
        /\ n.status = r
    BY <1>4, <2>1 DEF Nota, StatusNf
  <2>4. nota' = [nota EXCEPT ![v] = n] /\ proc' = [proc EXCEPT ![p] = k]
    BY <1>2, <1>4, <1>10 DEF ConcluirNfce
  <2> HIDE DEF c, n
  <2>5. k \in ProcAtivo /\ k.venda = v /\ k.copia = c /\ k.resposta = proc[p].resposta /\ k.passo = "versao"
    BY <1>2, <1>3, <2>2 DEF ProcAtivo
  <2> HIDE DEF k
  <2>6. QED
    BY <1>6, <2>2, <2>3, <2>4, <2>5
<1>11. CASE Regenerar(p)
  <2> DEFINE c == [proc[p].copia EXCEPT !.tipo = "9", !.status = "GERANDO"]
             k == [proc[p] EXCEPT !.passo = "regenerar", !.copia = c]
             n == [nota[v] EXCEPT !.tipo = "9", !.status = "GERANDO"]
  <2>1. c \in Nota /\ c.serie = proc[p].copia.serie /\ c.numero = proc[p].copia.numero
    BY <1>3 DEF Nota, StatusNf, Emissao
  <2>2. n \in Nota /\ n.serie = nota[v].serie /\ n.numero = nota[v].numero /\ n.status = "GERANDO"
    BY <1>4 DEF Nota, StatusNf, Emissao
  <2>3. nota' = [nota EXCEPT ![v] = n] /\ proc' = [proc EXCEPT ![p] = k]
    BY <1>2, <1>4, <1>11 DEF Regenerar
  <2> HIDE DEF c, n
  <2>4. k \in ProcAtivo /\ k.venda = v /\ k.copia = c /\ k.resposta = proc[p].resposta /\ k.passo = "regenerar"
    BY <1>2, <1>3, <2>1 DEF ProcAtivo
  <2> HIDE DEF k
  <2>5. QED
    BY <1>6, <2>1, <2>2, <2>3, <2>4
<1>12. CASE Excecao(p)
  <2> DEFINE x == [proc[p] EXCEPT !.erro = TRUE]
             c == [proc[p].copia EXCEPT !.status = "ERRO_GERACAO"]
             k == [x EXCEPT !.passo = "versao", !.copia = c]
             n == [nota[v] EXCEPT !.status = "ERRO_GERACAO"]
  <2>1. c \in Nota /\ c.serie = proc[p].copia.serie /\ c.numero = proc[p].copia.numero
    BY <1>3 DEF Nota, StatusNf
  <2>2. x \in ProcAtivo /\ x.venda = v /\ x.resposta = proc[p].resposta
    BY <1>2, <1>3 DEF ProcAtivo
  <2>3. n \in Nota /\ n.serie = nota[v].serie /\ n.numero = nota[v].numero /\ n.status = "ERRO_GERACAO"
    BY <1>4 DEF Nota, StatusNf
  <2>4. nota' = [nota EXCEPT ![v] = n] /\ proc' = [proc EXCEPT ![p] = k]
    BY <1>2, <1>4, <1>12 DEF Excecao
  <2> HIDE DEF c, n, x
  <2>5. k \in ProcAtivo /\ k.venda = v /\ k.copia = c /\ k.resposta = proc[p].resposta /\ k.passo = "versao"
    BY <2>1, <2>2 DEF ProcAtivo
  <2> HIDE DEF k
  <2>6. QED
    BY <1>6, <2>1, <2>3, <2>4, <2>5
<1>13. CASE AvancarVersao(p)
  <2> DEFINE m == proc[p].copia.versao + 1
             c == [proc[p].copia EXCEPT !.versao = m]
             k == [proc[p] EXCEPT !.passo = "evento", !.copia = c]
             n == [nota[v] EXCEPT !.versao = m]
  <2>1. m \in Nat
    BY <1>3 DEF Nota
  <2>2. c \in Nota /\ c.serie = proc[p].copia.serie /\ c.numero = proc[p].copia.numero
    BY <1>3, <2>1 DEF Nota
  <2>3. n \in Nota /\ n.serie = nota[v].serie /\ n.numero = nota[v].numero /\ n.status # "NENHUMA"
        /\ n.status = nota[v].status
    BY <1>4, <2>1 DEF Nota
  <2>4. /\ nota' = [nota EXCEPT ![v].versao = m]
        /\ proc' = [proc EXCEPT ![p].passo = "evento", ![p].copia.versao = m]
    BY <1>2, <1>13 DEF AvancarVersao
  <2> HIDE DEF m
  <2>5. nota' = [nota EXCEPT ![v] = n] /\ proc' = [proc EXCEPT ![p] = k]
    BY <1>4, <2>4
  <2> HIDE DEF c, n
  <2>6. k \in ProcAtivo /\ k.venda = v /\ k.copia = c /\ k.resposta = proc[p].resposta /\ k.passo = "evento"
    BY <1>2, <1>3, <2>2 DEF ProcAtivo
  <2> HIDE DEF k
  <2>7. QED
    BY <1>6, <2>2, <2>3, <2>5, <2>6
<1>14. QED
  BY <1>8, <1>9, <1>10, <1>11, <1>12, <1>13

\* the number is taken and the next one moves on, in one transaction
LEMMA NumeroAoPreparar ==
  ASSUME InvNumero, NEW v \in VendaNf, PrepararNfce(v)
  PROVE  InvNumero'
<1> USE DEF InvNumero
<1> DEFINE s == configNf.serie
           i == configNf.proximo
           n == [nota[v] EXCEPT !.status = "PENDENTE_TRANSMISSAO", !.tipo = "1", !.serie = s, !.numero = i]
           k == [Trabalho(v, "preparada", FALSE) EXCEPT !.copia = n]
<1>1. s \in Serie /\ i \in 1..MaxNumeroNf /\ nota[v].status = "NENHUMA"
  BY ConstantesNfce DEF PrepararNfce, TiposNf
<1>2. n \in Nota /\ n.serie = s /\ n.numero = i /\ n.status = "PENDENTE_TRANSMISSAO"
  <2>1. nota[v] \in Nota /\ i \in 0..MaxNumeroNf
    BY <1>1 DEF TiposNf
  <2>2. QED
    BY <1>1, <2>1 DEF Nota, StatusNf, Emissao
<1>3. /\ nota' = [nota EXCEPT ![v] = n] /\ nota'[v] = n
      /\ configNf' = [configNf EXCEPT !.proximo = i + 1]
      /\ UNCHANGED <<sefaz, eventoNf, lista>>
  BY DEF PrepararNfce, TiposNf
<1> HIDE DEF n
<1>4. proc' = [proc EXCEPT ![v] = k]
  BY <1>3 DEF PrepararNfce
<1>5. k \in ProcAtivo /\ k.venda = v /\ k.copia = n /\ k.passo = "preparada" /\ k.resposta = "nenhuma"
  <2>1. Trabalho(v, "preparada", FALSE) \in ProcAtivo
    BY DEF Trabalho, ProcAtivo, RespostaNf, TiposNf
  <2>2. /\ Trabalho(v, "preparada", FALSE).venda = v /\ Trabalho(v, "preparada", FALSE).passo = "preparada"
        /\ Trabalho(v, "preparada", FALSE).resposta = "nenhuma"
    BY DEF Trabalho
  <2>3. QED
    BY <1>2, <2>1, <2>2 DEF ProcAtivo
<1> HIDE DEF k
<1>6. configNf' \in [serie : Serie, proximo : 1..(MaxNumeroNf + 1)] /\ configNf'.serie = s /\ configNf'.proximo = i + 1
  <2>1. i + 1 \in 1..(MaxNumeroNf + 1)
    BY <1>1, ConstantesNfce
  <2>2. QED
    BY <1>3, <2>1 DEF TiposNf
<1>7. TiposNf'
  <2>1. k \in ProcNf
    BY <1>5 DEF ProcNf, ProcAtivo
  <2>2. QED
    BY <1>2, <1>3, <1>4, <1>6, <2>1 DEF TiposNf
<1>8. \A w \in VendaNf : w # v => nota'[w] = nota[w]
  BY <1>3 DEF TiposNf
<1>9. (\A w \in Emitidas : nota[w].numero >= 1)'
  BY <1>1, <1>2, <1>3, <1>8 DEF Emitidas
<1>10. NumeroLivre'
  <2>1. SUFFICES ASSUME NEW w \in VendaNf, nota'[w].status # "NENHUMA", nota'[w].serie = s
                 PROVE  nota'[w].numero < i + 1
    BY <1>6 DEF NumeroLivre, Emitidas
  <2>2. CASE w = v
    BY <1>1, <1>2, <1>3, <2>2
  <2>3. CASE w # v
    <3>1. nota[w].numero < i /\ nota[w].numero \in 0..MaxNumeroNf
      BY <1>8, <2>1, <2>3 DEF NumeroLivre, Emitidas, TiposNf, Nota
    <3>2. QED
      BY <1>1, <1>8, <2>3, <3>1
  <2>4. QED
    BY <2>2, <2>3
<1>11. ASSUME NEW q \in ProcessoNf PROVE Numerada(q)'
  <2>1. CASE q = v
    <3>1. proc'[q] = k
      BY <1>4, <2>1 DEF TiposNf
    <3>2. proc'[q].venda = v /\ proc'[q].copia = n /\ proc'[q].passo = "preparada"
      BY <1>5, <3>1
    <3>3. nota'[v].status # "NENHUMA" /\ n.numero >= 1
      BY <1>1, <1>2, <1>3
    <3>4. QED
      BY <3>2, <3>3 DEF Numerada
  <2>2. CASE q # v
    <3>1. proc'[q] = proc[q] /\ (proc[q].passo # "livre" => proc[q].venda \in VendaNf)
      BY <1>4, <2>2, TiposDoProcesso DEF TiposNf, ProcAtivo
    <3>2. Numerada(q)
      OBVIOUS
    <3>3. QED
      BY <1>1, <1>8, <3>1, <3>2 DEF Numerada
  <2>3. QED
    BY <2>1, <2>2
<1>12. (\A l \in lista : nota[l[1]].status # "NENHUMA" /\ l[2].numero >= 1)'
  <2>1. \A l \in lista : l[1] \in VendaNf
    BY DEF TiposNf
  <2>2. QED
    BY <1>1, <1>3, <1>8, <2>1
<1>13. v \notin Emitidas /\ Emitidas' = Emitidas \cup {v}
  BY <1>1, <1>2, <1>3, <1>8 DEF Emitidas
<1>14. \A w \in VendaNf : Provada(w) => w # v /\ Provada(w)'
  BY <1>3, <1>8, <1>13 DEF Provada, DaSerieENumero
<1>15. DaVenda'
  <2>1. ASSUME NEW x \in Emitidas', NEW y \in Emitidas',
               nota'[x].serie = nota'[y].serie, nota'[x].numero = nota'[y].numero
        PROVE  x = y
    <3>1. \A w \in Emitidas : w \in VendaNf /\ w # v /\ nota'[w] = nota[w]
                              /\ (nota[w].serie = s => nota[w].numero < i)
      BY <1>8, <1>13 DEF Emitidas, NumeroLivre
    <3>2. \A w \in Emitidas : ~(nota'[w].serie = s /\ nota'[w].numero = i)
      <4>1. SUFFICES ASSUME NEW w \in Emitidas, nota'[w].serie = s, nota'[w].numero = i PROVE FALSE
        OBVIOUS
      <4>2. i < i /\ i \in Nat
        BY <1>1, <3>1, <4>1
      <4>3. QED
        BY <4>2
    <3>3. CASE x = v \/ y = v
      BY <1>2, <1>3, <1>13, <2>1, <3>2, <3>3
    <3>4. CASE x # v /\ y # v
      BY <1>13, <2>1, <3>1, <3>4 DEF DaVenda
    <3>5. QED
      BY <3>3, <3>4
  <2>2. ASSUME NEW d \in sefaz' PROVE \E w \in Emitidas' : DaSerieENumero(d, w)'
    <3>1. PICK w \in Emitidas : DaSerieENumero(d, w)
      BY <1>3 DEF DaVenda
    <3>2. w \in Emitidas' /\ nota'[w] = nota[w]
      BY <1>8, <1>13 DEF Emitidas
    <3>3. QED
      BY <3>1, <3>2 DEF DaSerieENumero
  <2>3. ASSUME NEW w \in VendaNf, nota'[w].status = "AUTORIZADA" PROVE Provada(w)'
    BY <1>2, <1>3, <1>8, <1>14, <2>3 DEF DaVenda
  <2>4. ASSUME NEW e \in eventoNf', e.status = "AUTORIZADA" PROVE Provada(e.venda)'
    <3>1. e \in eventoNf /\ e.venda \in VendaNf /\ Provada(e.venda)
      BY <1>3, <2>4 DEF TiposNf, EventoNf, DaVenda
    <3>2. QED
      BY <1>14, <3>1
  <2>5. QED
    BY <2>1, <2>2, <2>3, <2>4 DEF DaVenda
<1>16. ASSUME NEW q \in ProcessoNf PROVE Copiada(q)'
  <2>1. CASE q = v
    <3>1. proc'[q] = k /\ k.resposta # "AUTORIZADA"
      BY <1>4, <1>5, <2>1 DEF TiposNf, ProcessoNf
    <3>2. QED
      BY <1>2, <1>3, <1>5, <3>1 DEF Copiada, DaSerieENumero
  <2>2. CASE q # v /\ proc[q].passo # "livre"
    <3>1. /\ proc'[q] = proc[q] /\ proc[q].venda \in VendaNf /\ nota[proc[q].venda].status # "NENHUMA"
          /\ Copiada(q)
      BY <1>4, <2>2, TiposDoProcesso DEF TiposNf, ProcAtivo, Numerada
    <3>2. nota'[proc[q].venda] = nota[proc[q].venda]
      BY <1>1, <1>8, <3>1
    <3>3. QED
      BY <1>14, <2>2, <3>1, <3>2 DEF Copiada, DaSerieENumero
  <2>3. CASE q # v /\ proc[q].passo = "livre"
    BY <1>4, <2>3 DEF Copiada, TiposNf
  <2>4. QED
    BY <2>1, <2>2, <2>3
<1>17. ASSUME NEW l \in lista' PROVE Listada(l)'
  <2>1. l \in lista /\ l[1] \in VendaNf /\ l[1] # v /\ Listada(l)
    BY <1>1, <1>3 DEF TiposNf
  <2>2. QED
    BY <1>8, <2>1 DEF Listada, DaSerieENumero
<1>18. QED
  BY <1>7, <1>9, <1>10, <1>11, <1>12, <1>15, <1>16, <1>17

\* an answer of the Central that is old does not take the next number back
LEMMA NumeroAoImportar ==
  ASSUME InvNumero, NEW s \in Serie, NEW n \in 1..(MaxNumeroNf + 1), ImportarFiscal(s, n)
  PROVE  InvNumero'
<1> USE DEF InvNumero
<1>1. /\ CentralConhece(s, n) /\ UNCHANGED <<nota, sefaz, eventoNf, proc, lista>>
      /\ configNf' = [serie |-> s, proximo |-> ProximoImportado(s, n)]
  BY DEF ImportarFiscal
<1>2. configNf.proximo \in 1..(MaxNumeroNf + 1) /\ configNf.proximo \in Nat /\ n \in Nat
  BY ConstantesNfce DEF TiposNf
<1>3. /\ ProximoImportado(s, n) \in 1..(MaxNumeroNf + 1)
      /\ s = configNf.serie => ProximoImportado(s, n) >= configNf.proximo
      /\ s # configNf.serie => ProximoImportado(s, n) = n
  BY <1>2, MaiorDeDois DEF ProximoImportado
<1>4. TiposNf'
  BY <1>1, <1>3 DEF TiposNf
<1>5. Emitidas' = Emitidas
  BY <1>1 DEF Emitidas
<1>6. NumeroLivre'
  <2>1. SUFFICES ASSUME NEW v \in Emitidas, nota[v].serie = s
                 PROVE  nota[v].numero < ProximoImportado(s, n)
    BY <1>1, <1>5 DEF NumeroLivre
  <2>2. nota[v].numero \in Nat /\ ProximoImportado(s, n) \in Nat
    BY <1>3, ConstantesNfce DEF Emitidas, TiposNf, Nota
  <2>3. CASE s = configNf.serie
    BY <1>2, <1>3, <2>1, <2>2, <2>3 DEF NumeroLivre
  <2>4. CASE s # configNf.serie
    BY <1>1, <1>3, <2>1, <2>2, <2>4 DEF CentralConhece
  <2>5. QED
    BY <2>3, <2>4
<1>7. \A p \in ProcessoNf : Numerada(p)'
  BY <1>1 DEF Numerada
<1>8. DaVenda' /\ (\A p \in ProcessoNf : Copiada(p)') /\ \A l \in lista' : Listada(l)'
  BY <1>1, <1>5, DaVendaMantida
<1>9. QED
  BY <1>1, <1>4, <1>5, <1>6, <1>7, <1>8

LEMMA NumeroAoListar ==
  ASSUME InvNumero, Listar \/ \E l \in lista : TratarListada(l[1], l[2])
  PROVE  InvNumero'
<1> USE DEF InvNumero
<1>1. UNCHANGED <<configNf, nota, sefaz, eventoNf>>
  BY DEF Listar, TratarListada
<1>2. Emitidas' = Emitidas /\ NumeroLivre'
  BY <1>1 DEF Emitidas, NumeroLivre
<1>3. CASE Listar
  <2>1. /\ lista' = {<<v, nota[v]>> : v \in {x \in VendaNf : Pendente(x)}} /\ proc' = proc
    BY <1>3 DEF Listar
  <2>2. TiposNf'
    BY <1>1, <2>1 DEF TiposNf
  <2>3. \A v \in VendaNf : Pendente(v) => nota[v].status # "NENHUMA" /\ nota[v].numero >= 1
    BY DEF Pendente, Emitidas
  <2>4. (\A l \in lista : nota[l[1]].status # "NENHUMA" /\ l[2].numero >= 1)'
    BY <1>1, <2>1, <2>3
  <2>5. \A p \in ProcessoNf : Numerada(p)'
    BY <1>1, <2>1 DEF Numerada
  <2>6. DaVenda' /\ \A p \in ProcessoNf : Copiada(p)'
    BY <1>1, <2>1 DEF DaVenda, Copiada, Provada, Emitidas, DaSerieENumero
  <2>7. \A l \in lista' : Listada(l)'
    BY <1>1, <2>1 DEF Listada, DaSerieENumero
  <2>8. QED
    BY <1>1, <1>2, <2>2, <2>4, <2>5, <2>6, <2>7
<1>4. ASSUME NEW l \in lista, TratarListada(l[1], l[2]) PROVE InvNumero'
  <2>1. PICK v \in VendaNf, c \in Nota : l = <<v, c>>
    BY DEF TiposNf
  <2>2. /\ nota[v].status # "NENHUMA" /\ nota[v].numero >= 1 /\ c.numero >= 1 /\ nota[v] \in Nota
        /\ DaSerieENumero(c, v)
    BY <2>1 DEF Emitidas, TiposNf, Listada
  <2> DEFINE k == IF c.status = "CONTINGENCIA"
                  THEN [Trabalho(v, "transmitir", TRUE) EXCEPT !.copia = c]
                  ELSE Trabalho(v, "ler", FALSE)
  <2>3. lista' = lista \ {<<v, c>>} /\ proc' = [proc EXCEPT ![ComandoNf] = k]
    BY <1>4, <2>1 DEF TratarListada
  <2>4. /\ k \in ProcAtivo /\ k.venda = v /\ k.copia.numero >= 1 /\ k.passo # "resposta"
        /\ DaSerieENumero(k.copia, v) /\ k.resposta = "nenhuma"
    BY <2>2 DEF Trabalho, ProcAtivo, RespostaNf, DaSerieENumero
  <2>5. k \in ProcNf
    BY <2>4 DEF ProcNf, ProcAtivo
  <2> HIDE DEF k
  <2>6. TiposNf'
    BY <1>1, <2>3, <2>5 DEF TiposNf
  <2>7. ASSUME NEW p \in ProcessoNf PROVE Numerada(p)'
    <3>1. CASE p = ComandoNf
      <4>1. proc'[p] = k
        BY <2>3, <3>1 DEF TiposNf
      <4>2. QED
        BY <1>1, <2>2, <2>4, <4>1 DEF Numerada
    <3>2. CASE p # ComandoNf
      <4>1. proc'[p] = proc[p]
        BY <2>3, <3>2 DEF TiposNf
      <4>2. QED
        BY <1>1, <4>1 DEF Numerada
    <3>3. QED
      BY <3>1, <3>2
  <2>8. Copiada(ComandoNf)' /\ \A q \in ProcessoNf : q # ComandoNf => proc'[q] = proc[q]
    <3>1. proc'[ComandoNf] = k /\ \A q \in ProcessoNf : q # ComandoNf => proc'[q] = proc[q]
      BY <2>3 DEF TiposNf, ProcessoNf
    <3>2. QED
      BY <1>1, <2>4, <3>1 DEF Copiada, DaSerieENumero
  <2>9. DaVenda' /\ (\A q \in ProcessoNf : Copiada(q)') /\ \A m \in lista' : Listada(m)'
    BY <1>1, <1>2, <2>3, <2>8, DaVendaMantida
  <2>10. QED
    BY <1>1, <1>2, <2>3, <2>6, <2>7, <2>9
<1>5. QED
  BY <1>3, <1>4

LEMMA NumeroMantido ==
  ASSUME InvNumero, [NextNfce]_varsNfce
  PROVE  InvNumero'
<1>1. CASE NextNfce
  BY <1>1, NumeroAoPreparar, NumeroAoImportar, NumeroAoListar, NumeroSemGravar, NumeroForaDoHub, NumeroAoGravar
     DEF NextNfce, PassoNfce
<1>2. CASE UNCHANGED varsNfce
  BY <1>2 DEF InvNumero, TiposNf, Emitidas, Numerada, NumeroLivre, DaVenda, Copiada, Listada, Provada,
              DaSerieENumero, varsNfce
<1>3. QED
  BY <1>1, <1>2

\* Configuration, rows, documents of SEFAZ, events and processes keep their types:
\* no number goes past the last of the series, and SEFAZ gets no document without one.
THEOREM TipoNfce == SpecNfce => []TypeOKNfce
<1>1. InitNfce => TypeOKNfce
  BY InvInicialNumero DEF InvNumero, TiposNf, TypeOKNfce, InitNfce
<1>2. InvNumero /\ InvNumero' /\ TypeOKNfce /\ [NextNfce]_varsNfce => TypeOKNfce'
  BY DEF InvNumero, TiposNf, TypeOKNfce, NextNfce, varsNfce
<1>3. QED
  BY <1>1, <1>2, InvInicialNumero, NumeroMantido, PTL DEF SpecNfce

\* The next number is above every number issued in its series, whatever the
\* processes do at once and however old the answers of the Central are
\* (_reservar_numero, _sincronizar_fiscal).
THEOREM NumeroLivreSempre == SpecNfce => []NumeroLivre
<1>1. InvNumero => NumeroLivre
  BY DEF InvNumero
<1>2. QED
  BY <1>1, InvInicialNumero, NumeroMantido, PTL DEF SpecNfce

LEMMA DocumentoDoNumero ==
  ASSUME InvNumero
  PROVE  DocumentoDeUmaVenda
<1>1. ASSUME NEW d \in sefaz
      PROVE  \E v \in Emitidas : DaSerieENumero(d, v) /\ \A w \in Emitidas : DaSerieENumero(d, w) => w = v
  <2>1. PICK v \in Emitidas : DaSerieENumero(d, v)
    BY DEF InvNumero, DaVenda
  <2>2. \A w \in Emitidas : DaSerieENumero(d, w) => w = v
    BY <2>1 DEF InvNumero, DaVenda, DaSerieENumero
  <2>3. QED
    BY <2>1, <2>2
<1>2. QED
  BY <1>1 DEF InvNumero, DaVenda, Provada, DocumentoDeUmaVenda

\* A document SEFAZ authorised is of one sale, and what the hub holds for authorised,
\* or told the Central that it is, has its number authorised, whatever the command and
\* the conclusion do at once on one row (preparar_nfce_para_venda_finalizada,
\* processar_nfce_preparada, retransmitir_nfces_pendentes).
THEOREM DocumentoDeUmaVendaSempre == SpecNfce => []DocumentoDeUmaVenda
<1>1. InvNumero => DocumentoDeUmaVenda
  BY DocumentoDoNumero
<1>2. QED
  BY <1>1, InvInicialNumero, NumeroMantido, PTL DEF SpecNfce

-----------------------------------------------------------------------------
(* Documents *)

LEMMA InvInicialNfce == InitNfce => InvNfce
<1> SUFFICES ASSUME InitNfce PROVE InvNfce
  OBVIOUS
<1>1. \A v \in VendaNf : nota[v].status = "NENHUMA"
  BY DEF InitNfce
<1>2. eventoNf = {} /\ lista = {} /\ \A p \in ProcessoNf : proc[p].passo = "livre"
  BY DEF InitNfce, Ocioso
<1>3. Dono
  BY <1>2 DEF Dono, Ativo, ProcessoNf
<1>4. \A p \in ProcessoNf : NaMao(p)
  BY <1>2 DEF NaMao, Trabalha
<1>5. \A v \in VendaNf : Autorizada(v) /\ Documento(v)
  BY <1>1 DEF Autorizada, Documento
<1>6. Separadas
  BY <1>2 DEF Separadas, NasDuas, Trabalha, ProcessoNf
<1>7. QED
  BY <1>2, <1>3, <1>4, <1>5, <1>6, InvInicialNumero DEF InvNfce

\* one process at most works on a row
LEMMA Exclusivo ==
  ASSUME Dono, Separadas, NEW p \in ProcessoNf, NEW q \in ProcessoNf, Trabalha(p), Trabalha(q),
         proc[p].venda = proc[q].venda, proc[p].venda \notin disputada
  PROVE  p = q
<1>1. CASE p \in VendaNf /\ q \in VendaNf
  BY <1>1 DEF Dono, Trabalha
<1>2. CASE p = ComandoNf /\ q \in VendaNf
  <2>1. proc[q].venda = q /\ q \notin disputada
    BY <1>2 DEF Dono, Trabalha
  <2>2. NasDuas(q)
    BY <1>2, <2>1 DEF NasDuas
  <2>3. QED
    BY <1>2, <2>1, <2>2 DEF Separadas
<1>3. CASE q = ComandoNf /\ p \in VendaNf
  <2>1. proc[p].venda = p /\ p \notin disputada
    BY <1>3 DEF Dono, Trabalha
  <2>2. NasDuas(p)
    BY <1>3, <2>1 DEF NasDuas
  <2>3. QED
    BY <1>3, <2>1, <2>2 DEF Separadas
<1>4. QED
  BY <1>1, <1>2, <1>3 DEF ProcessoNf

\* what is kept of a row and of the process that works on it
LinhaCerta(p, v) ==
  /\ NaMao(p) /\ Autorizada(v) /\ Documento(v)
  /\ \A e \in eventoNf : e.venda = v => Informada(e)

\* a process that works changes its row and what it holds, and nothing of the others
LEMMA PassoDono ==
  ASSUME InvNfce, InvNumero', disputada \subseteq disputada', Separadas', NEW p \in ProcessoNf, NEW v \in VendaNf, Trabalha(p), proc[p].venda = v,
         NEW k, proc' = [proc EXCEPT ![p] = k],
         k.passo = "livre" \/ (k.venda = v /\ k.passo \notin {"ler", "preparada"}),
         \A w \in VendaNf : w # v => nota'[w] = nota[w],
         sefaz \subseteq sefaz', \A e \in eventoNf' : e \in eventoNf \/ e.venda = v, lista' = lista,
         v \in disputada' \/ LinhaCerta(p, v)'
  PROVE  InvNfce'
<1> USE DEF InvNfce, InvNumero
<1>1. proc'[p] = k /\ \A q \in ProcessoNf : q # p => proc'[q] = proc[q]
  BY DEF TiposNf
<1>2. Ativo(p) /\ \A q \in ProcessoNf : Ativo(q)' => Ativo(q)
  BY <1>1 DEF Ativo, Trabalha
<1>3. Dono'
  <2>1. \A w \in VendaNf : proc'[w].passo # "livre" => proc'[w].venda = w /\ proc'[w].passo # "ler"
    <3>1. CASE p \in VendaNf
      BY <1>1, <3>1 DEF Dono, Trabalha, ProcessoNf
    <3>2. CASE p \notin VendaNf
      BY <1>1, <3>2 DEF Dono, ProcessoNf
    <3>3. QED
      BY <3>1, <3>2
  <2>2. proc'[ComandoNf].passo # "preparada"
    BY <1>1 DEF Dono, ProcessoNf
  <2>3. QED
    BY <2>1, <2>2 DEF Dono
<1>4. ASSUME NEW q \in ProcessoNf, q # p PROVE NaMao(q)'
  <2>1. SUFFICES ASSUME Trabalha(q), proc[q].venda \notin disputada' PROVE NaMao(q)'
    BY <1>1, <1>4 DEF NaMao, Trabalha
  <2>2. proc[q].venda \in VendaNf /\ proc[q].venda # v
    <3>1. proc[q].venda \in VendaNf
      BY <2>1, TiposDoProcesso DEF Trabalha, ProcAtivo
    <3>2. QED
      BY <1>4, <2>1, <3>1, Exclusivo
  <2>3. NaMao(q)
    OBVIOUS
  <2>4. QED
    BY <1>1, <1>4, <2>1, <2>2, <2>3 DEF NaMao, Trabalha
<1>5. ASSUME NEW l \in lista PROVE NaLista(l)'
  <2>1. l[1] \in VendaNf /\ NaLista(l)
    BY DEF TiposNf
  <2>2. l[2].status = "CONTINGENCIA" /\ l[1] \notin disputada => l[1] # v
    <3>1. CASE p \in VendaNf
      <4>1. v = p
        BY <3>1 DEF Dono, Trabalha
      <4>2. l[2].status = "CONTINGENCIA" /\ l[1] = v => NasDuas(v)
        BY <4>1 DEF NasDuas
      <4>3. QED
        BY <2>1, <4>2 DEF Separadas
    <3>2. CASE p = ComandoNf
      BY <1>2, <2>1, <3>2, ConstantesNfce DEF NaLista
    <3>3. QED
      BY <3>1, <3>2 DEF ProcessoNf
  <2>3. l[2].status = "CONTINGENCIA" /\ l[1] \notin disputada' => nota'[l[1]] = l[2]
    BY <2>1, <2>2 DEF NaLista
  <2>4. Ativo(ComandoNf)' => proc'[ComandoNf].venda # l[1]
    <3>1. CASE p = ComandoNf
      BY <1>1, <1>2, <2>1, <3>1 DEF NaLista, Ativo
    <3>2. CASE p # ComandoNf
      BY <1>1, <1>2, <2>1, <3>2 DEF NaLista, ProcessoNf
    <3>3. QED
      BY <3>1, <3>2
  <2>5. QED
    BY <2>1, <2>3, <2>4 DEF NaLista
<1>6. ASSUME NEW w \in VendaNf, w # v PROVE Autorizada(w)' /\ Documento(w)'
  <2>1. Autorizada(w) /\ Documento(w) /\ nota'[w] = nota[w]
    BY <1>6
  <2>2. QED
    BY <2>1 DEF Autorizada, Documento
<1>7. ASSUME NEW e \in eventoNf', e.venda # v PROVE Informada(e)'
  <2>1. e \in eventoNf /\ e.venda \in VendaNf /\ Informada(e)
    BY <1>7 DEF TiposNf, EventoNf
  <2>2. QED
    BY <1>7, <2>1 DEF Informada
<1>8. LinhaCerta(p, v)'
  <2>1. Trabalha(p)' => proc'[p].venda = v
    BY <1>1 DEF Trabalha
  <2>2. CASE v \in disputada'
    BY <2>1, <2>2 DEF LinhaCerta, NaMao, Autorizada, Documento, Informada
  <2>3. QED
    BY <2>2
<1>9. \A e \in eventoNf' : Informada(e)'
  BY <1>7, <1>8 DEF LinhaCerta
<1>10. QED
  BY <1>3, <1>4, <1>5, <1>6, <1>8, <1>9 DEF LinhaCerta

\* a step that writes no row, document or event
LEMMA LinhasNfceMantidas ==
  ASSUME InvNfce, disputada \subseteq disputada', UNCHANGED <<nota, sefaz, eventoNf>>
  PROVE  /\ \A v \in VendaNf : Autorizada(v)' /\ Documento(v)'
         /\ \A e \in eventoNf' : Informada(e)'
<1>1. \A v \in VendaNf : Autorizada(v) /\ Documento(v)
  BY DEF InvNfce
<1>2. \A e \in eventoNf : Informada(e)
  BY DEF InvNfce
<1>3. \A v \in VendaNf : Autorizada(v)' /\ Documento(v)'
  BY <1>1 DEF Autorizada, Documento
<1>4. \A e \in eventoNf' : Informada(e)'
  BY <1>2 DEF Informada
<1>5. QED
  BY <1>3, <1>4

\* a process that gives up
LEMMA InvDesistir ==
  ASSUME InvNfce, InvNumero', disputada \subseteq disputada', Separadas', NEW p \in ProcessoNf, proc' = [proc EXCEPT ![p] = Ocioso],
         lista' \subseteq lista, UNCHANGED <<nota, sefaz, eventoNf>>
  PROVE  InvNfce'
<1> USE DEF InvNfce, InvNumero
<1>1. \A q \in ProcessoNf : proc'[q].passo = "livre" \/ proc'[q] = proc[q]
  BY DEF TiposNf, Ocioso
<1>2. \A q \in ProcessoNf : Ativo(q)' => Ativo(q) /\ proc'[q] = proc[q]
  BY <1>1 DEF Ativo
<1>3. Dono'
  BY <1>1, <1>2 DEF Dono, ProcessoNf
<1>4. \A q \in ProcessoNf : NaMao(q)'
  <2>1. \A q \in ProcessoNf : NaMao(q)
    OBVIOUS
  <2>2. QED
    BY <1>1, <2>1 DEF NaMao, Trabalha
<1>5. ASSUME NEW l \in lista' PROVE NaLista(l)'
  <2>1. l \in lista /\ l[1] \in ProcessoNf /\ ComandoNf \in ProcessoNf /\ NaLista(l)
    BY DEF TiposNf, ProcessoNf
  <2>2. QED
    BY <1>2, <2>1 DEF NaLista
<1>6. QED
  BY <1>3, <1>4, <1>5, LinhasNfceMantidas

\* the process that works, its row and its answer
LEMMA LinhaNaMao ==
  ASSUME InvNfce, NEW p \in ProcessoNf, Trabalha(p), proc[p].venda \notin disputada
  PROVE  /\ proc[p] \in ProcAtivo /\ proc[p].venda \in VendaNf /\ proc[p].copia \in Nota
         /\ nota[proc[p].venda] = proc[p].copia
         /\ NaMao(p) /\ Autorizada(proc[p].venda) /\ Documento(proc[p].venda)
         /\ nota \in [VendaNf -> Nota] /\ proc \in [ProcessoNf -> ProcNf]
<1>1. proc[p] \in ProcAtivo /\ NaMao(p)
  BY TiposDoProcesso DEF InvNfce, InvNumero, Trabalha
<1>2. proc[p].venda \in VendaNf /\ proc[p].copia \in Nota
  BY <1>1 DEF ProcAtivo
<1>3. nota \in [VendaNf -> Nota] /\ proc \in [ProcessoNf -> ProcNf]
  BY DEF InvNfce, InvNumero, TiposNf
<1>4. QED
  BY <1>1, <1>2, <1>3 DEF InvNfce, NaMao

LEMMA MesmaNota ==
  ASSUME NEW x \in Nota, NEW y \in Nota, x.status = y.status, x.serie = y.serie, x.numero = y.numero,
         x.tipo = y.tipo, x.xml = y.xml, x.qr = y.qr, x.versao = y.versao
  PROVE  x = y
  BY DEF Nota

\* the document is made and saved with its QR code, in both attempts
LEMMA InvGerarXml ==
  ASSUME InvNfce, InvNumero', disputada \subseteq disputada', Separadas', NEW p \in ProcessoNf, GerarXml(p) \/ RegenerarXml(p),
         proc[p].venda \notin disputada'
  PROVE  InvNfce'
<1>1. Trabalha(p)
  BY DEF GerarXml, RegenerarXml, Trabalha
<1>2. PICK v \in VendaNf : proc[p].venda = v
  BY <1>1, LinhaNaMao
<1>3. PICK s \in {"GERADA", "CONTINGENCIA"}, t \in {"transmitir", "versao"} :
        /\ proc' = [proc EXCEPT ![p].passo = t, ![p].copia = ComXml(@, s)]
        /\ nota' = Gravada(proc'[p])
        /\ UNCHANGED <<configNf, sefaz, eventoNf, lista>>
  BY DEF GerarXml, RegenerarXml
<1> DEFINE c == ComXml(proc[p].copia, s)
           k == [proc[p] EXCEPT !.passo = t, !.copia = c]
<1>4. /\ c \in Nota /\ c.status = s /\ c.versao = nota[v].versao /\ c.serie = nota[v].serie
      /\ c.numero = nota[v].numero /\ c.tipo = nota[v].tipo /\ c.xml = c.tipo /\ c.qr = c.tipo
  BY <1>1, <1>2, LinhaNaMao, ComXmlTipo DEF StatusNf
<1>5. proc' = [proc EXCEPT ![p] = k] /\ proc'[p] = k
  BY <1>1, <1>3, LinhaNaMao
<1> HIDE DEF c
<1>6. k.venda = v /\ k.copia = c /\ k.passo = t
  BY <1>1, <1>2, <1>4, LinhaNaMao DEF ProcAtivo
<1> HIDE DEF k
<1>7. nota' = [nota EXCEPT ![v] = [nota[v] EXCEPT !.xml = c.xml, !.qr = c.qr, !.status = c.status]]
  BY <1>1, <1>2, <1>3, <1>5, <1>6, LinhaNaMao DEF Gravada
<1>8. nota'[v] = c /\ \A w \in VendaNf : w # v => nota'[w] = nota[w]
  <2>1. nota[v] \in Nota /\ nota \in [VendaNf -> Nota]
    BY <1>1, <1>2, LinhaNaMao
  <2>2. [nota[v] EXCEPT !.xml = c.xml, !.qr = c.qr, !.status = c.status] = c
    <3> DEFINE x == [nota[v] EXCEPT !.xml = c.xml, !.qr = c.qr, !.status = c.status]
    <3>1. /\ x \in Nota /\ x.status = c.status /\ x.xml = c.xml /\ x.qr = c.qr
          /\ x.serie = nota[v].serie /\ x.numero = nota[v].numero
          /\ x.tipo = nota[v].tipo /\ x.versao = nota[v].versao
      BY <1>4, <2>1 DEF Nota
    <3> HIDE DEF x
    <3>2. x = c
      BY <1>4, <3>1, MesmaNota
    <3>3. QED
      BY <3>2 DEF x
  <2>3. QED
    BY <1>7, <2>1, <2>2
<1>9. \A e \in eventoNf : e.venda = v => e.status # "AUTORIZADA"
  BY <1>1, <1>2, LinhaNaMao DEF NaMao
<1>10. NaMao(p)'
  BY <1>3, <1>4, <1>5, <1>6, <1>8, <1>9 DEF NaMao
<1>11. Autorizada(v)' /\ Documento(v)' /\ \A e \in eventoNf' : e.venda = v => Informada(e)'
  BY <1>3, <1>4, <1>8, <1>9 DEF Autorizada, Documento, Informada
<1>12. LinhaCerta(p, v)'
  BY <1>10, <1>11 DEF LinhaCerta
<1>13. /\ k.venda = v /\ k.passo \notin {"ler", "preparada"} /\ lista' = lista /\ sefaz \subseteq sefaz'
       /\ \A e \in eventoNf' : e \in eventoNf \/ e.venda = v
  BY <1>3, <1>6
<1>14. proc' = [proc EXCEPT ![p] = k]
  BY <1>5
<1>15. QED
  BY <1>1, <1>2, <1>8, <1>12, <1>13, <1>14, PassoDono

\* SEFAZ authorises the key of the row, or answers something else
LEMMA InvTransmitir ==
  ASSUME InvNfce, InvNumero', disputada \subseteq disputada', Separadas', NEW p \in ProcessoNf, Transmitir(p),
         proc[p].venda \notin disputada'
  PROVE  InvNfce'
<1>1. Trabalha(p)
  BY DEF Transmitir, Trabalha
<1>2. PICK v \in VendaNf : proc[p].venda = v
  BY <1>1, LinhaNaMao
<1>3. Chave(proc[p].copia) =
        [serie |-> proc[p].copia.serie, numero |-> proc[p].copia.numero, tipo |-> proc[p].copia.xml]
  <2>1. proc[p].copia.xml = proc[p].copia.tipo
    BY <1>1, LinhaNaMao DEF NaMao, Documento, Transmitir
  <2>2. QED
    BY <2>1 DEF Chave
<1>4. PICK r \in {"AUTORIZADA", "REJEITADA", "SEM_RESPOSTA"} :
        /\ proc' = [proc EXCEPT ![p].passo = "resposta", ![p].resposta = r]
        /\ r = "AUTORIZADA" => Chave(proc[p].copia) \in sefaz'
        /\ sefaz \subseteq sefaz'
        /\ UNCHANGED <<nota, eventoNf, lista>>
  BY <1>3 DEF Transmitir
<1> DEFINE k == [proc[p] EXCEPT !.passo = "resposta", !.resposta = r]
<1>5. proc' = [proc EXCEPT ![p] = k] /\ proc'[p] = k
  BY <1>1, <1>4, LinhaNaMao
<1>6. k.venda = v /\ k.copia = proc[p].copia /\ k.passo = "resposta" /\ k.resposta = r
  BY <1>1, <1>2, LinhaNaMao DEF ProcAtivo
<1> HIDE DEF k
<1>7. NaMao(p)'
  <2>1. NaMao(p) /\ proc[p].passo = "transmitir"
    BY <1>1, LinhaNaMao DEF Transmitir
  <2>2. QED
    BY <1>1, <1>2, <1>4, <1>5, <1>6, <2>1 DEF NaMao
<1>8. Autorizada(v)' /\ Documento(v)' /\ \A e \in eventoNf' : e.venda = v => Informada(e)'
  <2>1. Autorizada(v) /\ Documento(v) /\ \A e \in eventoNf : Informada(e)
    BY DEF InvNfce
  <2>2. QED
    BY <1>4, <2>1 DEF Autorizada, Documento, Informada
<1>9. LinhaCerta(p, v)'
  BY <1>7, <1>8 DEF LinhaCerta
<1>10. QED
  BY <1>1, <1>2, <1>4, <1>5, <1>6, <1>9, PassoDono

\* a step of the row that works on: what it saves is what it holds
LEMMA InvGravar ==
  ASSUME InvNfce, InvNumero', disputada \subseteq disputada', Separadas', NEW p \in ProcessoNf, Trabalha(p), NEW v \in VendaNf, proc[p].venda = v,
         v \notin disputada', NEW k, proc' = [proc EXCEPT ![p] = k], k.venda = v, k.passo \in {"regenerar", "versao", "evento"},
         nota' = [nota EXCEPT ![v] = k.copia], UNCHANGED <<sefaz, eventoNf, lista>>,
         k.copia.status = "AUTORIZADA" => Chave(k.copia) \in sefaz,
         k.copia.status \in {"GERADA", "CONTINGENCIA", "AUTORIZADA"} =>
           k.copia.xml = k.copia.tipo /\ k.copia.qr = k.copia.tipo
  PROVE  InvNfce'
<1>1. nota'[v] = k.copia /\ (\A w \in VendaNf : w # v => nota'[w] = nota[w]) /\ proc'[p] = k
  BY LinhaNaMao
<1>2. \A e \in eventoNf : e.venda = v => e.status # "AUTORIZADA"
  BY LinhaNaMao DEF NaMao
<1>3. NaMao(p)'
  BY <1>1, <1>2 DEF NaMao
<1>4. Autorizada(v)' /\ Documento(v)' /\ \A e \in eventoNf' : e.venda = v => Informada(e)'
  BY <1>1, <1>2 DEF Autorizada, Documento, Informada
<1>5. LinhaCerta(p, v)'
  BY <1>3, <1>4 DEF LinhaCerta
<1>6. QED
  BY <1>1, <1>5, PassoDono

LEMMA InvConcluirNfce ==
  ASSUME InvNfce, InvNumero', disputada \subseteq disputada', Separadas', NEW p \in ProcessoNf,
         ConcluirNfce(p) \/ Regenerar(p) \/ Excecao(p) \/ AvancarVersao(p), proc[p].venda \notin disputada'
  PROVE  InvNfce'
<1>1. Trabalha(p)
  BY DEF ConcluirNfce, Regenerar, Excecao, AvancarVersao, Trabalha
<1>2. PICK v \in VendaNf : proc[p].venda = v
  BY <1>1, LinhaNaMao
<1>3. /\ proc[p] \in ProcAtivo /\ proc[p].copia \in Nota /\ nota[v] = proc[p].copia
      /\ NaMao(p) /\ Autorizada(v) /\ Documento(v) /\ v \notin disputada
      /\ nota \in [VendaNf -> Nota] /\ proc \in [ProcessoNf -> ProcNf]
  BY <1>1, <1>2, LinhaNaMao
<1>4. UNCHANGED <<sefaz, eventoNf, lista>>
  BY DEF ConcluirNfce, Regenerar, Excecao, AvancarVersao
<1>5. CASE ConcluirNfce(p)
  <2> DEFINE r == proc[p].resposta
             c == [proc[p].copia EXCEPT !.status = r]
             k == [proc[p] EXCEPT !.passo = "versao", !.copia = c]
  <2>1. /\ nota' = [nota EXCEPT ![v] = c] /\ proc' = [proc EXCEPT ![p] = k]
        /\ proc[p].passo = "resposta"
    BY <1>2, <1>3, <1>5 DEF ConcluirNfce
  <2>2. /\ c.status = r /\ c.serie = proc[p].copia.serie /\ c.numero = proc[p].copia.numero
        /\ c.tipo = proc[p].copia.tipo /\ c.xml = proc[p].copia.xml /\ c.qr = proc[p].copia.qr
    BY <1>3 DEF Nota
  <2>3. proc[p].copia.status \in {"GERADA", "CONTINGENCIA"} /\ (r = "AUTORIZADA" => Chave(proc[p].copia) \in sefaz)
    BY <1>1, <1>3, <2>1 DEF NaMao
  <2>4. Chave(c) = Chave(proc[p].copia)
    BY <2>2 DEF Chave
  <2>5. c.xml = c.tipo /\ c.qr = c.tipo
    BY <1>3, <2>2, <2>3 DEF Documento
  <2> HIDE DEF c
  <2>6. k.venda = v /\ k.copia = c /\ k.passo = "versao"
    BY <1>2, <1>3 DEF ProcAtivo
  <2> HIDE DEF k
  <2>7. QED
    BY <1>1, <1>2, <1>4, <2>1, <2>2, <2>3, <2>4, <2>5, <2>6, InvGravar
<1>6. CASE Regenerar(p)
  <2> DEFINE c == [proc[p].copia EXCEPT !.tipo = "9", !.status = "GERANDO"]
             k == [proc[p] EXCEPT !.passo = "regenerar", !.copia = c]
  <2>1. nota' = [nota EXCEPT ![v] = c] /\ proc' = [proc EXCEPT ![p] = k]
    BY <1>2, <1>3, <1>6 DEF Regenerar
  <2>2. c.status = "GERANDO"
    BY <1>3 DEF Nota
  <2> HIDE DEF c
  <2>3. k.venda = v /\ k.copia = c /\ k.passo = "regenerar"
    BY <1>2, <1>3 DEF ProcAtivo
  <2> HIDE DEF k
  <2>4. QED
    BY <1>1, <1>2, <1>4, <2>1, <2>2, <2>3, InvGravar
<1>7. CASE Excecao(p)
  <2> DEFINE c == [proc[p].copia EXCEPT !.status = "ERRO_GERACAO"]
             k == [proc[p] EXCEPT !.passo = "versao", !.copia = c, !.erro = TRUE]
  <2>1. nota' = [nota EXCEPT ![v] = c] /\ proc' = [proc EXCEPT ![p] = k]
    BY <1>2, <1>3, <1>7 DEF Excecao
  <2>2. c.status = "ERRO_GERACAO"
    BY <1>3 DEF Nota
  <2> HIDE DEF c
  <2>3. k.venda = v /\ k.copia = c /\ k.passo = "versao"
    BY <1>2, <1>3 DEF ProcAtivo
  <2> HIDE DEF k
  <2>4. QED
    BY <1>1, <1>2, <1>4, <2>1, <2>2, <2>3, InvGravar
<1>8. CASE AvancarVersao(p)
  <2> DEFINE m == proc[p].copia.versao + 1
             c == [proc[p].copia EXCEPT !.versao = m]
             k == [proc[p] EXCEPT !.passo = "evento", !.copia = c]
  <2>1. /\ nota' = [nota EXCEPT ![v].versao = m]
        /\ proc' = [proc EXCEPT ![p].passo = "evento", ![p].copia.versao = m]
    BY <1>2, <1>8 DEF AvancarVersao
  <2> HIDE DEF m
  <2>2. nota' = [nota EXCEPT ![v] = c] /\ proc' = [proc EXCEPT ![p] = k]
    BY <1>3, <2>1
  <2>3. /\ c.status = proc[p].copia.status /\ c.serie = proc[p].copia.serie /\ c.numero = proc[p].copia.numero
        /\ c.tipo = proc[p].copia.tipo /\ c.xml = proc[p].copia.xml /\ c.qr = proc[p].copia.qr
    BY <1>3 DEF Nota
  <2>4. Chave(c) = Chave(proc[p].copia)
    BY <2>3 DEF Chave
  <2> HIDE DEF c
  <2>5. /\ c.status = "AUTORIZADA" => Chave(c) \in sefaz
        /\ c.status \in {"GERADA", "CONTINGENCIA", "AUTORIZADA"} => c.xml = c.tipo /\ c.qr = c.tipo
    BY <1>3, <2>3, <2>4 DEF Autorizada, Documento
  <2>6. k.venda = v /\ k.copia = c /\ k.passo = "evento"
    BY <1>2, <1>3 DEF ProcAtivo
  <2> HIDE DEF k
  <2>7. QED
    BY <1>1, <1>2, <1>4, <2>2, <2>5, <2>6, InvGravar
<1>9. QED
  BY <1>5, <1>6, <1>7, <1>8

\* the event tells the row as it is, and its process ends
LEMMA InvEnfileirarNfce ==
  ASSUME InvNfce, InvNumero', disputada \subseteq disputada', Separadas', NEW p \in ProcessoNf, EnfileirarNfce(p),
         proc[p].venda \notin disputada'
  PROVE  InvNfce'
<1>1. Trabalha(p)
  BY DEF EnfileirarNfce, Trabalha
<1>2. PICK v \in VendaNf : proc[p].venda = v
  BY <1>1, LinhaNaMao
<1>3. /\ proc' = [proc EXCEPT ![p] = Ocioso] /\ UNCHANGED <<nota, sefaz, lista>>
      /\ eventoNf' = eventoNf \cup {[venda |-> v, versao |-> nota[v].versao, status |-> nota[v].status,
                                     tipo |-> nota[v].tipo]}
  BY <1>2 DEF EnfileirarNfce
<1>4. Ocioso.passo = "livre" /\ proc'[p] = Ocioso
  BY <1>1, <1>3, LinhaNaMao DEF Ocioso
<1>5. NaMao(p)'
  BY <1>4 DEF NaMao, Trabalha
<1>6. Autorizada(v)' /\ Documento(v)'
  BY <1>3 DEF InvNfce, Autorizada, Documento
<1>7. \A e \in eventoNf' : e.venda = v => Informada(e)'
  <2>1. \A e \in eventoNf : e.venda = v => e.status # "AUTORIZADA"
    BY <1>1, <1>2, LinhaNaMao DEF NaMao
  <2>2. QED
    BY <1>3, <2>1 DEF Informada
<1>8. \A e \in eventoNf' : e \in eventoNf \/ e.venda = v
  BY <1>3
<1>9. LinhaCerta(p, v)'
  BY <1>5, <1>6, <1>7 DEF LinhaCerta
<1>10. QED
  BY <1>1, <1>2, <1>3, <1>4, <1>8, <1>9, PassoDono

\* the row is read again before it is worked on
LEMMA InvLerNota ==
  ASSUME InvNfce, InvNumero', disputada \subseteq disputada', Separadas', NEW p \in ProcessoNf, LerNota(p)
  PROVE  InvNfce'
<1> USE DEF InvNfce, InvNumero
<1>1. PICK v \in VendaNf : proc[p].venda = v
  BY TiposDoProcesso DEF LerNota, ProcAtivo
<1>2. UNCHANGED <<nota, sefaz, eventoNf, lista>> /\ proc[p].passo \in {"preparada", "ler"}
  BY DEF LerNota
<1>3. CASE ~AindaPendente(v)
  <2>1. proc' = [proc EXCEPT ![p] = Ocioso]
    BY <1>1, <1>3 DEF LerNota
  <2>2. QED
    BY <1>2, <2>1, InvDesistir
<1>4. CASE AindaPendente(v)
  <2>1. proc' = [proc EXCEPT ![p].passo = "gerar", ![p].copia = nota[v]]
    BY <1>1, <1>4 DEF LerNota
  <2>2. proc[p] \in ProcAtivo
    BY <1>2, TiposDoProcesso
  <2>3. /\ proc'[p].venda = v /\ proc'[p].copia = nota[v] /\ proc'[p].passo = "gerar"
        /\ \A q \in ProcessoNf : q # p => proc'[q] = proc[q]
    BY <1>1, <2>1, <2>2 DEF TiposNf, ProcAtivo
  <2>4. nota[v].status = "PENDENTE_TRANSMISSAO"
    BY <1>4 DEF AindaPendente
  <2>5. p = ComandoNf => Ativo(p)
    BY <1>2 DEF Dono, Ativo
  <2>6. Dono'
    <3>1. \A w \in VendaNf : proc'[w].passo # "livre" => proc'[w].venda = w /\ proc'[w].passo # "ler"
      BY <1>1, <1>2, <2>3 DEF Dono, ProcessoNf
    <3>2. proc'[ComandoNf].passo # "preparada"
      BY <2>3 DEF Dono, ProcessoNf
    <3>3. QED
      BY <3>1, <3>2 DEF Dono
  <2>7. ASSUME NEW q \in ProcessoNf PROVE NaMao(q)'
    <3>1. CASE q = p
      <4>1. v \notin disputada => \A e \in eventoNf : e.venda = v => e.status # "AUTORIZADA"
        BY <2>4 DEF Informada
      <4>2. QED
        BY <1>2, <2>3, <2>4, <3>1, <4>1 DEF NaMao
    <3>2. CASE q # p
      <4>1. NaMao(q) /\ proc'[q] = proc[q]
        BY <2>3, <3>2
      <4>2. QED
        BY <1>2, <4>1 DEF NaMao, Trabalha
    <3>3. QED
      BY <3>1, <3>2
  <2>8. ASSUME NEW l \in lista PROVE NaLista(l)'
    <3>1. l[1] \in VendaNf /\ NaLista(l)
      BY DEF TiposNf
    <3>2. Ativo(ComandoNf)' => proc'[ComandoNf].venda # l[1]
      BY <1>1, <2>3, <2>5, <3>1 DEF NaLista, Ativo, ProcessoNf
    <3>3. QED
      BY <1>2, <3>1, <3>2 DEF NaLista
  <2>9. QED
    BY <1>2, <2>6, <2>7, <2>8, LinhasNfceMantidas
<1>5. QED
  BY <1>3, <1>4

\* the row of a sale that is concluded: nobody worked on it or listed it
LEMMA InvPreparar ==
  ASSUME InvNfce, InvNumero', disputada \subseteq disputada', Separadas', NEW v \in VendaNf, PrepararNfce(v)
  PROVE  InvNfce'
<1> USE DEF InvNfce, InvNumero
<1>1. /\ nota[v].status = "NENHUMA" /\ UNCHANGED <<sefaz, eventoNf, lista>>
      /\ nota'[v].status = "PENDENTE_TRANSMISSAO" /\ \A w \in VendaNf : w # v => nota'[w] = nota[w]
  BY DEF PrepararNfce, TiposNf, Nota
<1>2. /\ proc'[v].passo = "preparada" /\ proc'[v].venda = v
      /\ \A q \in ProcessoNf : q # v => proc'[q] = proc[q]
  <2>1. Trabalho(v, "preparada", FALSE) \in ProcAtivo
    BY DEF Trabalho, ProcAtivo, RespostaNf, TiposNf
  <2>2. Trabalho(v, "preparada", FALSE).venda = v /\ Trabalho(v, "preparada", FALSE).passo = "preparada"
    BY DEF Trabalho
  <2>3. proc'[v] = [Trabalho(v, "preparada", FALSE) EXCEPT !.copia = nota'[v]]
        /\ \A q \in ProcessoNf : q # v => proc'[q] = proc[q]
    BY DEF PrepararNfce, TiposNf, ProcessoNf
  <2>4. QED
    BY <2>1, <2>2, <2>3 DEF ProcAtivo
<1>3. \A q \in ProcessoNf : Ativo(q)' => Ativo(q) /\ q # v /\ proc[q].venda # v
  <2>1. \A q \in ProcessoNf : proc[q].passo # "livre" => proc[q].venda # v
    BY <1>1 DEF Numerada
  <2>2. QED
    BY <1>2, <2>1 DEF Ativo
<1>4. Dono'
  BY <1>2, <1>3, ConstantesNfce DEF Dono, ProcessoNf
<1>5. ASSUME NEW q \in ProcessoNf PROVE NaMao(q)'
  <2>1. SUFFICES ASSUME Trabalha(q)' PROVE NaMao(q)'
    BY DEF NaMao
  <2>2. q # v /\ proc'[q] = proc[q] /\ proc[q].venda \in VendaNf /\ proc[q].venda # v
    BY <1>2, <1>3, <2>1, TiposDoProcesso DEF Ativo, Trabalha, ProcAtivo
  <2>3. NaMao(q)
    OBVIOUS
  <2>4. QED
    BY <1>1, <2>2, <2>3 DEF NaMao, Trabalha
<1>6. ASSUME NEW l \in lista PROVE NaLista(l)'
  <2>1. l[1] \in VendaNf /\ l[1] # v /\ NaLista(l)
    BY <1>1 DEF TiposNf
  <2>2. QED
    BY <1>1, <1>2, <1>3, <2>1, ConstantesNfce DEF NaLista, ProcessoNf
<1>7. \A w \in VendaNf : Autorizada(w)' /\ Documento(w)'
  BY <1>1 DEF Autorizada, Documento
<1>8. ASSUME NEW e \in eventoNf' PROVE Informada(e)'
  <2>1. e \in eventoNf /\ Informada(e) /\ e.venda \in VendaNf
    BY <1>1 DEF TiposNf, EventoNf
  <2>2. QED
    BY <1>1, <2>1 DEF Informada
<1>9. QED
  BY <1>1, <1>4, <1>5, <1>6, <1>7, <1>8

LEMMA InvListar ==
  ASSUME InvNfce, InvNumero', disputada \subseteq disputada', Separadas', Listar
  PROVE  InvNfce'
<1> USE DEF InvNfce, InvNumero
<1>1. /\ lista' = {<<v, nota[v]>> : v \in {x \in VendaNf : Pendente(x)}}
      /\ UNCHANGED <<nota, sefaz, eventoNf, proc>>
      /\ proc[ComandoNf].passo = "livre"
  BY DEF Listar
<1>2. Dono' /\ ~Ativo(ComandoNf)' /\ \A q \in ProcessoNf : NaMao(q)'
  <2>1. \A q \in ProcessoNf : NaMao(q)
    OBVIOUS
  <2>2. \A q \in ProcessoNf : NaMao(q)'
    BY <1>1, <2>1 DEF NaMao, Trabalha
  <2>3. QED
    BY <1>1, <2>2 DEF Dono, Ativo
<1>3. \A l \in lista' : NaLista(l)'
  <2>1. \A l \in lista' : l[1] \in VendaNf /\ l[2] = nota[l[1]] /\ l = <<l[1], nota[l[1]]>>
    BY <1>1
  <2>2. QED
    BY <1>1, <1>2, <2>1 DEF NaLista, ProcessoNf
<1>4. QED
  BY <1>1, <1>2, <1>3, LinhasNfceMantidas

LEMMA InvTratarListada ==
  ASSUME InvNfce, InvNumero', disputada \subseteq disputada', Separadas', NEW l \in lista, TratarListada(l[1], l[2])
  PROVE  InvNfce'
<1> USE DEF InvNfce, InvNumero
<1>1. PICK v \in VendaNf, c \in Nota : l = <<v, c>>
  BY DEF TiposNf
<1> DEFINE k == IF c.status = "CONTINGENCIA"
                THEN [Trabalho(v, "transmitir", TRUE) EXCEPT !.copia = c]
                ELSE Trabalho(v, "ler", FALSE)
<1>2. /\ lista' = lista \ {l} /\ UNCHANGED <<nota, sefaz, eventoNf>>
      /\ proc' = [proc EXCEPT ![ComandoNf] = k]
      /\ ~Ativo(ComandoNf)
  BY <1>1 DEF TratarListada, Ativo
<1>3. /\ k.venda = v /\ k.passo \in {"ler", "transmitir"}
      /\ k.passo = "transmitir" => k.copia = c /\ c.status = "CONTINGENCIA"
  <2>1. /\ Trabalho(v, "ler", FALSE).venda = v /\ Trabalho(v, "ler", FALSE).passo = "ler"
        /\ Trabalho(v, "transmitir", TRUE).venda = v /\ Trabalho(v, "transmitir", TRUE).passo = "transmitir"
        /\ Trabalho(v, "transmitir", TRUE) \in ProcAtivo
    BY DEF Trabalho, ProcAtivo, RespostaNf, TiposNf
  <2>2. QED
    BY <2>1 DEF ProcAtivo
<1> HIDE DEF k
<1>4. proc'[ComandoNf] = k /\ \A q \in ProcessoNf : q # ComandoNf => proc'[q] = proc[q]
  BY <1>2 DEF TiposNf, ProcessoNf
<1>5. Dono'
  BY <1>2, <1>3, <1>4, ConstantesNfce DEF Dono, Ativo, ProcessoNf
<1>6. c.status = "CONTINGENCIA" /\ v \notin disputada => nota[v] = c
  BY <1>1 DEF NaLista
<1>7. ASSUME NEW q \in ProcessoNf PROVE NaMao(q)'
  <2>1. CASE q = ComandoNf /\ k.passo = "transmitir"
    <3>1. v \notin disputada => \A e \in eventoNf : e.venda = v => e.status # "AUTORIZADA"
      BY <1>3, <1>6, <2>1 DEF Informada
    <3>2. QED
      BY <1>2, <1>3, <1>4, <1>6, <2>1, <3>1 DEF NaMao
  <2>2. CASE q = ComandoNf /\ k.passo = "ler"
    BY <1>4, <2>2 DEF NaMao, Trabalha
  <2>3. CASE q # ComandoNf
    <3>1. NaMao(q) /\ proc'[q] = proc[q]
      BY <1>4, <2>3
    <3>2. QED
      BY <1>2, <3>1 DEF NaMao, Trabalha
  <2>4. QED
    BY <1>3, <2>1, <2>2, <2>3
<1>8. ASSUME NEW m \in lista' PROVE NaLista(m)'
  <2>1. m \in lista /\ m # l /\ m[1] \in VendaNf /\ NaLista(m) /\ NaLista(l)
    BY <1>2 DEF TiposNf
  <2>2. m[1] # v
    BY <1>1, <2>1 DEF NaLista
  <2>3. QED
    BY <1>2, <1>3, <1>4, <2>1, <2>2, ConstantesNfce DEF NaLista, Ativo, ProcessoNf
<1>9. QED
  BY <1>2, <1>5, <1>7, <1>8, LinhasNfceMantidas

LEMMA InvImportarFiscal ==
  ASSUME InvNfce, InvNumero', disputada \subseteq disputada', Separadas', UNCHANGED <<nota, sefaz, eventoNf, proc, lista>>
  PROVE  InvNfce'
<1>1. Dono' /\ (\A p \in ProcessoNf : NaMao(p)') /\ \A l \in lista' : NaLista(l)'
  <2>1. Dono /\ (\A p \in ProcessoNf : NaMao(p)) /\ \A l \in lista : NaLista(l)
    BY DEF InvNfce
  <2>2. \A p \in ProcessoNf : NaMao(p)'
    BY <2>1 DEF NaMao, Trabalha
  <2>3. \A l \in lista' : NaLista(l)'
    BY <2>1 DEF NaLista, Ativo
  <2>4. QED
    BY <2>1, <2>2, <2>3 DEF Dono
<1>2. QED
  BY <1>1, LinhasNfceMantidas DEF InvNfce

\* a step of a process on a row that was disputed: nothing is said of the row
LEMMA InvDisputada ==
  ASSUME InvNfce, InvNumero', disputada \subseteq disputada', Separadas', NEW p \in ProcessoNf,
         proc[p].venda \in disputada',
         \/ GerarXml(p) \/ RegenerarXml(p) \/ Transmitir(p) \/ ConcluirNfce(p) \/ Regenerar(p)
         \/ Excecao(p) \/ AvancarVersao(p) \/ EnfileirarNfce(p)
  PROVE  InvNfce'
<1>1. Trabalha(p)
  BY DEF GerarXml, RegenerarXml, Transmitir, ConcluirNfce, Regenerar, Excecao, AvancarVersao,
         EnfileirarNfce, Trabalha
<1>2. proc[p] \in ProcAtivo /\ proc \in [ProcessoNf -> ProcNf] /\ nota \in [VendaNf -> Nota]
  BY <1>1, TiposDoProcesso DEF InvNfce, InvNumero, TiposNf, Trabalha
<1>3. PICK v \in VendaNf : proc[p].venda = v
  BY <1>2 DEF ProcAtivo
<1>4. /\ sefaz \subseteq sefaz' /\ lista' = lista
      /\ \A e \in eventoNf' : e \in eventoNf \/ e.venda = v
  BY <1>3 DEF GerarXml, RegenerarXml, Transmitir, ConcluirNfce, Regenerar, Excecao, AvancarVersao,
              EnfileirarNfce
<1>5. PICK k : /\ proc' = [proc EXCEPT ![p] = k]
               /\ k.passo = "livre" \/ (k.venda = v /\ k.passo \notin {"ler", "preparada"})
  <2>1. ASSUME NEW t \in {"transmitir", "resposta", "regenerar", "versao", "evento"}, NEW c,
               proc' = [proc EXCEPT ![p].passo = t, ![p].copia = c]
        PROVE  \E k : /\ proc' = [proc EXCEPT ![p] = k]
                      /\ k.venda = v /\ k.passo \notin {"ler", "preparada"}
    <3> DEFINE k == [proc[p] EXCEPT !.passo = t, !.copia = c]
    <3>1. proc' = [proc EXCEPT ![p] = k]
      BY <1>2, <2>1
    <3>2. k.venda = v /\ k.passo = t
      BY <1>2, <1>3 DEF ProcAtivo
    <3>3. QED
      BY <3>1, <3>2
  <2>2. CASE GerarXml(p) \/ RegenerarXml(p)
    <3>1. PICK t \in {"transmitir", "versao"}, s \in {"GERADA", "CONTINGENCIA"} :
            proc' = [proc EXCEPT ![p].passo = t, ![p].copia = ComXml(@, s)]
      BY <2>2 DEF GerarXml, RegenerarXml
    <3>2. proc' = [proc EXCEPT ![p].passo = t, ![p].copia = ComXml(proc[p].copia, s)]
      BY <1>2, <3>1
    <3>3. QED
      BY <2>1, <3>2
  <2>3. CASE Transmitir(p)
    <3>1. PICK r : proc' = [proc EXCEPT ![p].passo = "resposta", ![p].resposta = r]
      BY <2>3 DEF Transmitir
    <3> DEFINE k == [proc[p] EXCEPT !.passo = "resposta", !.resposta = r]
    <3>2. proc' = [proc EXCEPT ![p] = k] /\ k.venda = v /\ k.passo = "resposta"
      BY <1>2, <1>3, <3>1 DEF ProcAtivo
    <3>3. QED
      BY <3>2
  <2>4. CASE ConcluirNfce(p) \/ Regenerar(p) \/ Excecao(p) \/ AvancarVersao(p)
    <3>1. \E k : /\ proc' = [proc EXCEPT ![p] = k]
                 /\ k.venda = proc[p].venda /\ k.passo \in {"versao", "regenerar", "evento"}
      <4>1. CASE ConcluirNfce(p)
        <5> DEFINE k == [proc[p] EXCEPT !.passo = "versao", !.copia = [@ EXCEPT !.status = proc[p].resposta]]
        <5>1. proc' = [proc EXCEPT ![p] = k] /\ k.venda = proc[p].venda /\ k.passo = "versao"
          BY <1>2, <4>1 DEF ConcluirNfce, ProcAtivo
        <5>2. QED
          BY <5>1
      <4>2. CASE Regenerar(p)
        <5> DEFINE k == [proc[p] EXCEPT !.passo = "regenerar",
                                        !.copia = [@ EXCEPT !.tipo = "9", !.status = "GERANDO"]]
        <5>1. proc' = [proc EXCEPT ![p] = k] /\ k.venda = proc[p].venda /\ k.passo = "regenerar"
          BY <1>2, <4>2 DEF Regenerar, ProcAtivo
        <5>2. QED
          BY <5>1
      <4>3. CASE Excecao(p)
        <5> DEFINE k == [proc[p] EXCEPT !.passo = "versao", !.copia = [@ EXCEPT !.status = "ERRO_GERACAO"],
                                        !.erro = TRUE]
        <5>1. proc' = [proc EXCEPT ![p] = k] /\ k.venda = proc[p].venda /\ k.passo = "versao"
          BY <1>2, <4>3 DEF Excecao, ProcAtivo
        <5>2. QED
          BY <5>1
      <4>4. CASE AvancarVersao(p)
        <5> DEFINE m == proc[p].copia.versao + 1
                   k == [proc[p] EXCEPT !.passo = "evento", !.copia = [@ EXCEPT !.versao = m]]
        <5>1. proc' = [proc EXCEPT ![p].passo = "evento", ![p].copia.versao = m]
          BY <4>4 DEF AvancarVersao
        <5> HIDE DEF m
        <5>2. proc' = [proc EXCEPT ![p] = k] /\ k.venda = proc[p].venda /\ k.passo = "evento"
          BY <1>2, <5>1 DEF ProcAtivo
        <5>3. QED
          BY <5>2
      <4>5. QED
        BY <2>4, <4>1, <4>2, <4>3, <4>4
    <3>2. QED
      BY <1>3, <3>1
  <2>5. CASE EnfileirarNfce(p)
    <3>1. proc' = [proc EXCEPT ![p] = Ocioso] /\ Ocioso.passo = "livre"
      BY <2>5 DEF EnfileirarNfce, Ocioso
    <3>2. QED
      BY <3>1
  <2>6. QED
    BY <2>2, <2>3, <2>4, <2>5
<1>6. \A w \in VendaNf : w # v => nota'[w] = nota[w]
  <2>1. CASE GerarXml(p) \/ RegenerarXml(p)
    <3>1. nota' = Gravada(proc'[p])
      BY <2>1 DEF GerarXml, RegenerarXml
    <3>2. PICK t \in {"transmitir", "versao"}, s \in {"GERADA", "CONTINGENCIA"} :
            proc' = [proc EXCEPT ![p].passo = t, ![p].copia = ComXml(@, s)]
      BY <2>1 DEF GerarXml, RegenerarXml
    <3>3. proc'[p].venda = v
      BY <1>2, <1>3, <3>2 DEF ProcAtivo
    <3>4. QED
      BY <1>2, <3>1, <3>3 DEF Gravada
  <2>2. CASE Transmitir(p) \/ EnfileirarNfce(p)
    BY <2>2 DEF Transmitir, EnfileirarNfce
  <2>3. CASE ConcluirNfce(p) \/ Regenerar(p) \/ Excecao(p) \/ AvancarVersao(p)
    BY <1>2, <1>3, <2>3 DEF ConcluirNfce, Regenerar, Excecao, AvancarVersao
  <2>4. QED
    BY <2>1, <2>2, <2>3
<1>7. QED
  BY <1>1, <1>3, <1>4, <1>5, <1>6, PassoDono

\* The hub, SEFAZ and the Central speak of one document: what is printed and what
\* SEFAZ authorised have the key of the row, through lost answers, the change of key
\* of contingency, exceptions and stops, and an authorisation that was told to the
\* Central is never taken back, unless the command and the conclusion were on the row
\* at once, which says nothing of the other rows (processar_nfce_preparada,
\* regenerar_nfce_em_contingencia, retransmitir_nfces_pendentes).
THEOREM NfceCoerenteSempre == SpecNfce => []NfceCoerente
<1>1. ASSUME InvNfce, [NextNfce]_varsNfce PROVE InvNfce'
  <2>1. InvNumero'
    BY <1>1, NumeroMantido DEF InvNfce
  <2>2. ASSUME NextNfce PROVE disputada \subseteq disputada' /\ Separadas'
    BY <2>2 DEF NextNfce, Separadas
  <2>3. ASSUME NextNfce, NEW p \in ProcessoNf, PassoNfce(p) PROVE InvNfce'
    <3>1. CASE SemMaterial(p) \/ PararNfce(p) \/ FicaEmContingencia(p)
      <4>1. /\ proc' = [proc EXCEPT ![p] = Ocioso] /\ lista' \subseteq lista
            /\ UNCHANGED <<nota, sefaz, eventoNf>>
        BY <3>1 DEF SemMaterial, PararNfce, FicaEmContingencia
      <4>2. QED
        BY <1>1, <2>1, <2>2, <2>3, <4>1, InvDesistir
    <3>2. CASE LerNota(p)
      BY <1>1, <2>1, <2>2, <2>3, <3>2, InvLerNota
    <3>3. CASE \/ GerarXml(p) \/ RegenerarXml(p) \/ Transmitir(p) \/ ConcluirNfce(p) \/ Regenerar(p)
               \/ Excecao(p) \/ AvancarVersao(p) \/ EnfileirarNfce(p)
      <4>1. CASE proc[p].venda \in disputada'
        BY <1>1, <2>1, <2>2, <2>3, <3>3, <4>1, InvDisputada
      <4>2. CASE proc[p].venda \notin disputada'
        BY <1>1, <2>1, <2>2, <2>3, <3>3, <4>2, InvGerarXml, InvTransmitir, InvConcluirNfce, InvEnfileirarNfce
      <4>3. QED
        BY <4>1, <4>2
    <3>4. QED
      BY <2>3, <3>1, <3>2, <3>3 DEF PassoNfce
  <2>4. ASSUME NextNfce, NEW s \in Serie, NEW n \in 1..(MaxNumeroNf + 1), ImportarFiscal(s, n) PROVE InvNfce'
    BY <1>1, <2>1, <2>2, <2>4, InvImportarFiscal DEF ImportarFiscal
  <2>5. CASE NextNfce
    BY <1>1, <2>1, <2>2, <2>3, <2>4, <2>5, InvPreparar, InvListar, InvTratarListada DEF NextNfce
  <2>6. CASE UNCHANGED varsNfce
    <3>1. disputada' = disputada /\ UNCHANGED <<nota, sefaz, eventoNf, proc, lista>>
      BY <2>6 DEF varsNfce
    <3>2. Separadas'
      BY <1>1, <3>1 DEF InvNfce, Separadas, NasDuas, Trabalha
    <3>3. QED
      BY <1>1, <2>1, <3>1, <3>2, InvImportarFiscal
  <2>7. QED
    BY <1>1, <2>5, <2>6
<1>2. InvNfce => NfceCoerente
  <2>1. SUFFICES ASSUME InvNfce PROVE NfceCoerente
    OBVIOUS
  <2>2. NumeroLivre
    BY <2>1 DEF InvNfce, InvNumero
  <2>3. DocumentoDeUmaVenda
    BY <2>1, DocumentoDoNumero DEF InvNfce
  <2>4. AutorizadaComSuaChave
    BY <2>1 DEF InvNfce, Autorizada, Chave, AutorizadaComSuaChave
  <2>5. DocumentoDaChave
    BY <2>1 DEF InvNfce, Documento, DocumentoDaChave
  <2>6. AutorizacaoInformada
    BY <2>1 DEF InvNfce, Informada, AutorizacaoInformada
  <2>7. QED
    BY <2>2, <2>3, <2>4, <2>5, <2>6 DEF NfceCoerente
<1>3. QED
  BY <1>1, <1>2, InvInicialNfce, PTL DEF SpecNfce

============================================================================
