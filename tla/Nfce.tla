-------------------------------- MODULE Nfce --------------------------------
(***************************************************************************)
(* Emission of the NFC-e of a sale: nfce.py, the steps of finalizar_venda   *)
(* that call it, the command processar_nfces_pendentes and the import of    *)
(* the fiscal configuration (bootstrap.py).                                 *)
(*                                                                         *)
(* The row and its number are created in the transaction of the sale; then *)
(* processar_nfce_preparada runs with no transaction and no lock: each save *)
(* is a step, with the object in memory (copia), and the hub may stop       *)
(* between any two.  SEFAZ is external: it authorises one key per number.   *)
(***************************************************************************)
EXTENDS Naturals, FiniteSets, FiniteSetsExt

CONSTANTS
  VendaNf,    \* sales that may be concluded
  Serie,      \* series of NFC-e
  ComandoNf,  \* the process of the command
  MaxNumeroNf \* bound of the model: numbers of a series

ASSUME ConstantesNfce ==
  /\ ComandoNf \notin VendaNf
  /\ MaxNumeroNf \in Nat \ {0}

VARIABLES
  configNf, \* ConfiguracaoFiscalHub: serie_nfce, proximo_numero_nfce
  nota,     \* NFCeHub: tipo is what tells its keys apart; xml, qr: the key in
            \* xml_assinado and in qr_code_payload
  sefaz,    \* documents SEFAZ authorised
  eventoNf, \* NFCE_ATUALIZADA events of the outbox
  proc,     \* the conclusion of each sale and the command: what they hold in memory
  lista,    \* rows that the command read and has not treated yet
  disputada \* history: sales on which the command and the conclusion were at once

varsNfce == <<configNf, nota, sefaz, eventoNf, proc, lista, disputada>>

StatusNf == {"NENHUMA", "PENDENTE_TRANSMISSAO", "GERADA", "GERANDO", "CONTINGENCIA",
             "AUTORIZADA", "REJEITADA", "ERRO_GERACAO"}
Emissao == {"nenhuma", "1", "9"} \* tipo_emissao; nenhuma: a column that is empty
Nota == [status : StatusNf, serie : Serie, numero : 0..MaxNumeroNf, tipo : Emissao,
         xml : Emissao, qr : Emissao, versao : Nat]
DocumentoNf == [serie : Serie, numero : 1..MaxNumeroNf, tipo : Emissao]
EventoNf == [venda : VendaNf, versao : Nat, status : StatusNf, tipo : Emissao]
RespostaNf == {"nenhuma", "AUTORIZADA", "REJEITADA", "SEM_RESPOSTA"}
ProcessoNf == VendaNf \cup {ComandoNf}
Ocioso == [passo |-> "livre"]
ProcNf == {Ocioso} \cup
  [passo : {"preparada", "ler", "gerar", "transmitir", "resposta", "regenerar", "excecao",
            "versao", "evento"},
   venda : VendaNf, copia : Nota, resposta : RespostaNf, retomada : BOOLEAN, erro : BOOLEAN]

TypeOKNfce ==
  /\ configNf \in [serie : Serie, proximo : 1..(MaxNumeroNf + 1)]
  /\ nota \in [VendaNf -> Nota]
  /\ sefaz \subseteq DocumentoNf
  /\ eventoNf \subseteq EventoNf
  /\ proc \in [ProcessoNf -> ProcNf]
  /\ lista \subseteq (VendaNf \X Nota)
  /\ disputada \subseteq VendaNf

InitNfce ==
  /\ \E s \in Serie :
       /\ configNf = [serie |-> s, proximo |-> 1]
       /\ nota = [v \in VendaNf |-> [status |-> "NENHUMA", serie |-> s, numero |-> 0,
                                     tipo |-> "nenhuma", xml |-> "nenhuma", qr |-> "nenhuma", versao |-> 0]]
  /\ sefaz = {}
  /\ eventoNf = {}
  /\ proc = [p \in ProcessoNf |-> Ocioso]
  /\ lista = {}
  /\ disputada = {}

-----------------------------------------------------------------------------
(* Number and configuration *)

Emitidas == {v \in VendaNf : nota[v].status # "NENHUMA"}
Trabalho(v, passo, retomada) ==
  [passo |-> passo, venda |-> v, copia |-> nota[v], resposta |-> "nenhuma",
   retomada |-> retomada, erro |-> FALSE]

\* finalizar_venda: preparar_nfce_para_venda_finalizada and _reservar_numero,
\* under the lock of the configuration, commit with the sale
PrepararNfce(v) ==
  /\ nota[v].status = "NENHUMA"
  /\ configNf.proximo <= MaxNumeroNf
  /\ nota' = [nota EXCEPT ![v] = [@ EXCEPT !.status = "PENDENTE_TRANSMISSAO", !.tipo = "1",
                                           !.serie = configNf.serie, !.numero = configNf.proximo]]
  /\ configNf' = [configNf EXCEPT !.proximo = @ + 1]
  /\ proc' = [proc EXCEPT ![v] = [Trabalho(v, "preparada", FALSE) EXCEPT !.copia = nota'[v]]]
  /\ UNCHANGED <<sefaz, eventoNf, lista>>

\* mutants: the number of the Central is taken as it comes; the next number is
\* advanced once more
MutProximoImportado(s, n) == n
MutProximoAvancado(s, n) == Max({configNf.proximo, n}) + 1
ProximoImportado(s, n) == IF s = configNf.serie THEN Max({configNf.proximo, n}) ELSE n

\* external: for another series the Central answers a number not used in it
CentralConhece(s, n) ==
  s = configNf.serie \/ \A v \in Emitidas : nota[v].serie = s => nota[v].numero < n

\* _sincronizar_fiscal, with an answer that may be old; bound of the model:
\* while a sale is still to be concluded
ImportarFiscal(s, n) ==
  /\ Emitidas # VendaNf
  /\ CentralConhece(s, n)
  /\ configNf' = [serie |-> s, proximo |-> ProximoImportado(s, n)]
  /\ UNCHANGED <<nota, sefaz, eventoNf, proc, lista>>

-----------------------------------------------------------------------------
(* processar_nfce_preparada *)

\* mutant: the row is not read again
MutAindaPendente(v) == TRUE
AindaPendente(v) == nota[v].status = "PENDENTE_TRANSMISSAO"

LerNota(p) ==
  /\ proc[p].passo \in {"preparada", "ler"}
  /\ proc' = IF AindaPendente(proc[p].venda)
             THEN [proc EXCEPT ![p].passo = "gerar", ![p].copia = nota[proc[p].venda]]
             ELSE [proc EXCEPT ![p] = Ocioso]
  /\ UNCHANGED <<configNf, nota, sefaz, eventoNf, lista>>

\* no certificate, client or QR configuration, or the certificate has expired
\* since the sale was validated: an exception, the row stays
SemMaterial(p) ==
  /\ proc[p].passo \in {"preparada", "ler"}
  /\ AindaPendente(proc[p].venda)
  /\ proc' = [proc EXCEPT ![p] = Ocioso]
  /\ UNCHANGED <<configNf, nota, sefaz, eventoNf, lista>>

\* the document and its QR code are made from the key of the row in memory
\* mutants: the document signed with the first key is kept; its QR code is
MutXmlDe(c) == IF c.xml = "nenhuma" THEN c.tipo ELSE c.xml
MutQrDe(c) == IF c.qr = "nenhuma" THEN c.tipo ELSE c.qr
XmlDe(c) == c.tipo
QrDe(c) == c.tipo

\* montar_xml_nfce, assinar_xml_nfce
ComXml(c, status) == [c EXCEPT !.xml = XmlDe(c), !.qr = QrDe(c), !.status = status]
\* the columns that are saved
Gravada(c) == [nota EXCEPT ![c.venda].xml = c.copia.xml, ![c.venda].qr = c.copia.qr,
                           ![c.venda].status = c.copia.status]

\* _gerar_xml_assinado_nfce_preparada
GerarXml(p) ==
  /\ proc[p].passo = "gerar"
  /\ proc' = [proc EXCEPT ![p].passo = "transmitir", ![p].copia = ComXml(@, "GERADA")]
  /\ nota' = Gravada(proc'[p])
  /\ UNCHANGED <<configNf, sefaz, eventoNf, lista>>

\* external: SEFAZ takes the document sent, if it takes it, once per number;
\* the answer may be lost after that (TIMEOUT) or before (INDISPONIVEL)
JaAutorizado(d) == \E a \in sefaz : a.serie = d.serie /\ a.numero = d.numero
Transmitir(p) ==
  /\ proc[p].passo = "transmitir"
  /\ LET c == proc[p].copia
         d == [serie |-> c.serie, numero |-> c.numero, tipo |-> c.xml]
     IN \/ /\ ~JaAutorizado(d)
           /\ sefaz' = sefaz \cup {d}
           /\ \E r \in {"AUTORIZADA", "SEM_RESPOSTA"} :
                proc' = [proc EXCEPT ![p].passo = "resposta", ![p].resposta = r]
        \/ /\ \E r \in {"REJEITADA", "SEM_RESPOSTA"} :
                proc' = [proc EXCEPT ![p].passo = "resposta", ![p].resposta = r]
           /\ UNCHANGED sefaz
  /\ UNCHANGED <<configNf, nota, eventoNf, lista>>

\* the status of the answer is saved, whatever the row holds now
ConcluirNfce(p) ==
  /\ proc[p].passo = "resposta"
  /\ proc[p].resposta # "SEM_RESPOSTA"
  /\ nota' = [nota EXCEPT ![proc[p].venda].status = proc[p].resposta]
  /\ proc' = [proc EXCEPT ![p].passo = "versao", ![p].copia.status = proc[p].resposta]
  /\ UNCHANGED <<configNf, sefaz, eventoNf, lista>>

\* regenerar_nfce_em_contingencia: the new key is saved first
Regenerar(p) ==
  /\ proc[p].passo = "resposta"
  /\ proc[p].resposta = "SEM_RESPOSTA"
  /\ ~proc[p].retomada
  /\ nota' = [nota EXCEPT ![proc[p].venda].tipo = "9", ![proc[p].venda].status = "GERANDO"]
  /\ proc' = [proc EXCEPT ![p].passo = "regenerar", ![p].copia.tipo = "9",
                          ![p].copia.status = "GERANDO"]
  /\ UNCHANGED <<configNf, sefaz, eventoNf, lista>>

RegenerarXml(p) ==
  /\ proc[p].passo = "regenerar"
  /\ proc' = [proc EXCEPT ![p].passo = "versao", ![p].copia = ComXml(@, "CONTINGENCIA")]
  /\ nota' = Gravada(proc'[p])
  /\ UNCHANGED <<configNf, sefaz, eventoNf, lista>>

\* except Exception: also when the answer was saved and the event was not
Excecao(p) ==
  /\ proc[p].passo \in {"gerar", "transmitir", "resposta", "regenerar", "versao", "evento"}
  /\ ~proc[p].retomada /\ ~proc[p].erro
  /\ nota' = [nota EXCEPT ![proc[p].venda].status = "ERRO_GERACAO"]
  /\ proc' = [proc EXCEPT ![p].passo = "versao", ![p].copia.status = "ERRO_GERACAO",
                          ![p].erro = TRUE]
  /\ UNCHANGED <<configNf, sefaz, eventoNf, lista>>

\* avancar_versao_sync_nfce
AvancarVersao(p) ==
  /\ proc[p].passo = "versao"
  /\ LET n == proc[p].copia.versao + 1
     IN /\ nota' = [nota EXCEPT ![proc[p].venda].versao = n]
        /\ proc' = [proc EXCEPT ![p].passo = "evento", ![p].copia.versao = n]
  /\ UNCHANGED <<configNf, sefaz, eventoNf, lista>>

\* enfileirar_nfce_atualizada, with the row read again: another payload
\* under the same key is an exception
EnfileirarNfce(p) ==
  /\ proc[p].passo = "evento"
  /\ LET v == proc[p].venda
         e == [venda |-> v, versao |-> nota[v].versao, status |-> nota[v].status,
               tipo |-> nota[v].tipo]
     IN /\ \A o \in eventoNf : o.venda = v /\ o.versao = e.versao => o = e
        /\ eventoNf' = eventoNf \cup {e}
  /\ proc' = [proc EXCEPT ![p] = Ocioso]
  /\ UNCHANGED <<configNf, nota, sefaz, lista>>

\* the hub stops or the exception leaves the process: for the command, with
\* what it had not treated
PararNfce(p) ==
  /\ proc[p].passo # "livre"
  /\ proc' = [proc EXCEPT ![p] = Ocioso]
  /\ lista' = IF p = ComandoNf THEN {} ELSE lista
  /\ UNCHANGED <<configNf, nota, sefaz, eventoNf>>

-----------------------------------------------------------------------------
(* retransmitir_nfces_pendentes *)

Pendente(v) == nota[v].status \in {"CONTINGENCIA", "PENDENTE_TRANSMISSAO"}

Listar ==
  /\ proc[ComandoNf].passo = "livre" /\ lista = {}
  /\ lista' = {<<v, nota[v]>> : v \in {x \in VendaNf : Pendente(x)}}
  /\ lista' # {}
  /\ UNCHANGED <<configNf, nota, sefaz, eventoNf, proc>>

\* a row in contingency is sent as it was listed, the others are processed
TratarListada(v, c) ==
  /\ proc[ComandoNf].passo = "livre"
  /\ <<v, c>> \in lista
  /\ lista' = lista \ {<<v, c>>}
  /\ proc' = [proc EXCEPT ![ComandoNf] =
                IF c.status = "CONTINGENCIA"
                THEN [Trabalho(v, "transmitir", TRUE) EXCEPT !.copia = c]
                ELSE Trabalho(v, "ler", FALSE)]
  /\ UNCHANGED <<configNf, nota, sefaz, eventoNf>>

\* no answer: the row stays in contingency
FicaEmContingencia(p) ==
  /\ proc[p].passo = "resposta"
  /\ proc[p].resposta = "SEM_RESPOSTA"
  /\ proc[p].retomada
  /\ proc' = [proc EXCEPT ![p] = Ocioso]
  /\ UNCHANGED <<configNf, nota, sefaz, eventoNf, lista>>

\* a process works on its row once it has read it; a row listed in contingency is
\* not read again.  Nothing locks the row between the command and the conclusion
Trabalha(p) == proc[p].passo \notin {"livre", "preparada", "ler"}
NasDuas(v) ==
  /\ Trabalha(v)
  /\ \/ Trabalha(ComandoNf) /\ proc[ComandoNf].venda = v
     \/ \E l \in lista : l[1] = v /\ l[2].status = "CONTINGENCIA"

PassoNfce(p) ==
  \/ LerNota(p) \/ SemMaterial(p) \/ GerarXml(p) \/ Transmitir(p) \/ ConcluirNfce(p)
  \/ Regenerar(p) \/ RegenerarXml(p) \/ Excecao(p) \/ AvancarVersao(p)
  \/ EnfileirarNfce(p) \/ PararNfce(p) \/ FicaEmContingencia(p)

NextNfce ==
  /\ \/ \E v \in VendaNf : PrepararNfce(v)
     \/ \E s \in Serie, n \in 1..(MaxNumeroNf + 1) : ImportarFiscal(s, n)
     \/ \E p \in ProcessoNf : PassoNfce(p)
     \/ Listar
     \/ \E l \in lista : TratarListada(l[1], l[2])
  /\ disputada' = disputada \cup {v \in VendaNf : NasDuas(v)'}
SpecNfce == InitNfce /\ [][NextNfce]_varsNfce

-----------------------------------------------------------------------------
(* Properties *)

\* The next number is above every number issued in its series, although the
\* configuration is imported from answers of the Central that are older than
\* the last sales: a sale never fails on the number of its NFC-e (nfce.py
\* _reservar_numero, bootstrap.py _sincronizar_fiscal).
NumeroLivre ==
  \A v \in Emitidas : nota[v].serie = configNf.serie => nota[v].numero < configNf.proximo

\* A document SEFAZ authorised is of one sale, and an NFC-e the hub holds for
\* authorised, or told the Central that it is, has its number authorised, also
\* when the command and the conclusion write one row at once (nfce.py
\* preparar_nfce_para_venda_finalizada, processar_nfce_preparada,
\* retransmitir_nfces_pendentes).
DaSerieENumero(d, v) == d.serie = nota[v].serie /\ d.numero = nota[v].numero
DocumentoDeUmaVenda ==
  /\ \A d \in sefaz : \E v \in Emitidas :
       DaSerieENumero(d, v) /\ \A w \in Emitidas : DaSerieENumero(d, w) => w = v
  /\ \A v \in VendaNf : nota[v].status = "AUTORIZADA" => \E d \in sefaz : DaSerieENumero(d, v)
  /\ \A e \in eventoNf : e.status = "AUTORIZADA" => \E d \in sefaz : DaSerieENumero(d, e.venda)

\* An NFC-e the hub holds for authorised was authorised by SEFAZ under the key
\* of its row, in spite of lost answers, of the change of key of contingency
\* and of a stop at any point, unless the command and the conclusion were on it
\* at once (nfce.py processar_nfce_preparada, regenerar_nfce_em_contingencia,
\* retransmitir_nfces_pendentes).
AutorizadaComSuaChave ==
  \A v \in VendaNf \ disputada : nota[v].status = "AUTORIZADA" =>
    [serie |-> nota[v].serie, numero |-> nota[v].numero, tipo |-> nota[v].tipo] \in sefaz

\* The document and the QR code printed for an NFC-e that was issued are of the
\* key of its row: a note in contingency has neither of the first attempt, with
\* the same exception (nfce.py regenerar_nfce_em_contingencia, montar_xml_nfce,
\* gerar_qr_code_payload).
DocumentoDaChave ==
  \A v \in VendaNf \ disputada : nota[v].status \in {"GERADA", "CONTINGENCIA", "AUTORIZADA"} =>
    nota[v].xml = nota[v].tipo /\ nota[v].qr = nota[v].tipo

\* Once the event that tells the Central of an authorised NFC-e is in the
\* outbox, the row stays authorised and no later event replaces it: neither the
\* command nor a conclusion that was waiting sends the document again, unless
\* both were on it at once (nfce.py processar_nfce_preparada,
\* listar_nfces_pendentes_transmissao).
AutorizacaoInformada ==
  \A e \in eventoNf : e.status = "AUTORIZADA" /\ e.venda \notin disputada =>
    nota[e.venda].status = "AUTORIZADA" /\ nota[e.venda].versao = e.versao

\* The hub, SEFAZ and the Central speak of one document: its number is free when
\* it is taken and is of one sale, what is printed and authorised has the key of
\* its row, and it stays as it was told (nfce.py, bootstrap.py).
NfceCoerente ==
  /\ NumeroLivre /\ DocumentoDeUmaVenda
  /\ AutorizadaComSuaChave /\ DocumentoDaChave /\ AutorizacaoInformada
============================================================================
