---------------------------- MODULE Transmissao ----------------------------
(***************************************************************************)
(* The sending of the local backups to the Central, backup_transmission.py: *)
(* a chain of files, each in parts, sent by a task that runs again and      *)
(* again and keeps in a file on disk what the Central confirmed.            *)
(*                                                                         *)
(* Every request is preceded by a save of the state, so the state on disk   *)
(* is the state in memory when a request is made, and a stop of the program *)
(* between an answer and its save is an answer that is lost.  The uploads   *)
(* of the Central are external: one per file, which may expire.             *)
(***************************************************************************)
EXTENDS Naturals

CONSTANTS
  NumArquivo, \* bound of the model: files of the chain
  NumParte,   \* parts of each file
  Orcamento,  \* requests that fit in max_seconds
  MaxFalhaTr, \* bound of the model: requests or answers lost, errors
  MaxExpira   \* bound of the model: uploads that expire

ASSUME ConstantesTransmissao ==
  /\ NumArquivo \in Nat \ {0} /\ NumParte \in Nat \ {0} /\ Orcamento \in Nat \ {0}
  /\ MaxFalhaTr \in Nat /\ MaxExpira \in Nat

VARIABLES
  gerado,     \* files of the chain generated so far
  arquivo,    \* state["files"] on disk
  suporte,    \* state["support_required"]
  envio,      \* the cycle in progress
  upload,     \* uploads at the Central
  falhas,     \* faults so far
  errado      \* history: an error that calls for the support since the last resume

varsTransmissao == <<gerado, arquivo, suporte, envio, upload, falhas, errado>>

Arquivo == 1..NumArquivo
SemProgresso == [tentativa |-> 0, offset |-> 0]
Progresso == [tentativa : 0..(MaxExpira + 1), offset : 0..NumParte]
LinhaArquivo == [status : {"AUSENTE", "ENVIO_EM_ANDAMENTO", "RECEBIDO_CENTRAL"}, progresso : Progresso]
Upload == [estado : {"NENHUM", "ABERTO", "EXPIRADO", "RECEBIDO"}, progresso : Progresso]
Parado == [passo |-> "parado"]
Envio == {Parado} \cup
  [passo : {"entrada", "consultar", "partes"}, arq : 1..(NumArquivo + 1), fim : Arquivo,
   gasto : 0..Orcamento]

TypeOKTransmissao ==
  /\ gerado \in Arquivo
  /\ arquivo \in [Arquivo -> LinhaArquivo]
  /\ suporte \in BOOLEAN
  /\ envio \in Envio
  /\ upload \in [Arquivo -> Upload]
  /\ falhas \in 0..MaxFalhaTr
  /\ errado \in BOOLEAN

InitTransmissao ==
  /\ gerado = 1
  /\ arquivo = [a \in Arquivo |-> [status |-> "AUSENTE", progresso |-> SemProgresso]]
  /\ suporte = FALSE
  /\ envio = Parado
  /\ upload = [a \in Arquivo |-> [estado |-> "NENHUM", progresso |-> SemProgresso]]
  /\ falhas = 0
  /\ errado = FALSE

-----------------------------------------------------------------------------
(* A cycle *)

PendenteTr(n) == {a \in 1..n : arquivo[a].status # "RECEBIDO_CENTRAL"}
PrimeiroPendente(n) == CHOOSE a \in PendenteTr(n) : \A b \in PendenteTr(n) : a <= b

\* mutants: the newest file first; the file before the first one
MutInicioEnvio(n) == CHOOSE a \in PendenteTr(n) : \A b \in PendenteTr(n) : b <= a
MutInicioEnvioAnterior(n) == PrimeiroPendente(n) - 1
\* the first pending file and the one before it
InicioEnvio(n) == IF PrimeiroPendente(n) = 1 THEN 1 ELSE PrimeiroPendente(n) - 1

GerarBackup ==
  /\ gerado < NumArquivo
  /\ gerado' = gerado + 1
  /\ UNCHANGED <<arquivo, suporte, envio, upload, falhas, errado>>

\* run: the lock of the sender allows one; what is generated later is for the
\* next cycle
IniciarCiclo ==
  /\ envio = Parado
  /\ ~suporte
  /\ PendenteTr(gerado) # {}
  /\ envio' = [passo |-> "entrada", arq |-> InicioEnvio(gerado), fim |-> gerado, gasto |-> 0]
  /\ UNCHANGED <<gerado, arquivo, suporte, upload, falhas, errado>>

\* run with resume, by the support
Retomar ==
  /\ envio = Parado
  /\ suporte
  /\ suporte' = FALSE
  /\ errado' = FALSE
  /\ UNCHANGED <<gerado, arquivo, envio, upload, falhas>>

Esgotado == envio.gasto >= Orcamento

AbrirEntrada ==
  /\ envio.passo = "entrada"
  /\ envio.arq <= envio.fim /\ ~Esgotado
  /\ arquivo' = [arquivo EXCEPT ![envio.arq].status = "ENVIO_EM_ANDAMENTO"]
  /\ envio' = [envio EXCEPT !.passo = "consultar"]
  /\ UNCHANGED <<gerado, suporte, upload, falhas, errado>>

\* the chain was gone through, or the time of the cycle is over
EncerrarCiclo ==
  /\ \/ envio.passo = "entrada" /\ (envio.arq > envio.fim \/ Esgotado)
     \/ envio.passo = "partes" /\ Esgotado /\ arquivo[envio.arq].progresso.offset < NumParte
  /\ envio' = Parado
  /\ UNCHANGED <<gerado, arquivo, suporte, upload, falhas, errado>>

\* the program stops
PararEnvio ==
  /\ envio # Parado
  /\ falhas < MaxFalhaTr
  /\ falhas' = falhas + 1
  /\ envio' = Parado
  /\ UNCHANGED <<gerado, arquivo, suporte, upload, errado>>

-----------------------------------------------------------------------------
(* Answers *)

Gasta == envio.gasto + 1

\* progress accepted by validate_progress and saved
Anota(a, p) ==
  /\ arquivo' = [arquivo EXCEPT ![a].progresso = p]
  /\ envio' = [envio EXCEPT !.passo = "partes", !.gasto = IF Esgotado THEN @ ELSE Gasta]
  /\ UNCHANGED suporte

\* the receipt, and the next file of the chain
Recebe(a, p) ==
  /\ arquivo' = [arquivo EXCEPT ![a] = [status |-> "RECEBIDO_CENTRAL", progresso |-> p]]
  /\ envio' = [envio EXCEPT !.passo = "entrada", !.arq = a + 1, !.gasto = IF Esgotado THEN @ ELSE Gasta]
  /\ UNCHANGED suporte

\* TransferError that calls for the support
PedeSuporte ==
  /\ suporte' = TRUE
  /\ envio' = Parado
  /\ UNCHANGED arquivo

\* mutant: the expired upload is kept
MutSemExpirado(l) == l
SemExpirado(l) == IF l.status = "RECEBIDO_CENTRAL" THEN l ELSE [l EXCEPT !.progresso = SemProgresso]

\* HTTP_408: every file that is not received starts its upload again
Expirou ==
  /\ arquivo' = [x \in Arquivo |-> SemExpirado(arquivo[x])]
  /\ envio' = Parado
  /\ UNCHANGED suporte

\* CONNECTION: the cycle ends, the state stays
FalhaRepetir ==
  /\ envio' = Parado
  /\ UNCHANGED <<arquivo, suporte>>

\* the answer a is validated against what is on disk
\* mutant: the saved progress is trusted and the Central's is not looked at
MutConsulta(a) == IF arquivo[a].progresso = SemProgresso THEN upload'[a].progresso ELSE arquivo[a].progresso
Consulta(a) == upload'[a].progresso

Conflita(a) ==
  /\ arquivo[a].progresso # SemProgresso
  /\ \/ upload'[a].progresso.tentativa # arquivo[a].progresso.tentativa
     \/ upload'[a].progresso.offset < arquivo[a].progresso.offset

RespostaConsulta(a) ==
  CASE upload'[a].estado = "EXPIRADO" -> Expirou
    [] upload'[a].estado # "EXPIRADO" /\ Conflita(a) -> PedeSuporte
    [] upload'[a].estado = "RECEBIDO" /\ ~Conflita(a) -> Recebe(a, upload'[a].progresso)
    [] OTHER -> Anota(a, Consulta(a))

\* external: POST iniciar opens an upload, or a new attempt after an expired one
Aberto(u) ==
  IF u.estado \in {"NENHUM", "EXPIRADO"}
  THEN [estado |-> "ABERTO", progresso |-> [tentativa |-> u.progresso.tentativa + 1, offset |-> 0]]
  ELSE u

\* GET progresso, or POST iniciar for a file without progress
Consultar ==
  /\ envio.passo = "consultar"
  /\ LET a == envio.arq
     IN /\ upload' = IF arquivo[a].progresso = SemProgresso
                     THEN [upload EXCEPT ![a] = Aberto(@)] ELSE upload
        /\ RespostaConsulta(a)
  /\ UNCHANGED <<gerado, falhas, errado>>

\* PUT partes: the part that follows the saved offset
EnviarParte ==
  /\ envio.passo = "partes" /\ ~Esgotado
  /\ LET a == envio.arq
         p == arquivo[a].progresso
         u == upload[a]
     IN /\ p.offset < NumParte
        /\ upload' = IF u.estado = "ABERTO" /\ u.progresso = p
                     THEN [upload EXCEPT ![a].progresso.offset = p.offset + 1] ELSE upload
        /\ CASE u.estado = "EXPIRADO" -> Expirou
             [] u.estado = "ABERTO" /\ u.progresso = p -> Anota(a, [p EXCEPT !.offset = @ + 1])
             [] OTHER -> PedeSuporte
  /\ UNCHANGED <<gerado, falhas, errado>>

\* POST finalizar
Finalizar ==
  /\ envio.passo = "partes"
  /\ LET a == envio.arq
         p == arquivo[a].progresso
         u == upload[a]
     IN /\ p.offset = NumParte
        /\ upload' = IF u.estado = "ABERTO" /\ u.progresso = p
                     THEN [upload EXCEPT ![a].estado = "RECEBIDO"] ELSE upload
        /\ CASE u.estado = "EXPIRADO" -> Expirou
             [] upload'[a].estado = "RECEBIDO" -> Recebe(a, p)
             [] OTHER -> PedeSuporte
  /\ UNCHANGED <<gerado, falhas, errado>>

SemRespostaTr(a) == FalhaRepetir

\* what the Central does with the request that is being made
Efeito(a, u) ==
  CASE envio.passo = "consultar" /\ arquivo[a].progresso = SemProgresso -> Aberto(u)
    [] envio.passo = "partes" /\ u.estado = "ABERTO" /\ u.progresso = arquivo[a].progresso ->
         IF u.progresso.offset < NumParte THEN [u EXCEPT !.progresso.offset = @ + 1]
                                          ELSE [u EXCEPT !.estado = "RECEBIDO"]
    [] OTHER -> u

\* the request or its answer is lost
PerderTr ==
  /\ envio.passo \in {"consultar", "partes"}
  /\ falhas < MaxFalhaTr
  /\ falhas' = falhas + 1
  /\ LET a == envio.arq
     IN /\ upload' \in {upload, [upload EXCEPT ![a] = Efeito(a, @)]}
        /\ SemRespostaTr(a)
  /\ UNCHANGED <<gerado, errado>>

\* the request, done or not by the Central, ends in an error that calls for the
\* support: an HTTP status that refuses it, a TLS error, an unreadable answer
Recusar ==
  /\ envio.passo \in {"consultar", "partes"}
  /\ falhas < MaxFalhaTr
  /\ falhas' = falhas + 1
  /\ upload' \in {upload, [upload EXCEPT ![envio.arq] = Efeito(envio.arq, @)]}
  /\ errado' = TRUE
  /\ PedeSuporte
  /\ UNCHANGED gerado

\* so does an error of the hub's own files, at any moment of the cycle: the state,
\* the manifests, the chain or the archives cannot be read, or do not agree
ErroLocal ==
  /\ envio # Parado
  /\ falhas < MaxFalhaTr
  /\ falhas' = falhas + 1
  /\ errado' = TRUE
  /\ PedeSuporte
  /\ UNCHANGED <<gerado, upload>>

\* external: an upload that is not finished expires
Expirar(a) ==
  /\ upload[a].estado = "ABERTO"
  /\ upload[a].progresso.tentativa <= MaxExpira
  /\ upload' = [upload EXCEPT ![a].estado = "EXPIRADO"]
  /\ UNCHANGED <<gerado, arquivo, suporte, envio, falhas, errado>>

PassoEnvio ==
  \/ IniciarCiclo \/ AbrirEntrada \/ EncerrarCiclo \/ Consultar \/ EnviarParte \/ Finalizar
NextTransmissao ==
  \/ PassoEnvio \/ GerarBackup \/ Retomar \/ PararEnvio \/ PerderTr \/ Recusar \/ ErroLocal
  \/ \E a \in Arquivo : Expirar(a)

\* the task of the system runs the command again and again, and the support
\* resumes a sending that waits for it
JustoTransmissao == WF_varsTransmissao(PassoEnvio) /\ WF_varsTransmissao(Retomar)
SpecTransmissao == InitTransmissao /\ [][NextTransmissao]_varsTransmissao

-----------------------------------------------------------------------------
(* Properties *)

\* Whatever is lost, refused, expired or interrupted, the Central never holds a
\* file of the chain without all the files before it, although it does not
\* check the order itself (backup_transmission.py BackupSender.run).
CadeiaSemBuraco ==
  \A a, b \in Arquivo : a < b /\ upload[b].estado = "RECEBIDO" => upload[a].estado = "RECEBIDO"

\* A file the hub shows as received was received whole (BackupSender.run).
RecebidoConfere ==
  \A a \in Arquivo : arquivo[a].status = "RECEBIDO_CENTRAL" =>
    upload[a].estado = "RECEBIDO" /\ upload[a].progresso.offset = NumParte

\* Lost answers, stops and expired uploads are recovered by the next cycles: the
\* support is called for only by an error that says so, never because the progress
\* on disk and the Central's had drifted apart (validate_progress, HTTP_408).
SuporteSoPorErro == suporte => errado

\* Once the faults are over, every file generated reaches the Central and is
\* known to have (the cycles of BackupSender.run and their time limit).
CadeiaEnviada ==
  JustoTransmissao => \A a \in Arquivo : gerado >= a ~> arquivo[a].status = "RECEBIDO_CENTRAL"
============================================================================
