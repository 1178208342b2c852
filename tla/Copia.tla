------------------------------- MODULE Copia -------------------------------
(***************************************************************************)
(* The local backups of the MySQL of the hub, deploy/windows: a FULL dump   *)
(* with the coordinate of the binlog it starts at, and for each FULL a      *)
(* chain of incrementals, each the SQL of the binlog from where the         *)
(* previous one ends.  A scheduled task (mysql-backup-control.ps1) extends  *)
(* the chain of the active FULL and renews it; an operator may run a FULL   *)
(* or an incremental of any FULL by hand at the same time.                  *)
(*                                                                         *)
(* The server is external: its binlog is a line of positions that grows,    *)
(* expires from the start and is started anew by RESET MASTER.  An anchor   *)
(* (the hash of the prefix) tells two lines apart, so it is the number of   *)
(* the line here; a checksum that no longer matches is integro = FALSE.     *)
(***************************************************************************)
EXTENDS Naturals, SequencesExt

CONSTANTS
  ProcCp,    \* processes that make backups
  Tarefa,    \* the one of the scheduled task
  NuloCp,
  MaxPos,    \* bound of the model: positions of a line
  MaxLinha,  \* bound of the model: lines of the binlog
  MaxFull,   \* bound of the model: FULLs
  MaxDano    \* bound of the model: files damaged or lost

ASSUME ConstantesCopia ==
  /\ Tarefa \in ProcCp
  /\ NuloCp \notin ProcCp
  /\ {MaxPos, MaxLinha, MaxFull, MaxDano} \subseteq Nat

VARIABLES
  binlog,    \* [linha, inicio, fim]: the line, first position kept, end
  full,      \* the FULLs published, in the order of their names
  trechos,   \* the incrementals of each FULL, in the order of their names
  cabeca,    \* incremental-head-<full>.json: last sequence confirmed, 0 without file
  controle,  \* backup-control.json: active FULL (0: none), support_required
  trava,     \* the process that holds .full-backup.lock
  passo,     \* where each process is, with what it read
  dano       \* files damaged or lost so far

varsCopia == <<binlog, full, trechos, cabeca, controle, trava, passo, dano>>

Ponto == 0..MaxPos
NomeFull == 1..MaxFull
Trecho == [n : 1..MaxPos, linha : 1..MaxLinha, ini : Ponto, fim : Ponto]

\* What a process knows: the chain it continues, the number and the end of its
\* last segment, the end of what it copies and the line of the last file copied.
\* `boas' is a history: the FULLs whose chain could be continued when the task began.
Passo == [em : {"parada", "cadeia", "reparar", "janela", "fonte", "capturar", "copiar",
                "conferir", "publicar", "cabeca", "renovar", "full", "dump", "adotar"},
          boas : SUBSET NomeFull, f : 0..MaxFull, n : 0..MaxPos, ponto : Ponto, fim : Ponto,
          linha : 0..MaxLinha]
Parada == [em |-> "parada", boas |-> {}, f |-> 0, n |-> 0, ponto |-> 0, fim |-> 0, linha |-> 0]

TypeOKCopia ==
  /\ binlog \in [linha : 1..MaxLinha, inicio : Ponto, fim : Ponto]
  /\ full \in BoundedSeq([linha : 1..MaxLinha, ponto : Ponto, integro : BOOLEAN], MaxFull)
  /\ \A f \in NomeFull : \A i \in DOMAIN trechos[f] : trechos[f][i] \in Trecho
  /\ cabeca \in [NomeFull -> 0..MaxPos]
  /\ controle \in [ativo : 0..MaxFull, suporte : BOOLEAN]
  /\ trava \in ProcCp \cup {NuloCp}
  /\ passo \in [ProcCp -> Passo]
  /\ dano \in 0..MaxDano

InitCopia ==
  /\ binlog = [linha |-> 1, inicio |-> 0, fim |-> 0]
  /\ full = <<>>
  /\ trechos = [f \in NomeFull |-> <<>>]
  /\ cabeca = [f \in NomeFull |-> 0]
  /\ controle = [ativo |-> 0, suporte |-> FALSE]
  /\ trava = NuloCp
  /\ passo = [p \in ProcCp |-> Parada]
  /\ dano = 0

-----------------------------------------------------------------------------
(* What is read of the disk and of the server.                              *)

\* Get-HubIncrementalChain: manifests and archives as they were published, the
\* incrementals numbered and joined end to start, the head one of them.
CadeiaLida(f) ==
  /\ full[f].integro
  /\ \A i \in DOMAIN trechos[f] :
       /\ trechos[f][i].n = i
       /\ trechos[f][i].ini = IF i = 1 THEN full[f].ponto ELSE trechos[f][i - 1].fim
  /\ cabeca[f] <= Len(trechos[f])

FimDaCadeia(f) == IF trechos[f] = <<>> THEN full[f].ponto ELSE Last(trechos[f]).fim

\* Assert-HubBinlogSource: the prefix up to the point is the one of the FULL.
FonteConfere(l, x) == binlog.linha = l /\ x <= binlog.fim

\* Get-HubBinlogWindow: nothing from the point on has expired.
JanelaConfere(x) == binlog.inicio <= x /\ x <= binlog.fim

Valida(f) ==
  /\ CadeiaLida(f)
  /\ FonteConfere(full[f].linha, FimDaCadeia(f))
  /\ JanelaConfere(FimDaCadeia(f))

\* Mutant: the lock is shared, and two captures run at once.
MutTravaLivre(p) == TRUE

\* The lock file is opened with no sharing; the system closes it when the
\* process dies.
TravaLivre(p) == trava = NuloCp

Ir(p, x) == passo' = [passo EXCEPT ![p] = x]

\* The process ends, whatever happened, and its staging area is removed.
Sair(p) == Ir(p, Parada) /\ trava' = NuloCp

Disco == <<full, trechos, cabeca>>
Servidor == <<binlog, dano>>

-----------------------------------------------------------------------------
(* The control: Invoke-HubBackupControl.                                    *)

\* The state file says EXECUTANDO, without support_required, until the end.
Iniciar(retomar) ==
  /\ passo[Tarefa] = Parada
  /\ TravaLivre(Tarefa)
  /\ controle.suporte => retomar
  /\ trava' = Tarefa
  /\ controle' = [controle EXCEPT !.suporte = FALSE]
  /\ Ir(Tarefa, [Parada EXCEPT !.em = "cadeia", !.boas = {f \in DOMAIN full : Valida(f)}])
  /\ UNCHANGED <<Disco, Servidor>>

\* The control writes its state with FULL f active and ends.
Encerrar(f, suporte) ==
  /\ controle' = [ativo |-> f, suporte |-> suporte]
  /\ Sair(Tarefa)
  /\ UNCHANGED <<Disco, Servidor>>

\* A failure of a step: of the reading of a chain or of the head, it asks for
\* support; of MySQL, of the space or of a capture, it does not.
Falhar(suporte) ==
  /\ passo[Tarefa].em \in IF suporte
       THEN {"cadeia", "reparar", "renovar", "adotar"}
       ELSE {"cadeia", "janela", "fonte", "capturar", "copiar", "conferir", "publicar", "cabeca",
             "renovar", "full", "dump", "adotar"}
  /\ Encerrar(controle.ativo, suporte)

EmUsoCp == IF controle.ativo = 0 THEN Len(full) ELSE controle.ativo
CandidatoOk(f) == Valida(f)
\* Mutant: only the newest FULL is validated.
MutAtivaOk(f) == TRUE

AtivaOk(f) == Valida(f)

\* The active chain is validated first, and then the newest FULL adopted: never
\* another FULL to hide a fault of the active chain.
EscolherCadeia ==
  /\ passo[Tarefa].em = "cadeia"
  /\ full # <<>>
  /\ AtivaOk(EmUsoCp)
  /\ CandidatoOk(Len(full))
  /\ controle' = [ativo |-> Len(full), suporte |-> FALSE]
  /\ Ir(Tarefa, [passo[Tarefa] EXCEPT !.em = "reparar", !.f = Len(full), !.fim = binlog.fim])
  /\ UNCHANGED <<Disco, Servidor, trava>>

CadeiaRecusada ==
  /\ passo[Tarefa].em = "cadeia"
  /\ full # <<>>
  /\ ~(AtivaOk(EmUsoCp) /\ CandidatoOk(Len(full)))
  /\ Encerrar(controle.ativo, TRUE)

\* Test-HubFullRenewalWindow is the clock's: it may ask for a new FULL or not.
NaoRenovar ==
  /\ passo[Tarefa].em = "renovar"
  /\ Encerrar(controle.ativo, FALSE)

Renovar ==
  /\ passo[Tarefa].em = "renovar"
  /\ LET x == FimDaCadeia(controle.ativo)
     IN IF FonteConfere(full[controle.ativo].linha, x) /\ JanelaConfere(x)
        THEN /\ Ir(Tarefa, [passo[Tarefa] EXCEPT !.em = "full"])
             /\ UNCHANGED <<Disco, Servidor, trava, controle>>
        ELSE Encerrar(controle.ativo, TRUE)

\* The FULL just published is validated before it becomes the active one.
AdotarNovo ==
  /\ passo[Tarefa].em = "adotar"
  /\ IF Valida(Len(full)) THEN Encerrar(Len(full), FALSE) ELSE Encerrar(controle.ativo, TRUE)

-----------------------------------------------------------------------------
(* The captures, by the control or by hand: Invoke-HubMySqlFullBackup and   *)
(* Invoke-HubMySqlIncrementalBackup.                                        *)

FullManual(p) ==
  /\ p # Tarefa /\ passo[p] = Parada
  /\ TravaLivre(p)
  /\ trava' = p
  /\ Ir(p, [Parada EXCEPT !.em = "full"])
  /\ UNCHANGED <<Disco, Servidor, controle>>

IncrementalManual(p, f) ==
  /\ p # Tarefa /\ passo[p] = Parada
  /\ TravaLivre(p)
  /\ f \in DOMAIN full
  /\ CadeiaLida(f)
  /\ trava' = p
  /\ Ir(p, [Parada EXCEPT !.em = "janela", !.f = f])
  /\ UNCHANGED <<Disco, Servidor, controle>>

\* What follows a capture: the control may renew, the operator is done.
Depois(p) ==
  IF p = Tarefa
  THEN Ir(p, [Parada EXCEPT !.em = "renovar", !.boas = passo[p].boas]) /\ UNCHANGED trava
  ELSE Sair(p)

\* The control writes the head again when it is behind what is published, and
\* captures when the window it read goes beyond the chain.
Reparar(p) ==
  /\ passo[p].em = "reparar"
  /\ cabeca' = [cabeca EXCEPT ![passo[p].f] = Len(trechos[passo[p].f])]
  /\ IF passo[p].fim = FimDaCadeia(passo[p].f) THEN Depois(p)
     ELSE Ir(p, [passo[p] EXCEPT !.em = "janela"]) /\ UNCHANGED trava
  /\ UNCHANGED <<full, trechos, Servidor, controle>>

\* The capture reads the window, which bounds what it copies.
LerJanela(p) ==
  /\ passo[p].em = "janela"
  /\ JanelaConfere(FimDaCadeia(passo[p].f))
  /\ Ir(p, [passo[p] EXCEPT !.em = "fonte", !.n = Len(trechos[passo[p].f]),
                           !.ponto = FimDaCadeia(passo[p].f), !.fim = binlog.fim])
  /\ UNCHANGED <<Disco, Servidor, controle, trava>>

\* Then the source, and the head; nothing to copy when the end is the point.
ConferirFonte(p) ==
  /\ passo[p].em = "fonte"
  /\ FonteConfere(full[passo[p].f].linha, passo[p].ponto)
  /\ cabeca' = [cabeca EXCEPT ![passo[p].f] = passo[p].n]
  /\ IF passo[p].fim = passo[p].ponto THEN Depois(p)
     ELSE Ir(p, [passo[p] EXCEPT !.em = "capturar"]) /\ UNCHANGED trava
  /\ UNCHANGED <<full, trechos, Servidor, controle>>

\* The prefixes of the binlogs are copied one by one, from the first, whose copy
\* has the anchor of the chain, to the last, which has the end that was read.
Capturar(p) ==
  /\ passo[p].em = "capturar"
  /\ FonteConfere(full[passo[p].f].linha, passo[p].ponto) /\ binlog.inicio <= passo[p].ponto
  /\ Ir(p, [passo[p] EXCEPT !.em = "copiar"])
  /\ UNCHANGED <<Disco, Servidor, controle, trava>>

CopiarAteFim(p) ==
  /\ passo[p].em = "copiar"
  /\ passo[p].fim <= binlog.fim
  /\ Ir(p, [passo[p] EXCEPT !.em = "conferir", !.linha = binlog.linha])
  /\ UNCHANGED <<Disco, Servidor, controle, trava>>

\* Mutant: what was copied is not compared with its sources again.
MutOrigensConferem(p) == TRUE

\* Every copy still matches its source, from the first file to the last.
OrigensConferem(p) ==
  /\ binlog.linha = full[passo[p].f].linha /\ binlog.inicio <= passo[p].ponto
  /\ FonteConfere(passo[p].linha, passo[p].fim)

\* A segment may have no change of the database (Test-HubBinlogSqlChanges): it is
\* not published and the point of the chain stays.
ConferirCopias(p, muda) ==
  /\ passo[p].em = "conferir"
  /\ OrigensConferem(p)
  /\ IF muda THEN Ir(p, [passo[p] EXCEPT !.em = "publicar"]) /\ UNCHANGED trava
     ELSE Depois(p)
  /\ UNCHANGED <<Disco, Servidor, controle>>

\* The last source is compared once more; the directory is renamed with its
\* manifest inside.
Publicar(p) ==
  /\ passo[p].em = "publicar"
  /\ FonteConfere(passo[p].linha, passo[p].fim)
  /\ LET s == [n |-> passo[p].n + 1, linha |-> passo[p].linha,
               ini |-> passo[p].ponto, fim |-> passo[p].fim]
     IN /\ trechos' = [trechos EXCEPT ![passo[p].f] = Append(@, s)]
        /\ Ir(p, [passo[p] EXCEPT !.em = "cabeca", !.n = s.n])
  /\ UNCHANGED <<full, cabeca, Servidor, controle, trava>>

\* Write-HubIncrementalHead, after the segment is published.
GravarCabeca(p) ==
  /\ passo[p].em = "cabeca"
  /\ cabeca' = [cabeca EXCEPT ![passo[p].f] = passo[p].n]
  /\ Depois(p)
  /\ UNCHANGED <<full, trechos, Servidor, controle>>

\* mysqldump, one snapshot with the coordinate where it starts.
Dump(p) ==
  /\ passo[p].em = "full"
  /\ Ir(p, [passo[p] EXCEPT !.em = "dump", !.ponto = binlog.fim])
  /\ UNCHANGED <<Disco, Servidor, controle, trava>>

\* The point of the dump is looked for in the binlogs there are now, and its
\* anchor taken from them: RESET MASTER during the dump may leave a FULL that is
\* anchored to the new line.
PublicarFull(p) ==
  /\ passo[p].em = "dump"
  /\ JanelaConfere(passo[p].ponto)
  /\ Len(full) < MaxFull
  /\ full' = Append(full, [linha |-> binlog.linha, ponto |-> passo[p].ponto, integro |-> TRUE])
  /\ IF p = Tarefa
     THEN Ir(p, [passo[p] EXCEPT !.em = "adotar"]) /\ UNCHANGED trava
     ELSE Sair(p)
  /\ UNCHANGED <<trechos, cabeca, Servidor, controle>>

\* An error in a capture made by hand publishes nothing; a kill of any process
\* (reboot, power) leaves the state file and the published directories as they
\* are, and its staging area is never read.
Interromper(p) ==
  /\ passo[p] # Parada
  /\ Sair(p)
  /\ UNCHANGED <<Disco, Servidor, controle>>

-----------------------------------------------------------------------------
(* The server and the disk, external.                                       *)

GravarBinlog ==
  /\ binlog.fim < MaxPos
  /\ binlog' = [binlog EXCEPT !.fim = @ + 1]
  /\ UNCHANGED <<Disco, controle, trava, passo, dano>>

\* binlog_expire_logs_seconds, or a purge by the support.
ExpirarBinlog ==
  /\ binlog.inicio < binlog.fim
  /\ binlog' = [binlog EXCEPT !.inicio = @ + 1]
  /\ UNCHANGED <<Disco, controle, trava, passo, dano>>

\* RESET MASTER, which needs no restart and may come during a capture or a FULL,
\* or a new data directory.
Recriar ==
  /\ binlog.linha < MaxLinha
  /\ binlog' = [linha |-> binlog.linha + 1, inicio |-> 0, fim |-> 0]
  /\ UNCHANGED <<Disco, controle, trava, passo, dano>>

Danificar(f) ==
  /\ dano < MaxDano
  /\ full[f].integro
  /\ full' = [full EXCEPT ![f].integro = FALSE]
  /\ dano' = dano + 1
  /\ UNCHANGED <<trechos, cabeca, controle, trava, passo, binlog>>

\* The newest incremental of a FULL is lost with its directory.
Perder(f) ==
  /\ dano < MaxDano
  /\ trava = NuloCp
  /\ trechos[f] # <<>>
  /\ trechos' = [trechos EXCEPT ![f] = Front(@)]
  /\ dano' = dano + 1
  /\ UNCHANGED <<full, cabeca, controle, trava, passo, binlog>>

NextCopia ==
  \/ \E r \in BOOLEAN : Iniciar(r)
  \/ \E s \in BOOLEAN : Falhar(s)
  \/ EscolherCadeia \/ CadeiaRecusada
  \/ Renovar \/ NaoRenovar \/ AdotarNovo
  \/ \E p \in ProcCp :
       \/ FullManual(p)
       \/ \E f \in NomeFull : IncrementalManual(p, f)
       \/ Reparar(p) \/ LerJanela(p) \/ ConferirFonte(p) \/ Capturar(p) \/ CopiarAteFim(p)
       \/ (\E m \in BOOLEAN : ConferirCopias(p, m)) \/ Publicar(p) \/ GravarCabeca(p)
       \/ Dump(p) \/ PublicarFull(p)
       \/ Interromper(p)
  \/ GravarBinlog \/ ExpirarBinlog \/ Recriar
  \/ \E f \in DOMAIN full : Danificar(f) \/ Perder(f)

SpecCopia == InitCopia /\ [][NextCopia]_varsCopia

-----------------------------------------------------------------------------
(* Properties.                                                              *)

\* A FULL and its incrementals make one chain up to the last one: the segments
\* on disk start where the FULL starts, join end to start without overlap, and
\* come from the binlog the FULL is anchored to, whatever the operator runs
\* beside the task, wherever a process dies and whenever the binlog expires or is
\* recreated.  (It is not said that the dump of a FULL is of that binlog too.)
\* Code: mysql-backup.ps1:555-592 and 670-733.
CadeiaContinua ==
  \A f \in DOMAIN full : \A i \in DOMAIN trechos[f] :
    LET s == trechos[f][i] IN
    /\ s.linha = full[f].linha
    /\ s.ini = IF i = 1 THEN full[f].ponto ELSE trechos[f][i - 1].fim
    /\ s.ini < s.fim

\* The control leaves its active FULL for another only when the chain of the
\* active one could still be continued when the run began: a lost continuity
\* is never hidden by a newer FULL.
\* Code: mysql-backup-control.ps1:101-113 and 128-143.
SemTrocaEscondida ==
  [][controle'.ativo # controle.ativo /\ controle.ativo # 0
       => controle.ativo \in passo[Tarefa].boas]_varsCopia

\* The chain of backups restores every change, or its interruption shows.
CadeiaGuardada ==
  /\ CadeiaContinua
  /\ [][CadeiaContinua']_varsCopia
  /\ SemTrocaEscondida

============================================================================
