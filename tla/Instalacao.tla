----------------------------- MODULE Instalacao -----------------------------
(***************************************************************************)
(* The machine of the store as its administrative scripts see it            *)
(* (deploy/windows): install-hub.ps1 in its normal and recovery modes, the  *)
(* assisted recovery, the removal, the purge, the services that the SCM     *)
(* starts and the guard every process of the hub reads                      *)
(* (runtime/recovery_guard.py).  One script runs at a time; it may be       *)
(* killed between two effects, and run again on what it left.               *)
(***************************************************************************)
EXTENDS Naturals, FiniteSets

CONSTANTS
  Senha,   \* secrets that New-Secret may draw
  Nada,    \* no file, no account, or an account without a password
  SemSegredo    \* a file with no secret in it yet

\* the files and the accounts hold six secrets: there is always another to draw
ASSUME ConstantesInstalacao ==
  /\ Nada \notin Senha /\ SemSegredo \notin Senha /\ Nada # SemSegredo
  /\ IsFiniteSet(Senha) => Cardinality(Senha) > 6

VARIABLES
  arq,        \* config: the password in each file, whether my.ini and the marker exist
  sistema,    \* mysql\data\mysql
  conta,      \* password of each account of MySQL
  tabelas,    \* sysvarhub_db has tables
  restaurado, \* they come from a recovery that the support has not released
  svc,        \* the services
  hubProc,    \* the process of the service of the hub
  script      \* the script that runs

varsInstalacao == <<arq, sistema, conta, tabelas, restaurado, svc, hubProc, script>>

Parado == [passo |-> "fora", rec |-> FALSE, nova |-> FALSE, raiz |-> FALSE]

PassosInstala ==
  {"assertParado", "marcar", "desativar", "preflight", "env", "ini", "inicializar",
   "adminInicial", "registrarMySql", "iniciarMySql", "raiz", "adminRaiz", "raizSenha",
   "verificar", "banco", "contaCopia", "copiaConta", "migrar", "preparar", "registrarHub",
   "iniciarHub", "conferir"}
PassosOutros ==
  {"setupHub", "setupMySql", "instalar", "pronta", "verParado", "verTipo", "verVazio", "importar", "pararHub", "excluirHub",
   "pararMySql", "excluirMySql", "purgar"}

TypeOKInstalacao ==
  /\ arq \in [env : Senha \cup {Nada}, admin : Senha \cup {Nada, SemSegredo},
              copia : Senha \cup {Nada, SemSegredo}, ini : BOOLEAN, marcador : BOOLEAN]
  /\ sistema \in {"nenhum", "parcial", "pronto"}
  /\ conta \in [root : Senha \cup {Nada}, hub : Senha \cup {Nada}, copia : Senha \cup {Nada}]
  /\ tabelas \in BOOLEAN /\ restaurado \in BOOLEAN
  /\ svc \in [mysql : {"nenhum", "parado", "rodando"}, hub : {"nenhum", "parado", "rodando"},
              inicio : {"auto", "desativado"}]
  /\ hubProc \in {"fora", "inicio", "passou", "opera"}
  /\ script \in [passo : PassosInstala \cup PassosOutros \cup {"fora"}, rec : BOOLEAN,
                 nova : BOOLEAN, raiz : BOOLEAN]

InitArq ==
  [env |-> Nada, admin |-> Nada, copia |-> Nada, ini |-> FALSE, marcador |-> FALSE]
InitInstalacao ==
  /\ arq = InitArq
  /\ sistema = "nenhum" /\ conta = [c \in {"root", "hub", "copia"} |-> Nada]
  /\ tabelas = FALSE /\ restaurado = FALSE
  /\ svc = [mysql |-> "nenhum", hub |-> "nenhum", inicio |-> "auto"]
  /\ hubProc = "fora" /\ script = Parado

\* New-Secret: a value in use nowhere
SegredosEmUso == {arq.env, arq.admin, arq.copia, conta.root, conta.hub, conta.copia}
Nova == CHOOSE s \in Senha : s \notin SegredosEmUso

-----------------------------------------------------------------------------
\* The steps of a script: where it is, and where it goes

No(p) == script.passo = p
Vai(p) == script' = [script EXCEPT !.passo = p]
Lanca == script' = Parado    \* throw
\* goes on when C holds, throws otherwise
Exige(C, p) == IF C THEN Vai(p) ELSE Lanca

\* the setup: both services are stopped before the files are replaced; one
\* that does not stop in time aborts it
PrepararSetup(rec) ==
  /\ \/ /\ No("fora") /\ script' = [Parado EXCEPT !.passo = "setupHub", !.rec = rec]
        /\ UNCHANGED <<svc, hubProc>>
     \/ /\ No("setupHub") /\ rec = script.rec
        /\ \/ Vai("setupMySql") /\ hubProc' = "fora"
              /\ svc' = IF svc.hub = "rodando" THEN [svc EXCEPT !.hub = "parado"] ELSE svc
           \/ Lanca /\ UNCHANGED <<svc, hubProc>>
     \/ /\ No("setupMySql") /\ rec = script.rec /\ UNCHANGED hubProc
        /\ \/ Vai("instalar")
              /\ svc' = IF svc.mysql = "rodando" THEN [svc EXCEPT !.mysql = "parado"] ELSE svc
           \/ Lanca /\ UNCHANGED svc
  /\ UNCHANGED <<arq, sistema, conta, tabelas, restaurado>>

\* install-hub.ps1, by the setup or by hand: without -RecoveryMode a marker
\* ends it at once
Instalar(rec) ==
  /\ No("fora") \/ (No("instalar") /\ script.rec = rec)
  /\ IF rec \/ ~arq.marcador
     THEN script' = [Parado EXCEPT !.passo = IF rec THEN "assertParado" ELSE "preflight", !.rec = rec]
     ELSE Lanca
  /\ UNCHANGED <<arq, sistema, conta, tabelas, restaurado, svc, hubProc>>

\* Assert-HubRecoveryStopped
HubParado == svc.hub # "rodando"

\* Initialize-HubRecoveryMode: the marker, then the service disabled
PrepararRecuperacao ==
  /\ \/ /\ No("assertParado") /\ Exige(HubParado, "marcar")
        /\ UNCHANGED <<arq, svc>>
     \/ /\ No("marcar") /\ Vai("desativar")
        /\ arq' = [arq EXCEPT !.marcador = TRUE] /\ UNCHANGED svc
     \/ /\ No("desativar") /\ Vai("preflight")
        /\ svc' = IF svc.hub = "nenhum" THEN svc ELSE [svc EXCEPT !.inicio = "desativado"]
        /\ UNCHANGED arq
  /\ UNCHANGED <<sistema, conta, tabelas, restaurado, hubProc>>

\* Test-HubMySqlNewInstallation
InstalacaoNova ==
  /\ svc.mysql = "nenhum" /\ sistema = "nenhum"
  /\ arq.env = Nada /\ arq.admin = Nada /\ arq.copia = Nada /\ ~arq.ini

Preflight ==
  /\ No("preflight")
  /\ IF InstalacaoNova \/ (arq.ini /\ sistema # "nenhum")
     THEN script' = [script EXCEPT !.passo = "env", !.nova = InstalacaoNova]
     ELSE Lanca
  /\ UNCHANGED <<arq, sistema, conta, tabelas, restaurado, svc, hubProc>>

\* the secrets of an environment that exists are never drawn again
\* mutant: every installation writes its environment
MutEnvDe(e) == Nova
EnvDe(e) == IF e = Nada THEN Nova ELSE e
EscreverEnv ==
  /\ No("env") /\ Vai("ini")
  /\ arq' = [arq EXCEPT !.env = EnvDe(@)]
  /\ UNCHANGED <<sistema, conta, tabelas, restaurado, svc, hubProc>>

EscreverIni ==
  /\ No("ini") /\ Vai("inicializar")
  /\ arq' = IF script.nova THEN [arq EXCEPT !.ini = TRUE] ELSE arq
  /\ UNCHANGED <<sistema, conta, tabelas, restaurado, svc, hubProc>>

\* mysqld --initialize-insecure: root has no password; interrupted, it leaves a
\* directory that is there and of no use
InicializarMySql ==
  /\ No("inicializar")
  /\ IF sistema # "nenhum" THEN Vai("registrarMySql") /\ UNCHANGED sistema
     ELSE \/ sistema' = "pronto" /\ Vai("adminInicial")
          \/ sistema' = "parcial" /\ Lanca
  /\ UNCHANGED <<arq, conta, tabelas, restaurado, svc, hubProc>>

\* Write-MySqlAdminFile and the credential of the backup: an interruption
\* leaves the file without its secret
GravarSegredo(campo) ==
  \/ arq' = [arq EXCEPT ![campo] = Nova]
  \/ arq' = [arq EXCEPT ![campo] = SemSegredo]

EscreverAdmin ==
  /\ \/ No("adminInicial") \/ No("adminRaiz")
  /\ GravarSegredo("admin")
  /\ IF arq'.admin = SemSegredo THEN Lanca
     ELSE IF No("adminRaiz") THEN Vai("raizSenha")
     ELSE script' = [script EXCEPT !.passo = "registrarMySql", !.raiz = TRUE]
  /\ UNCHANGED <<sistema, conta, tabelas, restaurado, svc, hubProc>>

\* the service of MySQL, registered once; an unfinished directory does not start
RegistrarMySql ==
  /\ No("registrarMySql") /\ Vai("iniciarMySql")
  /\ svc' = IF svc.mysql = "nenhum" THEN [svc EXCEPT !.mysql = "parado"] ELSE svc
  /\ UNCHANGED <<arq, sistema, conta, tabelas, restaurado, hubProc>>
IniciarMySql ==
  /\ No("iniciarMySql")
  /\ IF sistema = "pronto" THEN Vai("raiz") /\ svc' = [svc EXCEPT !.mysql = "rodando"]
     ELSE Lanca /\ UNCHANGED svc
  /\ UNCHANGED <<arq, sistema, conta, tabelas, restaurado, hubProc>>

\* the password that the file of root tells mysql.exe to use: none, if it has none
MySql == svc.mysql = "rodando"
SenhaDoArquivo == IF arq.admin = SemSegredo THEN Nada ELSE arq.admin
\* Test-MySqlAdminCredential, and every call with Get-MySqlAdminArgs: the file
\* is there and logs in as root, even a root that has no password
AdminVale == MySql /\ arq.admin # Nada /\ conta.root = SenhaDoArquivo

DepoisDaRaiz == IF script.rec THEN "verificar" ELSE "banco"
EscolherRaiz ==
  /\ No("raiz")
  /\ IF script.raiz THEN Vai("raizSenha")
     ELSE IF AdminVale THEN Vai(DepoisDaRaiz)
     ELSE IF ~MySql \/ conta.root # Nada THEN Lanca
     ELSE Vai(IF arq.admin = Nada THEN "adminRaiz" ELSE "raizSenha")
  /\ UNCHANGED <<arq, sistema, conta, tabelas, restaurado, svc, hubProc>>

\* Set-MySqlRootPasswordFromAdminFile, by a root that has no password
ProtegerRaiz ==
  /\ No("raizSenha")
  /\ IF MySql /\ arq.admin \in Senha /\ conta.root = Nada
     THEN conta' = [conta EXCEPT !.root = arq.admin] /\ Vai(DepoisDaRaiz)
     ELSE Lanca /\ UNCHANGED conta
  /\ UNCHANGED <<arq, sistema, tabelas, restaurado, svc, hubProc>>

\* the recovery asks for a hub that is stopped and a database with no table
VerificarDestino ==
  /\ No("verificar") /\ Exige(HubParado /\ AdminVale /\ ~tabelas, "banco")
  /\ UNCHANGED <<arq, sistema, conta, tabelas, restaurado, svc, hubProc>>

\* CREATE DATABASE, CREATE USER IF NOT EXISTS with the password of the
\* environment; the recovery mode ends here
PrepararBanco ==
  /\ No("banco")
  /\ IF AdminVale
     THEN /\ conta' = IF conta.hub = Nada THEN [conta EXCEPT !.hub = arq.env] ELSE conta
          /\ IF script.rec THEN Lanca ELSE Vai(IF script.nova THEN "contaCopia" ELSE "migrar")
     ELSE Lanca /\ UNCHANGED conta
  /\ UNCHANGED <<arq, sistema, tabelas, restaurado, svc, hubProc>>

\* Initialize-HubMySqlBackupAccount, in an installation made new by this run:
\* the file, then the account
CriarContaCopia ==
  /\ \/ /\ No("contaCopia")
        /\ IF arq.copia = Nada
           THEN GravarSegredo("copia") /\ (IF arq'.copia = SemSegredo THEN Lanca ELSE Vai("copiaConta"))
           ELSE Lanca /\ UNCHANGED arq
        /\ UNCHANGED conta
     \/ /\ No("copiaConta") /\ UNCHANGED arq
        /\ IF AdminVale /\ conta.copia = Nada
           THEN conta' = [conta EXCEPT !.copia = arq.copia] /\ Vai("migrar")
           ELSE Lanca /\ UNCHANGED conta
  /\ UNCHANGED <<sistema, tabelas, restaurado, svc, hubProc>>

\* SysvarHubService.exe manage: the guard, the environment, the database
HubConecta == MySql /\ arq.env \in Senha /\ arq.env = conta.hub
Migrar ==
  /\ No("migrar")
  /\ IF ~arq.marcador /\ HubConecta THEN tabelas' = TRUE /\ Vai("preparar")
     ELSE Lanca /\ UNCHANGED tabelas
  /\ UNCHANGED <<arq, sistema, conta, restaurado, svc, hubProc>>
PrepararInstalacao ==
  /\ No("preparar") /\ Exige(~arq.marcador /\ HubConecta, "registrarHub")
  /\ UNCHANGED <<arq, sistema, conta, tabelas, restaurado, svc, hubProc>>

RegistrarHub ==
  /\ No("registrarHub") /\ Vai("iniciarHub")
  /\ svc' = [svc EXCEPT !.hub = IF @ = "nenhum" THEN "parado" ELSE @, !.inicio = "auto"]
  /\ UNCHANGED <<arq, sistema, conta, tabelas, restaurado, hubProc>>
ArrancarHub ==
  /\ No("iniciarHub") /\ Vai("conferir")
  /\ IF svc.hub = "parado"
     THEN svc' = [svc EXCEPT !.hub = "rodando", !.mysql = "rodando"] /\ hubProc' = "inicio"
     ELSE UNCHANGED <<svc, hubProc>>
  /\ UNCHANGED <<arq, sistema, conta, tabelas, restaurado>>

\* check-hub.ps1: the hub answers, or the time is over
Conferir ==
  /\ No("conferir") /\ Exige(hubProc = "opera", "pronta")
  /\ UNCHANGED <<arq, sistema, conta, tabelas, restaurado, svc, hubProc>>

-----------------------------------------------------------------------------
\* Invoke-HubMySqlRecovery, run by the support

Recuperar ==
  /\ No("fora") /\ arq.marcador /\ Vai("verParado")
  /\ UNCHANGED <<arq, sistema, conta, tabelas, restaurado, svc, hubProc>>
VerificarRecuperacao ==
  /\ \/ No("verParado") /\ Exige(HubParado, "verTipo")
     \/ No("verTipo") /\ Exige(svc.hub = "nenhum" \/ svc.inicio = "desativado", "verVazio")
     \/ No("verVazio") /\ Exige(MySql /\ ~tabelas, "importar")
  /\ UNCHANGED <<arq, sistema, conta, tabelas, restaurado, svc, hubProc>>
\* runtime/recovery.py: the import, which may stop half-way
Importar ==
  /\ No("importar") /\ tabelas' = TRUE /\ restaurado' = TRUE /\ Lanca
  /\ UNCHANGED <<arq, sistema, conta, svc, hubProc>>

\* the support empties the database of a hub it will recover: no script does
EsvaziarBanco ==
  /\ No("fora") /\ arq.marcador /\ MySql /\ tabelas' = FALSE /\ restaurado' = FALSE
  /\ UNCHANGED <<arq, sistema, conta, svc, hubProc, script>>

\* the support releases the hub, or gives the marker up when nothing came
Liberar ==
  /\ No("fora") /\ arq.marcador /\ svc.hub # "rodando"
  /\ arq' = [arq EXCEPT !.marcador = FALSE] /\ restaurado' = FALSE
  /\ svc' = [svc EXCEPT !.inicio = "auto"]
  /\ UNCHANGED <<sistema, conta, tabelas, hubProc, script>>

-----------------------------------------------------------------------------
\* uninstall-hub.ps1 keeps ProgramData; purge-data.ps1 removes it, and what it
\* cannot remove because a process holds it stays

Desinstalar(p) ==
  /\ No("fora") /\ Vai(p)
  /\ UNCHANGED <<arq, sistema, conta, tabelas, restaurado, svc, hubProc>>

\* Stop-ServiceWithTimeout, Remove-ServiceAfterStop: a service that does not
\* stop, or is started again, is not deleted
RemoverServicos ==
  /\ \/ /\ No("pararHub")
        /\ \/ Vai("excluirHub") /\ hubProc' = "fora"
              /\ svc' = IF svc.hub = "rodando" THEN [svc EXCEPT !.hub = "parado"] ELSE svc
           \/ Lanca /\ UNCHANGED <<svc, hubProc>>
     \/ /\ No("excluirHub") /\ Exige(svc.hub # "rodando", "pararMySql") /\ UNCHANGED hubProc
        /\ svc' = IF svc.hub # "rodando" THEN [svc EXCEPT !.hub = "nenhum", !.inicio = "auto"] ELSE svc
     \/ /\ No("pararMySql") /\ UNCHANGED hubProc
        /\ \/ Vai("excluirMySql")
              /\ svc' = IF MySql THEN [svc EXCEPT !.mysql = "parado"] ELSE svc
           \/ Lanca /\ UNCHANGED svc
     \/ /\ No("excluirMySql") /\ Lanca /\ UNCHANGED hubProc
        /\ svc' = IF MySql THEN svc ELSE [svc EXCEPT !.mysql = "nenhum"]
  /\ UNCHANGED <<arq, sistema, conta, tabelas, restaurado>>

\* config comes before logs and mysql in the directory
Purgar ==
  /\ \/ /\ No("fora") /\ Vai("purgar")
        /\ arq' = InitArq
        /\ UNCHANGED <<sistema, conta, tabelas, restaurado>>
     \/ /\ No("purgar") /\ Lanca /\ UNCHANGED arq
        /\ IF MySql \/ svc.hub = "rodando" THEN UNCHANGED <<sistema, conta, tabelas, restaurado>>
           ELSE /\ sistema' = "nenhum" /\ conta' = [c \in DOMAIN conta |-> Nada]
                /\ tabelas' = FALSE /\ restaurado' = FALSE
  /\ UNCHANGED <<svc, hubProc>>

-----------------------------------------------------------------------------
\* The services

\* the SCM or an operator starts the hub, and MySQL, which it depends on
IniciarServico ==
  /\ svc.hub = "parado" /\ svc.inicio = "auto" /\ svc.mysql # "nenhum" /\ sistema = "pronto"
  /\ svc' = [svc EXCEPT !.hub = "rodando", !.mysql = "rodando"] /\ hubProc' = "inicio"
  /\ UNCHANGED <<arq, sistema, conta, tabelas, restaurado, script>>

\* the guard, then the rest of the start: the process that read no marker goes
\* on even if one is written now
Guardar ==
  /\ hubProc = "inicio"
  /\ IF arq.marcador THEN hubProc' = "fora" /\ svc' = [svc EXCEPT !.hub = "parado"]
     ELSE hubProc' = "passou" /\ UNCHANGED svc
  /\ UNCHANGED <<arq, sistema, conta, tabelas, restaurado, script>>
Operar ==
  /\ hubProc = "passou" /\ hubProc' = "opera"
  /\ UNCHANGED <<arq, sistema, conta, tabelas, restaurado, svc, script>>

\* stopped, or ended by an error, or by a restart of the machine; MySQL may
\* stop by itself too
PararServico ==
  /\ \/ /\ svc.hub = "rodando" /\ hubProc' = "fora" /\ svc' = [svc EXCEPT !.hub = "parado"]
     \/ /\ MySql /\ svc' = [svc EXCEPT !.mysql = "parado"]
        /\ UNCHANGED hubProc
  /\ UNCHANGED <<arq, sistema, conta, tabelas, restaurado, script>>

\* a script is closed, the setup is aborted
FecharScript ==
  /\ script # Parado /\ script' = Parado
  /\ UNCHANGED <<arq, sistema, conta, tabelas, restaurado, svc, hubProc>>

NextInstalacao ==
  \/ \E rec \in BOOLEAN : PrepararSetup(rec) \/ Instalar(rec)
  \/ PrepararRecuperacao \/ Preflight \/ EscreverEnv \/ EscreverIni \/ InicializarMySql
  \/ EscreverAdmin \/ RegistrarMySql \/ IniciarMySql \/ EscolherRaiz \/ ProtegerRaiz
  \/ VerificarDestino \/ PrepararBanco \/ CriarContaCopia \/ Migrar \/ PrepararInstalacao
  \/ RegistrarHub \/ ArrancarHub \/ Conferir
  \/ Recuperar \/ VerificarRecuperacao \/ Importar \/ EsvaziarBanco \/ Liberar
  \/ Desinstalar("pararHub") \/ RemoverServicos \/ Purgar
  \/ IniciarServico \/ Guardar \/ Operar \/ PararServico \/ FecharScript

SpecInstalacao == InitInstalacao /\ [][NextInstalacao]_varsInstalacao

-----------------------------------------------------------------------------
\* Whatever was interrupted, removed and run again: a secret that MySQL knows
\* is the one in the file its client reads, and an installation that says it
\* is ready has everything the hub needs (install-hub.ps1).  Its root logs in
\* with the file, which is not to say that it is protected: when the file was
\* left without a secret, root has no password and the scripts give it none.
InstalacaoCoerente ==
  /\ sistema = "pronto" =>
       /\ arq.admin \in Senha /\ conta.root # Nada => arq.admin = conta.root
       /\ arq.env \in Senha /\ conta.hub # Nada => arq.env = conta.hub
       /\ arq.copia \in Senha /\ conta.copia # Nada => arq.copia = conta.copia
  /\ No("pronta") =>
       /\ sistema = "pronto" /\ arq.ini /\ conta.hub = arq.env
       /\ arq.admin # Nada /\ conta.root = SenhaDoArquivo
       /\ tabelas /\ svc.hub # "nenhum" /\ svc.inicio = "auto"

\* From the moment the recovery imports until the support releases what it
\* brought, no process of the hub has passed its guard (Assert-HubRecoveryStopped,
\* the marker and the disabled service).
ImportaSozinha ==
  No("importar") \/ restaurado => hubProc \notin {"passou", "opera"}

\* The scripts leave a machine whose secrets agree, and never let the hub work on
\* the data that a recovery is bringing.
InstalacaoSegura == InstalacaoCoerente /\ ImportaSozinha

=============================================================================
