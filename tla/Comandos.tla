------------------------------ MODULE Comandos ------------------------------
(***************************************************************************)
(* The cycle of the worker (runtime/sync_worker.py): heartbeat, the        *)
(* synchronisation command and the administrative command it brings        *)
(* (integracao/services/sincronizacao.py, comandos_administrativos.py),    *)
(* the outbox, the results to send again.  A request to the Central may    *)
(* fail at every step, done or not at the Central, with a RetaguardaError  *)
(* or with any other exception, and the hub may stop at every step.        *)
(***************************************************************************)
EXTENDS Naturals, FiniteSets

CONSTANTS
  CmdSync,   \* synchronisation commands of the Central
  CmdAdmin,  \* its administrative commands
  NadaCmd,   \* no command
  MaxEtapa,  \* number of stages of a synchronisation (ETAPAS)
  MaxQuedaCmd, \* bound of the model: stops of the hub
  MaxRecusa  \* bound of the model: revocations of the credential

ASSUME ConstantesComandos ==
  /\ NadaCmd \notin CmdSync \cup CmdAdmin
  /\ CmdSync \cap CmdAdmin = {}
  /\ MaxEtapa \in Nat \ {0} /\ MaxQuedaCmd \in Nat /\ MaxRecusa \in Nat

VARIABLES
  pcW,       \* where the worker is in its cycle
  cmd,       \* the commands that the heartbeat brought
  linhaCmd,  \* SincronizacaoRecebidaHub, ComandoAdministrativoRecebidoHub: status
  etapa,     \* stage of the synchronisation being executed
  aplicadas, \* of each synchronisation: stages applied since it was last taken up
  naCentral, \* status of each command at the Central
  credencial, \* hub.retaguarda_token
  quedas, recusas \* stops and revocations so far

varsComandos == <<pcW, cmd, linhaCmd, etapa, aplicadas, naCentral, credencial, quedas, recusas>>

Cmd == CmdSync \cup CmdAdmin
StatusCmd == {"NENHUM", "PENDENTE", "PROCESSANDO", "CONCLUIDO", "ERRO"}
Terminado == {"CONCLUIDO", "ERRO"}

TypeOKComandos ==
  /\ pcW \in {"pausa", "sync", "etapa", "concluir", "informar", "reinformar", "admin",
              "executar", "informarAdmin", "fila", "reenviar"}
  /\ cmd \in [sync : CmdSync \cup {NadaCmd}, admin : CmdAdmin \cup {NadaCmd}]
  /\ linhaCmd \in [Cmd -> StatusCmd]
  /\ etapa \in 1..MaxEtapa
  /\ aplicadas \in [CmdSync -> SUBSET (1..MaxEtapa)]
  /\ naCentral \in [Cmd -> StatusCmd \ {"NENHUM"}]
  /\ credencial \in BOOLEAN
  /\ quedas \in 0..MaxQuedaCmd /\ recusas \in 0..MaxRecusa

SemCmd == [sync |-> NadaCmd, admin |-> NadaCmd]

InitComandos ==
  /\ pcW = "pausa" /\ cmd = SemCmd
  /\ linhaCmd = [c \in Cmd |-> "NENHUM"]
  /\ etapa = 1 /\ aplicadas = [c \in CmdSync |-> {}]
  /\ naCentral = [c \in Cmd |-> "PENDENTE"]
  /\ credencial = TRUE
  /\ quedas = 0 /\ recusas = 0

-----------------------------------------------------------------------------
(* Heartbeat *)

Pendentes(S) == {c \in S : naCentral[c] \notin Terminado}

\* the Central brings a command until it knows how it ended
HeartbeatCmd(s, a) ==
  /\ pcW = "pausa" /\ credencial
  /\ IF Pendentes(CmdSync) = {} THEN s = NadaCmd ELSE s \in Pendentes(CmdSync)
  /\ IF Pendentes(CmdAdmin) = {} THEN a = NadaCmd ELSE a \in Pendentes(CmdAdmin)
  /\ cmd' = [sync |-> s, admin |-> a]
  /\ pcW' = "sync"
  /\ UNCHANGED <<linhaCmd, etapa, aplicadas, naCentral, credencial, quedas, recusas>>

\* marcar_credencial_hub_revogada; the hub works again once it is activated
Revogar ==
  /\ pcW = "pausa" /\ credencial /\ recusas < MaxRecusa
  /\ credencial' = FALSE
  /\ recusas' = recusas + 1
  /\ UNCHANGED <<pcW, cmd, linhaCmd, etapa, aplicadas, naCentral, quedas>>

Ativar ==
  /\ ~credencial
  /\ credencial' = TRUE
  /\ UNCHANGED <<pcW, cmd, linhaCmd, etapa, aplicadas, naCentral, quedas, recusas>>

\* an exception of the cycle: everything after it waits for the next one
Abortar ==
  /\ pcW' = "pausa"
  /\ cmd' = SemCmd

-----------------------------------------------------------------------------
(* executar_sincronizacao_comando *)

SemSync ==
  /\ pcW = "sync" /\ cmd.sync = NadaCmd
  /\ pcW' = "admin"
  /\ UNCHANGED <<cmd, linhaCmd, etapa, aplicadas, naCentral, credencial, quedas, recusas>>

\* get_or_create, and _marcar_processando: a command found in PROCESSANDO, left
\* by a stop of the hub, starts again at the first stage
\* mutant: at the one after etapa_atual, which was saved before it was applied
MutEtapaSeguinte(c) == IF linhaCmd[c] = "PROCESSANDO" /\ etapa < MaxEtapa THEN etapa + 1 ELSE 1
PrimeiraEtapa(c) == 1

TomarSync ==
  /\ pcW = "sync" /\ cmd.sync # NadaCmd
  /\ linhaCmd[cmd.sync] \notin Terminado
  /\ linhaCmd' = [linhaCmd EXCEPT ![cmd.sync] = "PROCESSANDO"]
  /\ etapa' = PrimeiraEtapa(cmd.sync)
  /\ aplicadas' = [aplicadas EXCEPT ![cmd.sync] = {}]
  /\ pcW' = "etapa"
  /\ UNCHANGED <<cmd, naCentral, credencial, quedas, recusas>>

\* a status told reaches the Central or not; what the hub learns is another matter
Contado(c, s) ==
  \/ naCentral' = [naCentral EXCEPT ![c] = s]
  \/ UNCHANGED naCentral

\* one stage: told to the Central, asked for, applied; a failure of any of the
\* three ends the command in ERRO
AplicarEtapa ==
  /\ pcW = "etapa"
  /\ naCentral' = [naCentral EXCEPT ![cmd.sync] = "PROCESSANDO"]
  /\ aplicadas' = [aplicadas EXCEPT ![cmd.sync] = @ \cup {etapa}]
  /\ IF etapa < MaxEtapa THEN etapa' = etapa + 1 /\ UNCHANGED pcW
     ELSE pcW' = "concluir" /\ UNCHANGED etapa
  /\ UNCHANGED <<cmd, linhaCmd, credencial, quedas, recusas>>

FalharEtapa ==
  /\ pcW \in {"etapa", "concluir"}
  /\ Contado(cmd.sync, "PROCESSANDO")
  /\ linhaCmd' = [linhaCmd EXCEPT ![cmd.sync] = "ERRO"]
  /\ pcW' = "informar"
  /\ UNCHANGED <<cmd, etapa, aplicadas, credencial, quedas, recusas>>

\* the ranges of numbers, then _marcar_concluida
ConcluirSync ==
  /\ pcW = "concluir"
  /\ linhaCmd' = [linhaCmd EXCEPT ![cmd.sync] = "CONCLUIDO"]
  /\ pcW' = "informar"
  /\ UNCHANGED <<cmd, etapa, aplicadas, naCentral, credencial, quedas, recusas>>

\* a command that had ended is told again
RetomarSync ==
  /\ pcW = "sync" /\ cmd.sync # NadaCmd
  /\ linhaCmd[cmd.sync] \in Terminado
  /\ pcW' = "reinformar"
  /\ UNCHANGED <<cmd, linhaCmd, etapa, aplicadas, naCentral, credencial, quedas, recusas>>

\* what is told of a command
\* mutant: the status in memory
MutInformeMemoria(c) == "PROCESSANDO"
Informe(c) == linhaCmd[c]

InformarSync ==
  /\ pcW \in {"informar", "reinformar"}
  /\ naCentral' = [naCentral EXCEPT ![cmd.sync] = Informe(cmd.sync)]
  /\ pcW' = "admin"
  /\ UNCHANGED <<cmd, linhaCmd, etapa, aplicadas, credencial, quedas, recusas>>

\* a RetaguardaError, the Central told or not: swallowed, except when an old
\* ERRO is told again
FalharInforme ==
  /\ pcW \in {"informar", "reinformar"}
  /\ Contado(cmd.sync, Informe(cmd.sync))
  /\ IF pcW = "reinformar" /\ linhaCmd[cmd.sync] = "ERRO" THEN Abortar
     ELSE pcW' = "admin" /\ UNCHANGED cmd
  /\ UNCHANGED <<linhaCmd, etapa, aplicadas, credencial, quedas, recusas>>

\* any other exception of the request (a connection reset, an answer that is not
\* UTF-8): a conclusion told for the first time becomes an error, which is told
\* next, although the Central may have taken it; elsewhere the cycle ends
EstourarInforme ==
  /\ pcW \in {"informar", "reinformar"}
  /\ Contado(cmd.sync, Informe(cmd.sync))
  /\ IF pcW = "informar" /\ linhaCmd[cmd.sync] = "CONCLUIDO"
     THEN linhaCmd' = [linhaCmd EXCEPT ![cmd.sync] = "ERRO"] /\ UNCHANGED <<pcW, cmd>>
     ELSE Abortar /\ UNCHANGED linhaCmd
  /\ UNCHANGED <<etapa, aplicadas, credencial, quedas, recusas>>

-----------------------------------------------------------------------------
(* executar_comando_administrativo *)

\* mutant: without an administrative command the cycle ends there
MutSemAdmin ==
  /\ pcW = "admin" /\ cmd.admin = NadaCmd
  /\ Abortar
  /\ UNCHANGED <<linhaCmd, etapa, aplicadas, naCentral, credencial, quedas, recusas>>
SemAdmin ==
  /\ pcW = "admin" /\ cmd.admin = NadaCmd
  /\ pcW' = "fila"
  /\ UNCHANGED <<cmd, linhaCmd, etapa, aplicadas, naCentral, credencial, quedas, recusas>>

TomarAdmin ==
  /\ pcW = "admin" /\ cmd.admin # NadaCmd
  /\ linhaCmd[cmd.admin] \notin Terminado
  /\ linhaCmd' = [linhaCmd EXCEPT ![cmd.admin] = "PROCESSANDO"]
  /\ pcW' = "executar"
  /\ UNCHANGED <<cmd, etapa, aplicadas, naCentral, credencial, quedas, recusas>>

ExecutarAdmin ==
  /\ pcW = "executar"
  /\ \E s \in Terminado : linhaCmd' = [linhaCmd EXCEPT ![cmd.admin] = s]
  /\ pcW' = "informarAdmin"
  /\ UNCHANGED <<cmd, etapa, aplicadas, naCentral, credencial, quedas, recusas>>

\* the object in memory still says PROCESSANDO: that is what the Central is
\* told; only a RetaguardaError is swallowed
InformarAdmin ==
  /\ pcW = "informarAdmin"
  /\ Contado(cmd.admin, "PROCESSANDO")
  /\ \/ pcW' = "fila" /\ UNCHANGED cmd
     \/ Abortar
  /\ UNCHANGED <<linhaCmd, etapa, aplicadas, credencial, quedas, recusas>>

\* a command that had ended is told again; here any failure ends the cycle
RetomarAdmin ==
  /\ pcW = "admin" /\ cmd.admin # NadaCmd
  /\ linhaCmd[cmd.admin] \in Terminado
  /\ naCentral' = [naCentral EXCEPT ![cmd.admin] = Informe(cmd.admin)]
  /\ pcW' = "fila"
  /\ UNCHANGED <<cmd, linhaCmd, etapa, aplicadas, credencial, quedas, recusas>>

FalharRetomada ==
  /\ pcW = "admin" /\ cmd.admin # NadaCmd
  /\ linhaCmd[cmd.admin] \in Terminado
  /\ Contado(cmd.admin, Informe(cmd.admin))
  /\ Abortar
  /\ UNCHANGED <<linhaCmd, etapa, aplicadas, credencial, quedas, recusas>>

-----------------------------------------------------------------------------
(* The rest of the cycle: errors are caught *)

ServirFila ==
  /\ pcW = "fila"
  /\ pcW' = "reenviar"
  /\ UNCHANGED <<cmd, linhaCmd, etapa, aplicadas, naCentral, credencial, quedas, recusas>>

\* reenviar_resultados_pendentes: the five oldest that ended, told or not; the
\* first failure stops it
ReenviarResultados ==
  /\ pcW = "reenviar"
  /\ \E S \in SUBSET {c \in CmdAdmin : linhaCmd[c] \in Terminado} :
       /\ Cardinality(S) <= 5
       /\ naCentral' = [c \in Cmd |-> IF c \in S THEN Informe(c) ELSE naCentral[c]]
  /\ Abortar
  /\ UNCHANGED <<linhaCmd, etapa, aplicadas, credencial, quedas, recusas>>

CairCmd ==
  /\ pcW # "pausa" /\ quedas < MaxQuedaCmd
  /\ quedas' = quedas + 1
  /\ Abortar
  /\ UNCHANGED <<linhaCmd, etapa, aplicadas, naCentral, credencial, recusas>>

-----------------------------------------------------------------------------
Trabalhar ==
  \/ SemSync \/ TomarSync \/ AplicarEtapa \/ FalharEtapa \/ ConcluirSync \/ RetomarSync
  \/ InformarSync \/ FalharInforme \/ EstourarInforme
  \/ SemAdmin \/ TomarAdmin \/ ExecutarAdmin \/ InformarAdmin \/ RetomarAdmin \/ FalharRetomada
  \/ ServirFila \/ ReenviarResultados

NextComandos ==
  \/ \E s \in CmdSync \cup {NadaCmd}, a \in CmdAdmin \cup {NadaCmd} : HeartbeatCmd(s, a)
  \/ Revogar \/ Ativar \/ Trabalhar \/ CairCmd

\* The worker's loop never ends, a hub is activated again, and the Central
\* brings every command it holds and hears of it again and again: requests
\* fail often, never always.
JustoComandos ==
  /\ WF_varsComandos(Trabalhar) /\ WF_varsComandos(Ativar)
  /\ \A c \in CmdSync : /\ SF_varsComandos(\E a \in CmdAdmin \cup {NadaCmd} : HeartbeatCmd(c, a))
                        /\ SF_varsComandos(InformarSync /\ cmd.sync = c)
  /\ \A c \in CmdAdmin : /\ SF_varsComandos(\E s \in CmdSync \cup {NadaCmd} : HeartbeatCmd(s, c))
                         /\ SF_varsComandos(RetomarAdmin /\ cmd.admin = c)
  /\ WF_varsComandos(\E s \in CmdSync \cup {NadaCmd}, a \in CmdAdmin \cup {NadaCmd} : HeartbeatCmd(s, a))
SpecComandos == InitComandos /\ [][NextComandos]_varsComandos

-----------------------------------------------------------------------------
(* Properties *)

\* What the Central believes of a command that ended can be relied on: a
\* synchronisation it holds as concluded had every stage applied in one pass since
\* it was last taken up, although the hub stopped in an earlier one, and one it
\* holds as failed is in error at the hub; of an administrative command it holds
\* what the hub did.  A conclusion may be in error at the hub only, when telling
\* it failed unexpectedly (executar_sincronizacao_comando, _informar_resultado).
CentralSabe ==
  /\ \A c \in CmdSync :
       /\ naCentral[c] = "CONCLUIDO" => /\ linhaCmd[c] \in Terminado
                                       /\ aplicadas[c] = 1..MaxEtapa
       /\ naCentral[c] = "ERRO" => linhaCmd[c] = "ERRO"
  /\ \A c \in CmdAdmin : naCentral[c] \in Terminado => naCentral[c] = linhaCmd[c]

\* The Central hears of the end of every command, whatever fails on the way.
ResultadoChega == JustoComandos => \A c \in Cmd : <>[](naCentral[c] \in Terminado)

\* The outbox is served again and again: an error told late, which ends the
\* cycle before it, does not keep it waiting for ever (executar_ciclo).
FilaAtendida == JustoComandos => []<>(pcW = "fila")
============================================================================
