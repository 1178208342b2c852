-------------------------- MODULE Progresso_proofs --------------------------
(***************************************************************************)
(* Proofs about the safety of the components that must make progress: the  *)
(* cycle of the worker (Comandos), the sending of the backups              *)
(* (Transmissao), the assisted recovery (Recuperacao) and the stop of the  *)
(* service (Servico), for any commands, stages, files, parts, segments and *)
(* processes, and any number of faults.  Each has its own invariant.       *)
(***************************************************************************)
EXTENDS Comandos, Transmissao, Recuperacao, Servico, SequenceTheorems, TLAPS

-----------------------------------------------------------------------------
(* The invariant of the commands *)

\* the command that the cycle is at, of each kind
ComSync == pcW \in {"etapa", "concluir", "informar", "reinformar"} => cmd.sync \in CmdSync
ComAdmin == pcW \in {"executar", "informarAdmin"} => cmd.admin \in CmdAdmin

\* a command being executed is in PROCESSANDO, one that is told of has ended;
\* the Central does not know of the end of the one that it brought
EmCurso ==
  /\ pcW = "sync" /\ cmd.sync # NadaCmd => naCentral[cmd.sync] \notin Terminado
  /\ pcW \in {"etapa", "concluir"} => linhaCmd[cmd.sync] = "PROCESSANDO"
  /\ pcW \in {"informar", "reinformar"} => linhaCmd[cmd.sync] \in Terminado
  /\ pcW = "reinformar" => naCentral[cmd.sync] \notin Terminado
  /\ pcW = "executar" => linhaCmd[cmd.admin] = "PROCESSANDO"
  /\ pcW = "informarAdmin" => naCentral[cmd.admin] \notin Terminado

\* the stages applied are the ones before the current one, in the end all
Etapas ==
  /\ pcW = "etapa" => aplicadas[cmd.sync] = 1..(etapa - 1)
  /\ pcW = "concluir" => aplicadas[cmd.sync] = 1..MaxEtapa

\* a synchronisation concluded at the hub had all its stages applied
CargaCompleta ==
  \A c \in CmdSync : linhaCmd[c] = "CONCLUIDO" => aplicadas[c] = 1..MaxEtapa

InvComandos ==
  TypeOKComandos /\ ComSync /\ ComAdmin /\ EmCurso /\ Etapas /\ CentralSabe /\ CargaCompleta

LEMMA IniciaComandos == InitComandos => InvComandos
BY ConstantesComandos
   DEF InitComandos, InvComandos, TypeOKComandos, ComSync, ComAdmin, EmCurso, Etapas,
       CentralSabe, CargaCompleta, SemCmd, Cmd, StatusCmd, Terminado

\* one step, action by action
LEMMA PassoComandos == InvComandos /\ [NextComandos]_varsComandos => InvComandos'
<1> SUFFICES ASSUME InvComandos, [NextComandos]_varsComandos PROVE InvComandos'
  OBVIOUS
<1> USE ConstantesComandos
    DEF InvComandos, TypeOKComandos, ComSync, ComAdmin, EmCurso, Etapas, CentralSabe,
        CargaCompleta, Cmd, StatusCmd, Terminado
<1>1. ASSUME NEW s \in CmdSync \cup {NadaCmd}, NEW a \in CmdAdmin \cup {NadaCmd}, HeartbeatCmd(s, a)
      PROVE  InvComandos'
  BY <1>1 DEF HeartbeatCmd, Pendentes
<1>2. CASE Revogar
  <2>a. recusas' \in 0..MaxRecusa
    BY <1>2 DEF Revogar
  <2>1. TypeOKComandos'
    BY <1>2, <2>a, Zenon DEF Revogar
  <2> QED
    BY <1>2, <2>1 DEF Revogar
<1>3. CASE Ativar
  BY <1>3 DEF Ativar
<1>4. CASE CairCmd
  BY <1>4 DEF CairCmd, Abortar, SemCmd
<1>5. CASE SemSync \/ SemAdmin \/ RetomarSync \/ ServirFila
  BY <1>5 DEF SemSync, SemAdmin, RetomarSync, ServirFila
<1>6. CASE TomarSync
  BY <1>6 DEF TomarSync, PrimeiraEtapa
<1>7. CASE AplicarEtapa
  BY <1>7 DEF AplicarEtapa
<1>8. CASE FalharEtapa \/ ConcluirSync
  BY <1>8 DEF FalharEtapa, ConcluirSync, Contado
<1>9. CASE InformarSync
  BY <1>9 DEF InformarSync, Informe
<1>10. CASE FalharInforme
  BY <1>10 DEF FalharInforme, Contado, Informe, Abortar, SemCmd
<1>11. CASE EstourarInforme
  BY <1>11 DEF EstourarInforme, Contado, Informe, Abortar, SemCmd
<1>12. CASE TomarAdmin
  BY <1>12 DEF TomarAdmin
<1>13. CASE ExecutarAdmin
  BY <1>13 DEF ExecutarAdmin
<1>14. CASE InformarAdmin
  BY <1>14 DEF InformarAdmin, Contado, Abortar, SemCmd
<1>15. CASE RetomarAdmin
  BY <1>15 DEF RetomarAdmin, Informe
<1>16. CASE FalharRetomada
  BY <1>16 DEF FalharRetomada, Contado, Informe, Abortar, SemCmd
<1>17. CASE ReenviarResultados
  BY <1>17 DEF ReenviarResultados, Abortar, SemCmd, Informe
<1>18. CASE UNCHANGED varsComandos
  BY <1>18 DEF varsComandos
<1> QED
  BY <1>1, <1>2, <1>3, <1>4, <1>5, <1>6, <1>7, <1>8, <1>9, <1>10, <1>11, <1>12, <1>13, <1>14,
     <1>15, <1>16, <1>17, <1>18 DEF NextComandos, Trabalhar

\* In every reachable state the cycle of the worker has the types of its
\* variables and its invariant (executar_ciclo and what it calls).
THEOREM InvarianteComandos == SpecComandos => []InvComandos
<1> QED
  BY IniciaComandos, PassoComandos, PTL DEF SpecComandos

\* What the Central believes of a command that ended can be relied on, whatever
\* fails, is lost or stops between the row and the telling: concluded only with
\* every stage applied, failed only if the hub says so (_marcar_concluida, _informar).
THEOREM CentralSabeSempre == SpecComandos => []CentralSabe
<1>1. InvComandos => CentralSabe
  BY DEF InvComandos
<1> QED
  BY <1>1, InvarianteComandos, PTL

\* A synchronisation is concluded at the hub only with every stage applied in one
\* pass since it was last taken up (executar_sincronizacao_comando).
THEOREM CargaCompletaSempre == SpecComandos => []CargaCompleta
<1>1. InvComandos => CargaCompleta
  BY DEF InvComandos
<1> QED
  BY <1>1, InvarianteComandos, PTL

\* the one way in which the end of command c may change in this step: a conclusion told for the first time becomes an error
MudaFim(c, de, para) ==
  c \in CmdSync /\ pcW = "informar" /\ cmd.sync = c /\ de = "CONCLUIDO" /\ para = "ERRO"

FimFica ==
  \A c \in Cmd :
    /\ linhaCmd[c] \in Terminado /\ linhaCmd'[c] # linhaCmd[c]
         => MudaFim(c, linhaCmd[c], linhaCmd'[c])
    /\ naCentral[c] \in Terminado /\ naCentral'[c] # naCentral[c]
         => MudaFim(c, naCentral[c], naCentral'[c])

LEMMA PassoFimFica == InvComandos /\ [NextComandos]_varsComandos => FimFica
<1> SUFFICES ASSUME InvComandos, [NextComandos]_varsComandos PROVE FimFica
  OBVIOUS
<1> USE ConstantesComandos
    DEF InvComandos, TypeOKComandos, ComSync, ComAdmin, EmCurso, CentralSabe, FimFica, MudaFim,
        Cmd, Terminado
<1>1. CASE SemSync \/ RetomarSync \/ SemAdmin \/ ServirFila
           \/ Revogar \/ Ativar \/ CairCmd \/ UNCHANGED varsComandos
  BY <1>1 DEF SemSync, RetomarSync, SemAdmin, ServirFila, Revogar, Ativar, CairCmd, varsComandos
<1>2. ASSUME NEW s \in CmdSync \cup {NadaCmd}, NEW a \in CmdAdmin \cup {NadaCmd}, HeartbeatCmd(s, a)
      PROVE  FimFica
  BY <1>2 DEF HeartbeatCmd
<1>3. CASE TomarSync \/ TomarAdmin
  BY <1>3 DEF TomarSync, TomarAdmin
<1>4. CASE AplicarEtapa
  BY <1>4 DEF AplicarEtapa
<1>5. CASE FalharEtapa \/ ConcluirSync \/ ExecutarAdmin
  BY <1>5 DEF FalharEtapa, ConcluirSync, ExecutarAdmin, Contado
<1>6. CASE InformarSync \/ InformarAdmin \/ RetomarAdmin \/ FalharRetomada
  BY <1>6 DEF InformarSync, InformarAdmin, RetomarAdmin, FalharRetomada, Contado, Informe
<1>7. CASE FalharInforme \/ EstourarInforme
  BY <1>7 DEF FalharInforme, EstourarInforme, Contado, Informe
<1>8. CASE ReenviarResultados
  BY <1>8 DEF ReenviarResultados, Informe
<1> QED
  BY <1>1, <1>2, <1>3, <1>4, <1>5, <1>6, <1>7, <1>8 DEF NextComandos, Trabalhar

\* A command that ended is not executed again, and its end is not taken back, at
\* the hub or at the Central: not when the command is brought again, nor when an
\* old result, or the PROCESSANDO left in memory, is told late.  The one change is
\* that of a synchronisation whose conclusion is being told for the first time,
\* which may turn into an error (executar_sincronizacao_comando,
\* executar_comando_administrativo, reenviar_resultados_pendentes).
THEOREM FimDefinitivo == SpecComandos => [][FimFica]_varsComandos
<1> QED
  BY PassoFimFica, InvarianteComandos, PTL DEF SpecComandos

-----------------------------------------------------------------------------
(* The invariant of the stop of the service *)

NaoIniciou == {"fora", "preparar", "publicar"}
NoFinally == {"tomar", "fechar", "juntar", "avisar"}

\* the signals: set by the stop, cleared only before the runtime exists
Sinais ==
  /\ controle = "inicio" => runtime = "fora"
  /\ runtime \in NaoIniciou => worker = "fora"
  /\ controle \in {"tomar", "fechar", "juntar", "juntarRuntime", "fim"} => sinal["parada"] /\ sinal["worker"]
  /\ runtime \in NoFinally => sinal["worker"]
  /\ runtime = "falha" => worker \in {"fora", "fim"} \/ sinal["worker"]
  /\ erroSv => runtime = "falha"
  /\ controle = "falha" => erroSv
  /\ controle = "saiu" => worker = "fim" /\ escuta = "fechada" /\ runtime \in {"fim", "falha"}

\* what was published is there until one caller of stop takes it
Referencias ==
  /\ ref.servidor => runtime \in {"servir", "pedir", "tomar"}
  /\ controle \in {"fechar", "juntar", "juntarRuntime", "fim"} => ref = Nenhum
  /\ \A q \in Quem : levou[q].servidor => ~ref.servidor /\ runtime \notin NaoIniciou
  /\ ~ (levou["controle"].servidor /\ levou["runtime"].servidor)

\* who must still close a server that listens
Escuta ==
  escuta = "aberta" =>
    \/ runtime = "publicar" \/ ref.servidor
    \/ levou["controle"].servidor /\ controle = "fechar"
    \/ levou["runtime"].servidor /\ runtime = "fechar"

InvServico == TypeOKServico /\ Sinais /\ Referencias /\ Escuta

LEMMA IniciaServico == InitServico => InvServico
<1> SUFFICES ASSUME InitServico PROVE InvServico
  OBVIOUS
<1> USE DEF InitServico, Quem, Par, Nenhum
<1>1. sinal \in [{"parada", "worker", "parado"} -> BOOLEAN]
  BY Zenon
<1>2. Nenhum \in Par
  OBVIOUS
<1>3. levou \in [Quem -> Par] /\ ref \in Par
  BY <1>2, Zenon
<1>4. TypeOKServico
  BY <1>1, <1>3, Zenon DEF TypeOKServico, PassoStop
<1>5. Sinais
  BY DEF Sinais, NoFinally
<1>6. Referencias /\ Escuta
  BY DEF Referencias, Escuta
<1> QED
  BY <1>4, <1>5, <1>6 DEF InvServico

LEMMA PassoServico == InvServico /\ [NextServico]_varsServico => InvServico'
<1> SUFFICES ASSUME InvServico, [NextServico]_varsServico PROVE InvServico'
  OBVIOUS
<1> USE DEF InvServico, TypeOKServico, Sinais, Referencias, Escuta, Quem, Par, Nenhum,
            PassoStop, NaoIniciou, NoFinally
<1>1. CASE SvcStop
  BY <1>1 DEF SvcStop
<1>2. CASE IniciarRuntime
  BY <1>2 DEF IniciarRuntime
<1>3. CASE EsperarInicio \/ Vigiar \/ JuntarRuntime
  BY <1>3 DEF EsperarInicio, Vigiar, JuntarRuntime
<1>4. CASE Sair
  BY <1>4 DEF Sair
<1>5. ASSUME NEW q \in Quem, PedirParada(q) PROVE InvServico'
  <2> USE <1>5 DEF PedirParada, Anda
  <2>1. /\ sinal' \in [{"parada", "worker", "parado"} -> BOOLEAN]
        /\ sinal'["parada"] /\ sinal'["worker"]
    OBVIOUS
  <2>a. controle' \in PassoStop \cup {"inicio", "espera", "laco", "juntarRuntime", "fim", "falha", "saiu"}
    OBVIOUS
  <2>b. runtime' \in PassoStop \cup {"fora", "preparar", "publicar", "servir", "avisar", "fim", "falha"}
    OBVIOUS
  <2>2. TypeOKServico'
    BY <2>1, <2>a, <2>b, Zenon
  <2>3. Sinais'
    BY <2>1
  <2>4. Referencias' /\ Escuta'
    OBVIOUS
  <2> QED
    BY <2>2, <2>3, <2>4
<1>6. ASSUME NEW q \in Quem, Tomar(q) PROVE InvServico'
  BY <1>6 DEF Tomar, Resta, Anda
<1>7. ASSUME NEW q \in Quem, Fechar(q) PROVE InvServico'
  BY <1>7 DEF Fechar, Anda
<1>8. ASSUME NEW q \in Quem, Juntar(q) PROVE InvServico'
  BY <1>8 DEF Juntar, Anda
<1>9. CASE FalharInicio
  BY <1>9 DEF FalharInicio
<1>10. CASE CriarServidor
  BY <1>10 DEF CriarServidor
<1>11. CASE Publicar
  <2> USE <1>11 DEF Publicar, JaPediram
  <2>1. CASE sinal["parada"]
    <3>1. TypeOKServico'
      BY <2>1
    <3>2. Sinais'
      BY <2>1
    <3>3. Referencias' /\ Escuta'
      BY <2>1
    <3> QED
      BY <3>1, <3>2, <3>3
  <2>2. CASE ~sinal["parada"]
    <3>0. [servidor |-> TRUE, worker |-> TRUE] \in Par
      BY Zenon
    <3>1. TypeOKServico'
      BY <2>2, <3>0, Zenon
    <3>2. Sinais'
      BY <2>2
    <3>3. Referencias' /\ Escuta'
      BY <2>2
    <3> QED
      BY <3>1, <3>2, <3>3
  <2> QED
    BY <2>1, <2>2
<1>12. CASE Servir
  BY <1>12 DEF Servir
<1>13. CASE FalharServidor
  <2> USE <1>13 DEF FalharServidor
  <2>1. TypeOKServico'
    BY Zenon
  <2>2. Sinais'
    OBVIOUS
  <2>3. Referencias' /\ Escuta'
    OBVIOUS
  <2> QED
    BY <2>1, <2>2, <2>3
<1>14. CASE Avisar
  <2> USE <1>14 DEF Avisar
  <2>1. runtime = "avisar" /\ runtime' \in {"avisar", "fim", "falha"} /\ (erroSv' => runtime' = "falha")
    OBVIOUS
  <2>2. sinal' \in [{"parada", "worker", "parado"} -> BOOLEAN] /\ sinal'["worker"] = sinal["worker"] /\ sinal'["parada"] = sinal["parada"]
    OBVIOUS
  <2>3. erroSv' \in BOOLEAN /\ (erroSv => erroSv')
    BY Zenon
  <2>4. TypeOKServico'
    BY <2>1, <2>2, <2>3
  <2>5. Sinais'
    BY <2>1, <2>2, <2>3
  <2>6. Referencias' /\ Escuta'
    BY <2>1
  <2> QED
    BY <2>4, <2>5, <2>6
<1>15. CASE Laco \/ Ciclo
  BY <1>15 DEF Laco, Ciclo
<1>16. CASE UNCHANGED varsServico
  BY <1>16 DEF varsServico
<1> QED
  BY <1>1, <1>2, <1>3, <1>4, <1>5, <1>6, <1>7, <1>8, <1>9, <1>10, <1>11, <1>12, <1>13, <1>14, <1>15,
     <1>16 DEF NextServico

\* In every reachable state the threads of the service have the types of their
\* variables and their invariant (windows_service.py).
THEOREM InvarianteServico == SpecServico => []InvServico
<1> QED
  BY IniciaServico, PassoServico, PTL DEF SpecServico

\* Whatever the threads do when the stop is asked for, one caller takes what was
\* published, nothing is published after the control thread took it, and the
\* end leaves neither a worker that may begin a cycle nor an open port
\* (HubWaitressRuntime.stop and run).
THEOREM ParadaInteiraSempre == SpecServico => []ParadaInteira
<1>1. InvServico => ParadaInteira
  BY DEF InvServico, TypeOKServico, Sinais, Referencias, Escuta, ParadaInteira, NaoIniciou,
         NoFinally
<1> QED
  BY <1>1, InvarianteServico, PTL

-----------------------------------------------------------------------------
(* The invariant of the sending *)

Recebido(a) == arquivo[a].status = "RECEBIDO_CENTRAL"

\* the files known as received are the first k, and a cycle is at the next one:
\* it begins at the last of them, which it opens again
Prefixo(k) ==
  /\ \A a \in Arquivo : Recebido(a) <=> a <= k
  /\ envio # Parado => envio.arq \in {k, k + 1}
  /\ envio # Parado /\ envio.passo # "entrada" => envio.arq = k + 1 /\ envio.arq \in Arquivo

\* the upload of a file at the Central
Estado(u) ==
  /\ u.estado = "NENHUM" => u.progresso.tentativa = 0
  /\ u.estado # "NENHUM" => u.progresso.tentativa >= 1
  /\ u.estado = "EXPIRADO" => u.progresso.tentativa <= MaxExpira
  /\ u.estado = "RECEBIDO" => u.progresso.offset = NumParte

\* what the hub saved of a file is not ahead of its upload at the Central
Acordo(l, u) ==
  /\ l.status = "RECEBIDO_CENTRAL" => u.estado = "RECEBIDO"
  /\ l.progresso # SemProgresso =>
       /\ u.estado # "NENHUM"
       /\ l.progresso.tentativa = u.progresso.tentativa
       /\ l.progresso.offset <= u.progresso.offset

\* a cycle that sends parts saved what the Central holds
Sincrono ==
  envio # Parado /\ envio.passo = "partes" =>
    /\ arquivo[envio.arq].progresso = upload[envio.arq].progresso
    /\ upload[envio.arq].estado \in {"ABERTO", "EXPIRADO"}

InvTransmissao ==
  /\ TypeOKTransmissao
  /\ \E k \in 0..NumArquivo : Prefixo(k)
  /\ \A a \in Arquivo : Estado(upload[a]) /\ Acordo(arquivo[a], upload[a])
  /\ Sincrono
  /\ CadeiaSemBuraco
  /\ SuporteSoPorErro

EmEnvio == [passo : {"entrada", "consultar", "partes"}, arq : 1..(NumArquivo + 1), fim : Arquivo,
            gasto : 0..Orcamento]

\* a request is being made for file a
Pedindo(a) == envio # Parado /\ envio.passo # "entrada" /\ envio.arq = a

LEMMA TiposDoEnvio ==
  ASSUME TypeOKTransmissao
  PROVE  /\ envio # Parado => envio \in EmEnvio
         /\ \A a \in Arquivo :
              /\ arquivo[a] \in LinhaArquivo /\ arquivo[a].progresso \in Progresso
              /\ upload[a] \in Upload /\ upload[a].progresso \in Progresso
BY DEF TypeOKTransmissao, Envio, EmEnvio, LinhaArquivo, Upload

LEMMA IniciaTransmissao == InitTransmissao => InvTransmissao
<1> SUFFICES ASSUME InitTransmissao PROVE InvTransmissao
  OBVIOUS
<1> USE ConstantesTransmissao DEF InitTransmissao
<1>1. SemProgresso \in Progresso
  BY DEF SemProgresso, Progresso
<1>a. arquivo \in [Arquivo -> LinhaArquivo] /\ upload \in [Arquivo -> Upload]
  BY <1>1 DEF LinhaArquivo, Upload
<1>b. gerado \in Arquivo /\ falhas \in 0..MaxFalhaTr /\ envio \in Envio
  BY DEF Arquivo, Envio
<1>2. TypeOKTransmissao
  BY <1>a, <1>b, Zenon DEF TypeOKTransmissao
<1>3. Prefixo(0)
  BY DEF Prefixo, Recebido, Arquivo
<1>4. \A a \in Arquivo : Estado(upload[a]) /\ Acordo(arquivo[a], upload[a])
  BY DEF Estado, Acordo, SemProgresso
<1>5. Sincrono /\ CadeiaSemBuraco /\ SuporteSoPorErro
  BY DEF Sincrono, CadeiaSemBuraco, SuporteSoPorErro
<1> QED
  BY <1>2, <1>3, <1>4, <1>5 DEF InvTransmissao

\* what a request may do to the upload of its file
Subiu(a) ==
  /\ upload' \in [Arquivo -> Upload]
  /\ \A x \in Arquivo \ {a} : upload'[x] = upload[x]
  /\ Estado(upload'[a])
  /\ upload[a].estado = "RECEBIDO" => upload'[a] = upload[a]
  /\ arquivo[a].progresso # SemProgresso =>
       /\ upload'[a].estado # "NENHUM"
       /\ upload'[a].progresso.tentativa = upload[a].progresso.tentativa
       /\ upload'[a].progresso.offset >= upload[a].progresso.offset

\* the chain stays whole, and nothing saved is ahead of the Central
LEMMA SubiuBem ==
  ASSUME InvTransmissao, NEW a \in Arquivo, Pedindo(a), Subiu(a)
  PROVE  /\ \A x \in Arquivo : Estado(upload'[x]) /\ Acordo(arquivo[x], upload'[x])
         /\ CadeiaSemBuraco'
<1>1. \A x \in Arquivo : Estado(upload'[x])
  BY DEF InvTransmissao, Subiu
<1>2. \A x \in Arquivo : Acordo(arquivo[x], upload'[x])
  <2>1. \A x \in Arquivo : upload[x].progresso \in Progresso /\ arquivo[x].progresso \in Progresso
    BY TiposDoEnvio DEF InvTransmissao
  <2>2. upload'[a].progresso \in Progresso
    BY DEF Subiu, Upload
  <2>3. Acordo(arquivo[a], upload[a])
    BY DEF InvTransmissao
  <2>4. Acordo(arquivo[a], upload'[a])
    BY <2>1, <2>2, <2>3 DEF Subiu, Acordo, Progresso
  <2> QED
    BY <2>4 DEF InvTransmissao, Subiu
<1>3. \A x \in Arquivo : x < a => upload[x].estado = "RECEBIDO"
  <2>1. PICK k \in 0..NumArquivo : Prefixo(k)
    BY DEF InvTransmissao
  <2>2. a = k + 1
    BY <2>1 DEF Prefixo, Pedindo
  <2> QED
    BY <2>1, <2>2 DEF Prefixo, Recebido, InvTransmissao, Acordo, Arquivo
<1>4. CadeiaSemBuraco'
  BY <1>3 DEF CadeiaSemBuraco, InvTransmissao, Subiu, Arquivo
<1> QED
  BY <1>1, <1>2, <1>4

\* the outcomes of a request

LEMMA PassoAnota ==
  ASSUME InvTransmissao, NEW a \in Arquivo, Pedindo(a), Subiu(a), NEW p, Anota(a, p),
         p = upload'[a].progresso, upload'[a].estado \in {"ABERTO", "EXPIRADO"},
         UNCHANGED <<gerado, falhas, errado>>
  PROVE  InvTransmissao'
<1> USE ConstantesTransmissao
<1>1. p \in Progresso
  BY DEF Subiu, Upload
<1>2. envio \in EmEnvio /\ arquivo[a] \in LinhaArquivo
  BY TiposDoEnvio DEF InvTransmissao, Pedindo
<1>3. envio' \in EmEnvio /\ envio'.passo = "partes" /\ envio'.arq = a
  <2>1. PICK g \in 0..Orcamento : envio' = [envio EXCEPT !.passo = "partes", !.gasto = g]
    <3>1. envio.gasto \in 0..Orcamento
      BY <1>2 DEF EmEnvio
    <3>2. envio' = [envio EXCEPT !.passo = "partes",
                                 !.gasto = IF Esgotado THEN envio.gasto ELSE Gasta]
      BY <1>2 DEF Anota, EmEnvio
    <3>3. (IF Esgotado THEN envio.gasto ELSE Gasta) \in 0..Orcamento
      BY <3>1 DEF Esgotado, Gasta
    <3> QED
      BY <3>2, <3>3
  <2> QED
    BY <1>2, <2>1 DEF EmEnvio, Pedindo
<1>4. arquivo' \in [Arquivo -> LinhaArquivo] /\ \A x \in Arquivo \ {a} : arquivo'[x] = arquivo[x]
  BY <1>1, <1>2 DEF Anota, LinhaArquivo, InvTransmissao, TypeOKTransmissao
<1>5. arquivo'[a].status = arquivo[a].status /\ arquivo'[a].progresso = p
  BY <1>2 DEF Anota, LinhaArquivo, InvTransmissao, TypeOKTransmissao
<1>6. TypeOKTransmissao'
  BY <1>3, <1>4 DEF InvTransmissao, TypeOKTransmissao, Anota, Subiu, Envio, EmEnvio
<1>7. PICK k \in 0..NumArquivo : Prefixo(k)
  BY DEF InvTransmissao
<1>8. envio' # Parado
  BY <1>3 DEF EmEnvio, Parado
<1>9. Prefixo(k)' /\ ~Recebido(a)
  <2>1. a = k + 1
    BY <1>7 DEF Prefixo, Pedindo
  <2>2. \A x \in Arquivo : Recebido(x)' <=> Recebido(x)
    BY <1>4, <1>5 DEF Recebido
  <2> QED
    BY <1>3, <1>7, <2>1, <2>2 DEF Prefixo, Arquivo
<1>10. \A x \in Arquivo : (Estado(upload[x]) /\ Acordo(arquivo[x], upload[x]))'
  <2>1. Acordo(arquivo'[a], upload'[a])
    BY <1>1, <1>5, <1>9 DEF Acordo, Recebido, Progresso
  <2> QED
    BY <1>4, <2>1, SubiuBem
<1>11. Sincrono' /\ CadeiaSemBuraco' /\ SuporteSoPorErro'
  BY <1>3, <1>5, SubiuBem DEF Sincrono, InvTransmissao, SuporteSoPorErro, Anota
<1> QED
  BY <1>6, <1>7, <1>9, <1>10, <1>11 DEF InvTransmissao

LEMMA PassoRecebe ==
  ASSUME InvTransmissao, NEW a \in Arquivo, Pedindo(a), Subiu(a), NEW p, Recebe(a, p),
         p = upload'[a].progresso, upload'[a].estado = "RECEBIDO",
         UNCHANGED <<gerado, falhas, errado>>
  PROVE  InvTransmissao'
<1> USE ConstantesTransmissao
<1>1. p \in Progresso
  BY DEF Subiu, Upload
<1>2. envio \in EmEnvio
  BY TiposDoEnvio DEF InvTransmissao, Pedindo
<1>3. envio' \in EmEnvio /\ envio'.passo = "entrada" /\ envio'.arq = a + 1
  <2>1. PICK g \in 0..Orcamento :
             envio' = [envio EXCEPT !.passo = "entrada", !.arq = a + 1, !.gasto = g]
    <3>1. envio.gasto \in 0..Orcamento
      BY <1>2 DEF EmEnvio
    <3>2. envio' = [envio EXCEPT !.passo = "entrada", !.arq = a + 1,
                                 !.gasto = IF Esgotado THEN envio.gasto ELSE Gasta]
      BY <1>2 DEF Recebe, EmEnvio
    <3>3. (IF Esgotado THEN envio.gasto ELSE Gasta) \in 0..Orcamento
      BY <3>1 DEF Esgotado, Gasta
    <3> QED
      BY <3>2, <3>3
  <2>2. a + 1 \in 1..(NumArquivo + 1)
    BY DEF Arquivo
  <2> QED
    BY <1>2, <2>1, <2>2 DEF EmEnvio, Pedindo
<1>4. arquivo' \in [Arquivo -> LinhaArquivo] /\ \A x \in Arquivo \ {a} : arquivo'[x] = arquivo[x]
  BY <1>1 DEF Recebe, LinhaArquivo, InvTransmissao, TypeOKTransmissao
<1>5. arquivo'[a].status = "RECEBIDO_CENTRAL" /\ arquivo'[a].progresso = p
  BY DEF Recebe, InvTransmissao, TypeOKTransmissao
<1>6. TypeOKTransmissao'
  BY <1>3, <1>4 DEF InvTransmissao, TypeOKTransmissao, Recebe, Subiu, Envio, EmEnvio
<1>7. PICK k \in 0..NumArquivo : Prefixo(k)
  BY DEF InvTransmissao
<1>8. a = k + 1
  BY <1>7 DEF Prefixo, Pedindo
<1>9. Prefixo(a)'
  <2>1. \A x \in Arquivo : Recebido(x)' <=> x <= a
    BY <1>4, <1>5, <1>7, <1>8 DEF Prefixo, Recebido, Arquivo
  <2> QED
    BY <1>3, <2>1 DEF Prefixo
<1>10. \A x \in Arquivo : (Estado(upload[x]) /\ Acordo(arquivo[x], upload[x]))'
  <2>1. Acordo(arquivo'[a], upload'[a])
    BY <1>1, <1>5 DEF Acordo, Progresso
  <2> QED
    BY <1>4, <2>1, SubiuBem
<1>11. Sincrono' /\ CadeiaSemBuraco' /\ SuporteSoPorErro'
  BY <1>3, SubiuBem DEF Sincrono, InvTransmissao, SuporteSoPorErro, Recebe
<1>12. a \in 0..NumArquivo
  BY DEF Arquivo
<1> QED
  BY <1>6, <1>9, <1>10, <1>11, <1>12 DEF InvTransmissao

\* the cycle ends: the state on disk stays, or loses its expired progress
LEMMA PassoPara ==
  ASSUME InvTransmissao, NEW a \in Arquivo, Pedindo(a), Subiu(a), envio' = Parado,
         arquivo' = arquivo \/ arquivo' = [x \in Arquivo |-> SemExpirado(arquivo[x])],
         gerado' = gerado, falhas' \in 0..MaxFalhaTr, errado' \in BOOLEAN,
         suporte' \in BOOLEAN, suporte' => errado'
  PROVE  InvTransmissao'
<1> USE ConstantesTransmissao
<1>1. \A x \in Arquivo :
        /\ arquivo'[x] \in LinhaArquivo /\ arquivo'[x].status = arquivo[x].status
        /\ arquivo'[x].progresso \in {arquivo[x].progresso, SemProgresso}
  <2> SUFFICES ASSUME NEW x \in Arquivo
               PROVE  /\ arquivo'[x] \in LinhaArquivo /\ arquivo'[x].status = arquivo[x].status
                      /\ arquivo'[x].progresso \in {arquivo[x].progresso, SemProgresso}
    OBVIOUS
  <2>1. arquivo[x] \in LinhaArquivo
    BY TiposDoEnvio DEF InvTransmissao
  <2>2. SemProgresso \in Progresso
    BY DEF SemProgresso, Progresso
  <2> QED
    BY <2>1, <2>2 DEF SemExpirado, LinhaArquivo
<1>2. arquivo' \in [Arquivo -> LinhaArquivo]
  BY <1>1 DEF InvTransmissao, TypeOKTransmissao
<1>3. TypeOKTransmissao'
  BY <1>2 DEF InvTransmissao, TypeOKTransmissao, Subiu, Envio
<1>4. PICK k \in 0..NumArquivo : Prefixo(k)
  BY DEF InvTransmissao
<1>5. Prefixo(k)'
  BY <1>1, <1>4 DEF Prefixo, Recebido
<1>6. \A x \in Arquivo : (Estado(upload[x]) /\ Acordo(arquivo[x], upload[x]))'
  BY <1>1, SubiuBem DEF Acordo
<1>7. Sincrono' /\ CadeiaSemBuraco' /\ SuporteSoPorErro'
  BY SubiuBem DEF Sincrono, SuporteSoPorErro
<1> QED
  BY <1>3, <1>4, <1>5, <1>6, <1>7 DEF InvTransmissao

\* what the Central does is what Subiu allows
LEMMA EfeitoSobe ==
  ASSUME InvTransmissao, NEW a \in Arquivo, Pedindo(a),
         upload' = upload \/ upload' = [upload EXCEPT ![a] = Efeito(a, upload[a])]
  PROVE  Subiu(a)
<1> USE ConstantesTransmissao
<1> DEFINE u == upload[a]
<1>1. /\ u \in Upload /\ u.progresso \in Progresso /\ arquivo[a].progresso \in Progresso
      /\ Estado(u) /\ Acordo(arquivo[a], u) /\ upload \in [Arquivo -> Upload]
  BY TiposDoEnvio DEF InvTransmissao, TypeOKTransmissao
<1>2. CASE upload'[a] = u
  <2>1. upload' = upload
    BY <1>1, <1>2
  <2> QED
    BY <1>1, <2>1 DEF Subiu, Acordo, Progresso
<1>3. ASSUME upload'[a] # u, upload' = [upload EXCEPT ![a] = Efeito(a, u)]
      PROVE  Subiu(a)
  <2>1. upload'[a] = Efeito(a, u) /\ Efeito(a, u) # u
    BY <1>1, <1>3
  <2>2. \A x \in Arquivo \ {a} : upload'[x] = upload[x]
    BY <1>1, <1>3
  <2>3. CASE envio.passo = "consultar" /\ arquivo[a].progresso = SemProgresso
    <3>1. Efeito(a, u) = Aberto(u) /\ u.estado \in {"NENHUM", "EXPIRADO"}
      BY <2>1, <2>3 DEF Efeito, Aberto
    <3>2. Aberto(u) = [estado |-> "ABERTO", progresso |-> [tentativa |-> u.progresso.tentativa + 1, offset |-> 0]]
      BY <3>1 DEF Aberto
    <3>3. u.progresso.tentativa + 1 \in 1..(MaxExpira + 1)
      BY <1>1, <3>1 DEF Estado, Progresso
    <3>4. Aberto(u) \in Upload /\ Estado(Aberto(u))
      BY <3>2, <3>3 DEF Upload, Progresso, Estado
    <3> QED
      BY <1>1, <1>3, <2>1, <2>2, <2>3, <3>1, <3>4 DEF Subiu
  <2>4. CASE /\ envio.passo = "partes" /\ u.estado = "ABERTO"
             /\ u.progresso = arquivo[a].progresso /\ u.progresso.offset < NumParte
    <3>1. Efeito(a, u) = [u EXCEPT !.progresso.offset = u.progresso.offset + 1]
      BY <1>1, <2>4 DEF Efeito, Upload
    <3>2. u.progresso.offset + 1 \in 0..NumParte
      BY <1>1, <2>4 DEF Progresso
    <3>3. /\ Efeito(a, u) \in Upload /\ Efeito(a, u).estado = u.estado
          /\ Efeito(a, u).progresso.tentativa = u.progresso.tentativa
          /\ Efeito(a, u).progresso.offset = u.progresso.offset + 1
      BY <1>1, <3>1, <3>2 DEF Upload, Progresso
    <3>4. Estado(Efeito(a, u))
      BY <1>1, <2>4, <3>3 DEF Estado
    <3> QED
      BY <1>1, <1>3, <2>1, <2>2, <2>4, <3>2, <3>3, <3>4 DEF Subiu, Progresso
  <2>5. CASE /\ envio.passo = "partes" /\ u.estado = "ABERTO"
             /\ u.progresso = arquivo[a].progresso /\ ~ (u.progresso.offset < NumParte)
    <3>1. Efeito(a, u) = [u EXCEPT !.estado = "RECEBIDO"] /\ u.progresso.offset = NumParte
      BY <1>1, <2>5 DEF Efeito, Progresso
    <3>2. /\ Efeito(a, u) \in Upload /\ Efeito(a, u).estado = "RECEBIDO"
          /\ Efeito(a, u).progresso = u.progresso
      BY <1>1, <3>1 DEF Upload
    <3>3. Estado(Efeito(a, u))
      BY <1>1, <2>5, <3>1, <3>2 DEF Estado
    <3> QED
      BY <1>1, <1>3, <2>1, <2>2, <2>5, <3>2, <3>3 DEF Subiu, Progresso
  <2> QED
    BY <2>1, <2>3, <2>4, <2>5 DEF Efeito
<1> QED
  BY <1>2, <1>3

\* the requests, one by one

LEMMA PassoConsultar == InvTransmissao /\ Consultar => InvTransmissao'
<1> SUFFICES ASSUME InvTransmissao, Consultar PROVE InvTransmissao'
  OBVIOUS
<1> DEFINE a == envio.arq
<1>1. envio # Parado
  BY DEF Consultar, Parado
<1>2. a \in Arquivo
  BY <1>1 DEF InvTransmissao, Prefixo, Consultar
<1>3. Pedindo(a)
  BY <1>1 DEF Pedindo, Consultar
<1>4. upload' = upload \/ upload' = [upload EXCEPT ![a] = Efeito(a, upload[a])]
  BY DEF Consultar, Efeito
<1>5. Subiu(a)
  BY <1>2, <1>3, <1>4, EfeitoSobe
<1>6. ~Conflita(a) /\ upload'[a] \in Upload
  BY <1>2, <1>3, <1>5, SubiuBem, TiposDoEnvio
     DEF Conflita, Acordo, Subiu, Upload, Progresso, InvTransmissao
<1>7. upload'[a].estado # "NENHUM"
  <2>1. CASE arquivo[a].progresso = SemProgresso
    <3>1. upload'[a] = Aberto(upload[a])
      BY <1>2, <2>1 DEF Consultar, InvTransmissao, TypeOKTransmissao
    <3> QED
      BY <3>1 DEF Aberto
  <2>2. CASE arquivo[a].progresso # SemProgresso
    BY <1>5, <2>2 DEF Subiu
  <2> QED
    BY <2>1, <2>2
<1>8. UNCHANGED <<gerado, falhas, errado>> /\ RespostaConsulta(a)
  BY DEF Consultar
<1>9. CASE upload'[a].estado = "EXPIRADO"
  <2>1. Expirou
    BY <1>8, <1>9 DEF RespostaConsulta
  <2> QED
    BY <1>2, <1>3, <1>5, <1>8, <2>1, PassoPara
       DEF Expirou, InvTransmissao, TypeOKTransmissao, SuporteSoPorErro
<1>10. CASE upload'[a].estado = "RECEBIDO"
  <2>1. Recebe(a, upload'[a].progresso)
    BY <1>6, <1>8, <1>10 DEF RespostaConsulta
  <2> QED
    BY <1>2, <1>3, <1>5, <1>8, <1>10, <2>1, PassoRecebe
<1>11. CASE upload'[a].estado = "ABERTO"
  <2>1. Anota(a, upload'[a].progresso)
    BY <1>6, <1>8, <1>11 DEF RespostaConsulta, Consulta
  <2> QED
    BY <1>2, <1>3, <1>5, <1>8, <1>11, <2>1, PassoAnota
<1> QED
  BY <1>6, <1>7, <1>9, <1>10, <1>11 DEF Upload

LEMMA PassoEnviarParte == InvTransmissao /\ EnviarParte => InvTransmissao'
<1> SUFFICES ASSUME InvTransmissao, EnviarParte PROVE InvTransmissao'
  OBVIOUS
<1> DEFINE a == envio.arq
           u == upload[a]
<1>1. envio # Parado
  BY DEF EnviarParte, Parado
<1>2. a \in Arquivo
  BY <1>1 DEF InvTransmissao, Prefixo, EnviarParte
<1>3. Pedindo(a)
  BY <1>1 DEF Pedindo, EnviarParte
<1>4. /\ arquivo[a].progresso = u.progresso /\ u.estado \in {"ABERTO", "EXPIRADO"}
      /\ u \in Upload /\ u.progresso \in Progresso /\ upload \in [Arquivo -> Upload]
  BY <1>1, <1>2, TiposDoEnvio DEF InvTransmissao, Sincrono, EnviarParte, TypeOKTransmissao
<1>5. UNCHANGED <<gerado, falhas, errado>>
  BY DEF EnviarParte
<1>6. CASE u.estado = "EXPIRADO"
  <2>1. Expirou /\ upload' = upload
    BY <1>6 DEF EnviarParte
  <2>2. Subiu(a)
    BY <1>2, <1>3, <2>1, EfeitoSobe
  <2> QED
    BY <1>2, <1>3, <1>5, <2>1, <2>2, PassoPara
       DEF Expirou, InvTransmissao, TypeOKTransmissao, SuporteSoPorErro
<1>7. CASE u.estado = "ABERTO"
  <2>1. /\ upload' = [upload EXCEPT ![a].progresso.offset = u.progresso.offset + 1]
        /\ Anota(a, [u.progresso EXCEPT !.offset = u.progresso.offset + 1])
    BY <1>4, <1>7 DEF EnviarParte
  <2>2. Efeito(a, u) = [u EXCEPT !.progresso.offset = u.progresso.offset + 1]
    BY <1>4, <1>7 DEF EnviarParte, Efeito, Upload
  <2>3. upload' = [upload EXCEPT ![a] = Efeito(a, u)]
    BY <1>2, <1>4, <2>1, <2>2
  <2>4. Subiu(a)
    BY <1>2, <1>3, <2>3, EfeitoSobe
  <2>5. upload'[a] = Efeito(a, u)
    BY <1>2, <1>4, <2>3
  <2>6. /\ upload'[a].progresso = [u.progresso EXCEPT !.offset = u.progresso.offset + 1]
        /\ upload'[a].estado = "ABERTO"
    BY <1>4, <1>7, <2>2, <2>5 DEF Upload
  <2> QED
    BY <1>2, <1>3, <1>5, <2>1, <2>4, <2>6, PassoAnota
<1> QED
  BY <1>4, <1>6, <1>7

LEMMA PassoFinalizar == InvTransmissao /\ Finalizar => InvTransmissao'
<1> SUFFICES ASSUME InvTransmissao, Finalizar PROVE InvTransmissao'
  OBVIOUS
<1> DEFINE a == envio.arq
           u == upload[a]
<1>1. envio # Parado
  BY DEF Finalizar, Parado
<1>2. a \in Arquivo
  BY <1>1 DEF InvTransmissao, Prefixo, Finalizar
<1>3. Pedindo(a)
  BY <1>1 DEF Pedindo, Finalizar
<1>4. /\ arquivo[a].progresso = u.progresso /\ u.estado \in {"ABERTO", "EXPIRADO"}
      /\ u \in Upload /\ u.progresso \in Progresso /\ upload \in [Arquivo -> Upload]
  BY <1>1, <1>2, TiposDoEnvio DEF InvTransmissao, Sincrono, Finalizar, TypeOKTransmissao
<1>5. UNCHANGED <<gerado, falhas, errado>>
  BY DEF Finalizar
<1>6. CASE u.estado = "EXPIRADO"
  <2>1. Expirou /\ upload' = upload
    BY <1>6 DEF Finalizar
  <2>2. Subiu(a)
    BY <1>2, <1>3, <2>1, EfeitoSobe
  <2> QED
    BY <1>2, <1>3, <1>5, <2>1, <2>2, PassoPara
       DEF Expirou, InvTransmissao, TypeOKTransmissao, SuporteSoPorErro
<1>7. CASE u.estado = "ABERTO"
  <2>1. upload' = [upload EXCEPT ![a].estado = "RECEBIDO"] /\ u.progresso.offset = NumParte
    BY <1>4, <1>7 DEF Finalizar
  <2>2. Efeito(a, u) = [u EXCEPT !.estado = "RECEBIDO"]
    BY <1>4, <1>7, <2>1, ConstantesTransmissao DEF Finalizar, Efeito
  <2>3. upload' = [upload EXCEPT ![a] = Efeito(a, u)]
    BY <1>2, <1>4, <2>1, <2>2
  <2>4. Subiu(a)
    BY <1>2, <1>3, <2>3, EfeitoSobe
  <2>5. upload'[a].estado = "RECEBIDO" /\ upload'[a].progresso = u.progresso
    BY <1>2, <1>4, <2>2, <2>3 DEF Upload
  <2>6. Recebe(a, u.progresso)
    BY <1>4, <1>7, <2>5 DEF Finalizar
  <2> QED
    BY <1>2, <1>3, <1>5, <2>4, <2>5, <2>6, PassoRecebe
<1> QED
  BY <1>4, <1>6, <1>7

LEMMA PassoFalta == InvTransmissao /\ (PerderTr \/ Recusar) => InvTransmissao'
<1> SUFFICES ASSUME InvTransmissao, PerderTr \/ Recusar PROVE InvTransmissao'
  OBVIOUS
<1> DEFINE a == envio.arq
<1>1. envio # Parado
  BY DEF PerderTr, Recusar, Parado
<1>2. a \in Arquivo
  BY <1>1 DEF InvTransmissao, Prefixo, PerderTr, Recusar
<1>3. Pedindo(a)
  BY <1>1 DEF Pedindo, PerderTr, Recusar
<1>4. upload' = upload \/ upload' = [upload EXCEPT ![a] = Efeito(a, upload[a])]
  BY DEF PerderTr, Recusar
<1>5. Subiu(a)
  BY <1>2, <1>3, <1>4, EfeitoSobe
<1>6. falhas' \in 0..MaxFalhaTr
  BY ConstantesTransmissao DEF PerderTr, Recusar, InvTransmissao, TypeOKTransmissao
<1>7. CASE PerderTr
  BY <1>2, <1>3, <1>5, <1>6, <1>7, PassoPara
     DEF PerderTr, SemRespostaTr, FalhaRepetir, InvTransmissao, TypeOKTransmissao, SuporteSoPorErro
<1>8. CASE Recusar
  <2>1. errado' \in BOOLEAN /\ suporte' \in BOOLEAN /\ (suporte' => errado')
    BY <1>8, Zenon DEF Recusar, PedeSuporte
  <2> QED
    BY <1>2, <1>3, <1>5, <1>6, <1>8, <2>1, PassoPara DEF Recusar, PedeSuporte
<1> QED
  BY <1>7, <1>8

\* the first pending file is the one after those that are received
LEMMA PrimeiroDepois ==
  ASSUME NEW k \in 0..NumArquivo, Prefixo(k), NEW n \in Arquivo, PendenteTr(n) # {}
  PROVE  k < n /\ PrimeiroPendente(n) = k + 1
<1> USE ConstantesTransmissao
<1>1. \A a \in 1..n : a \in PendenteTr(n) <=> a > k
  BY DEF Prefixo, Recebido, PendenteTr, Arquivo
<1>2. PendenteTr(n) \subseteq 1..n
  BY DEF PendenteTr
<1>3. k + 1 \in PendenteTr(n) /\ \A b \in PendenteTr(n) : k + 1 <= b
  BY <1>1, <1>2 DEF Arquivo
<1>4. \A a \in PendenteTr(n) : (\A b \in PendenteTr(n) : a <= b) => a = k + 1
  BY <1>2, <1>3 DEF Arquivo
<1>5. PrimeiroPendente(n) = k + 1
  BY <1>3, <1>4 DEF PrimeiroPendente
<1> QED
  BY <1>2, <1>3, <1>5 DEF Arquivo

LEMMA PassoIniciarCiclo == InvTransmissao /\ IniciarCiclo => InvTransmissao'
<1> SUFFICES ASSUME InvTransmissao, IniciarCiclo PROVE InvTransmissao'
  OBVIOUS
<1> USE ConstantesTransmissao
<1>1. PICK k \in 0..NumArquivo : Prefixo(k)
  BY DEF InvTransmissao
<1>2. gerado \in Arquivo
  BY DEF InvTransmissao, TypeOKTransmissao
<1>3. InicioEnvio(gerado) = IF k = 0 THEN 1 ELSE k
  BY <1>1, <1>2, PrimeiroDepois DEF InicioEnvio, IniciarCiclo
<1>4. InicioEnvio(gerado) \in 1..(NumArquivo + 1) /\ InicioEnvio(gerado) \in {k, k + 1}
  BY <1>3
<1>5. envio' = [passo |-> "entrada", arq |-> InicioEnvio(gerado), fim |-> gerado, gasto |-> 0]
  BY DEF IniciarCiclo
<1>6. envio' \in EmEnvio /\ envio'.passo = "entrada" /\ envio'.arq \in {k, k + 1}
  BY <1>2, <1>4, <1>5 DEF EmEnvio
<1>7. UNCHANGED <<gerado, arquivo, suporte, upload, falhas, errado>>
  BY DEF IniciarCiclo
<1>8. TypeOKTransmissao'
  BY <1>6, <1>7 DEF InvTransmissao, TypeOKTransmissao, Envio, EmEnvio
<1>9. Prefixo(k)'
  BY <1>1, <1>6, <1>7 DEF Prefixo, Recebido
<1> QED
  BY <1>1, <1>6, <1>7, <1>8, <1>9 DEF InvTransmissao, Sincrono, CadeiaSemBuraco, SuporteSoPorErro

LEMMA PassoAbrirEntrada == InvTransmissao /\ AbrirEntrada => InvTransmissao'
<1> SUFFICES ASSUME InvTransmissao, AbrirEntrada PROVE InvTransmissao'
  OBVIOUS
<1> USE ConstantesTransmissao
<1> DEFINE a == envio.arq
<1>1. envio # Parado
  BY DEF AbrirEntrada, Parado
<1>2. envio \in EmEnvio /\ a <= envio.fim
  BY <1>1, TiposDoEnvio DEF InvTransmissao, AbrirEntrada
<1>3. a \in Arquivo
  BY <1>2 DEF EmEnvio, Arquivo
<1>4. arquivo[a] \in LinhaArquivo
  BY <1>3, TiposDoEnvio DEF InvTransmissao
<1>5. /\ arquivo' \in [Arquivo -> LinhaArquivo]
      /\ \A x \in Arquivo \ {a} : arquivo'[x] = arquivo[x]
      /\ arquivo'[a].status = "ENVIO_EM_ANDAMENTO"
      /\ arquivo'[a].progresso = arquivo[a].progresso
  BY <1>3, <1>4 DEF AbrirEntrada, LinhaArquivo, InvTransmissao, TypeOKTransmissao
<1>6. envio' \in EmEnvio /\ envio'.passo = "consultar" /\ envio'.arq = a
  BY <1>2 DEF AbrirEntrada, EmEnvio
<1>7. UNCHANGED <<gerado, suporte, upload, falhas, errado>>
  BY DEF AbrirEntrada
<1>8. TypeOKTransmissao'
  BY <1>5, <1>6, <1>7 DEF InvTransmissao, TypeOKTransmissao, Envio, EmEnvio
<1>9. PICK k \in 0..NumArquivo : Prefixo(k)
  BY DEF InvTransmissao
<1>10. a \in {k, k + 1}
  BY <1>1, <1>9 DEF Prefixo
<1>a. PICK j \in 0..NumArquivo : a = j + 1
  BY <1>3 DEF Arquivo
<1>11. Prefixo(j)'
  <2>1. \A x \in Arquivo : Recebido(x)' <=> x <= j
    BY <1>a, <1>3, <1>5, <1>9, <1>10 DEF Prefixo, Recebido, Arquivo
  <2> QED
    BY <1>a, <1>3, <1>6, <2>1 DEF Prefixo, Arquivo
<1>12. \A x \in Arquivo : (Estado(upload[x]) /\ Acordo(arquivo[x], upload[x]))'
  BY <1>5, <1>7 DEF InvTransmissao, Acordo
<1>13. Sincrono' /\ CadeiaSemBuraco' /\ SuporteSoPorErro'
  BY <1>6, <1>7 DEF InvTransmissao, Sincrono, CadeiaSemBuraco, SuporteSoPorErro
<1> QED
  BY <1>8, <1>11, <1>12, <1>13 DEF InvTransmissao

LEMMA PassoEncerra == InvTransmissao /\ (EncerrarCiclo \/ PararEnvio) => InvTransmissao'
<1> SUFFICES ASSUME InvTransmissao, EncerrarCiclo \/ PararEnvio PROVE InvTransmissao'
  OBVIOUS
<1> USE ConstantesTransmissao
<1>1. /\ envio' = Parado /\ UNCHANGED <<gerado, arquivo, suporte, upload, errado>>
      /\ falhas' \in 0..MaxFalhaTr
  BY DEF EncerrarCiclo, PararEnvio, InvTransmissao, TypeOKTransmissao
<1>2. PICK k \in 0..NumArquivo : Prefixo(k)
  BY DEF InvTransmissao
<1>3. Prefixo(k)'
  BY <1>1, <1>2 DEF Prefixo, Recebido
<1>4. TypeOKTransmissao'
  BY <1>1 DEF InvTransmissao, TypeOKTransmissao, Envio
<1> QED
  BY <1>1, <1>2, <1>3, <1>4 DEF InvTransmissao, Sincrono, CadeiaSemBuraco, SuporteSoPorErro

LEMMA PassoErroLocal == InvTransmissao /\ ErroLocal => InvTransmissao'
<1> SUFFICES ASSUME InvTransmissao, ErroLocal PROVE InvTransmissao'
  OBVIOUS
<1> USE ConstantesTransmissao
<1>1. /\ envio' = Parado /\ UNCHANGED <<gerado, arquivo, upload>>
      /\ falhas' \in 0..MaxFalhaTr
  BY DEF ErroLocal, PedeSuporte, InvTransmissao, TypeOKTransmissao
<1>2. suporte' = TRUE /\ errado' = TRUE
  BY Zenon DEF ErroLocal, PedeSuporte
<1>3. PICK k \in 0..NumArquivo : Prefixo(k)
  BY DEF InvTransmissao
<1>4. Prefixo(k)'
  BY <1>1, <1>3 DEF Prefixo, Recebido
<1>5. TypeOKTransmissao'
  BY <1>1, <1>2 DEF InvTransmissao, TypeOKTransmissao, Envio
<1> QED
  BY <1>1, <1>2, <1>3, <1>4, <1>5 DEF InvTransmissao, Sincrono, CadeiaSemBuraco, SuporteSoPorErro

LEMMA PassoFora == InvTransmissao /\ (Retomar \/ GerarBackup) => InvTransmissao'
<1> SUFFICES ASSUME InvTransmissao, Retomar \/ GerarBackup PROVE InvTransmissao'
  OBVIOUS
<1> USE ConstantesTransmissao
<1>1. UNCHANGED <<arquivo, envio, upload, falhas>>
  BY DEF Retomar, GerarBackup
<1>2. gerado' \in Arquivo
  BY DEF Retomar, GerarBackup, InvTransmissao, TypeOKTransmissao, Arquivo
<1>3. suporte' \in BOOLEAN /\ errado' \in BOOLEAN /\ SuporteSoPorErro'
  <2>1. CASE Retomar
    <3>1. suporte' = FALSE /\ errado' = FALSE
      BY <2>1, Zenon DEF Retomar
    <3> QED
      BY <3>1, Zenon DEF SuporteSoPorErro
  <2>2. CASE GerarBackup
    <3>1. suporte' = suporte /\ errado' = errado
      BY <2>2, Zenon DEF GerarBackup
    <3> QED
      BY <3>1, Zenon DEF InvTransmissao, TypeOKTransmissao, SuporteSoPorErro
  <2> QED
    BY <2>1, <2>2
<1>4. TypeOKTransmissao'
  BY <1>1, <1>2, <1>3, Zenon DEF InvTransmissao, TypeOKTransmissao
<1>5. PICK k \in 0..NumArquivo : Prefixo(k)
  BY DEF InvTransmissao
<1>6. Prefixo(k)'
  BY <1>1, <1>5 DEF Prefixo, Recebido
<1> QED
  BY <1>1, <1>3, <1>4, <1>5, <1>6 DEF InvTransmissao, Sincrono, CadeiaSemBuraco

LEMMA PassoExpirar == ASSUME InvTransmissao, NEW a \in Arquivo, Expirar(a) PROVE InvTransmissao'
<1> USE ConstantesTransmissao
<1>1. upload[a] \in Upload /\ Estado(upload[a]) /\ upload \in [Arquivo -> Upload]
  BY TiposDoEnvio DEF InvTransmissao, TypeOKTransmissao
<1>2. /\ upload' \in [Arquivo -> Upload]
      /\ \A x \in Arquivo \ {a} : upload'[x] = upload[x]
      /\ upload'[a].estado = "EXPIRADO" /\ upload'[a].progresso = upload[a].progresso
  BY <1>1 DEF Expirar, Upload
<1>3. UNCHANGED <<gerado, arquivo, suporte, envio, falhas, errado>> /\ upload[a].estado = "ABERTO"
  BY DEF Expirar
<1>4. TypeOKTransmissao'
  BY <1>2, <1>3 DEF InvTransmissao, TypeOKTransmissao
<1>5. PICK k \in 0..NumArquivo : Prefixo(k)
  BY DEF InvTransmissao
<1>6. Prefixo(k)'
  BY <1>3, <1>5 DEF Prefixo, Recebido
<1>7. \A x \in Arquivo : (Estado(upload[x]) /\ Acordo(arquivo[x], upload[x]))'
  BY <1>1, <1>2, <1>3 DEF InvTransmissao, Estado, Acordo, Expirar
<1>8. Sincrono' /\ CadeiaSemBuraco' /\ SuporteSoPorErro'
  BY <1>2, <1>3, <1>6 DEF InvTransmissao, Sincrono, CadeiaSemBuraco, SuporteSoPorErro, Prefixo
<1> QED
  BY <1>4, <1>5, <1>6, <1>7, <1>8 DEF InvTransmissao

\* In every reachable state what the hub saved of the sending and what the
\* Central holds agree, and the types are kept (backup_transmission.py).
THEOREM InvarianteTransmissao == SpecTransmissao => []InvTransmissao
<1>1. InvTransmissao /\ [NextTransmissao]_varsTransmissao => InvTransmissao'
  <2> SUFFICES ASSUME InvTransmissao, [NextTransmissao]_varsTransmissao PROVE InvTransmissao'
    OBVIOUS
  <2>1. CASE UNCHANGED varsTransmissao
    BY <2>1 DEF varsTransmissao, InvTransmissao, TypeOKTransmissao, Prefixo, Recebido, Sincrono,
                CadeiaSemBuraco, SuporteSoPorErro
  <2> QED
    BY <2>1, PassoConsultar, PassoEnviarParte, PassoFinalizar, PassoFalta, PassoIniciarCiclo,
       PassoAbrirEntrada, PassoEncerra, PassoErroLocal, PassoFora, PassoExpirar DEF NextTransmissao, PassoEnvio
<1> QED
  BY <1>1, IniciaTransmissao, PTL DEF SpecTransmissao

\* The Central never holds a file of the chain without all the files before it,
\* for any number of files, parts, losses, stops and expired uploads
\* (BackupSender.run).
THEOREM CadeiaSemBuracoSempre == SpecTransmissao => []CadeiaSemBuraco
<1>1. InvTransmissao => CadeiaSemBuraco
  BY DEF InvTransmissao
<1> QED
  BY <1>1, InvarianteTransmissao, PTL

\* A file the hub shows as received was received whole by the Central
\* (BackupSender.run, the receipt of finalizar).
THEOREM RecebidoConfereSempre == SpecTransmissao => []RecebidoConfere
<1>1. InvTransmissao => RecebidoConfere
  BY DEF InvTransmissao, Acordo, Estado, RecebidoConfere
<1> QED
  BY <1>1, InvarianteTransmissao, PTL

\* Only an error that says so calls for the support: lost answers, stops and
\* expired uploads, in any number, never make the progress on disk conflict with
\* the Central's (validate_progress, HTTP_408).
THEOREM SuporteSoPorErroSempre == SpecTransmissao => []SuporteSoPorErro
<1>1. InvTransmissao => SuporteSoPorErro
  BY DEF InvTransmissao
<1> QED
  BY <1>1, InvarianteTransmissao, PTL

-----------------------------------------------------------------------------
(* The invariant of the recovery *)

Pedaco == 1..(2 * NumSegmento)

\* what was executed, then what a session still holds, are the first n pieces
Sequencia(d, r, n) ==
  /\ Len(d) + Len(r) = n
  /\ \A i \in 1..Len(d) : d[i] = i
  /\ \A i \in 1..Len(r) : r[i] = Len(d) + i

\* one process holds the lock, one session is open, a closed one holds nothing
Exclusao ==
  /\ \A e, f \in Executor : e # f => executor[e].passo = "livre" \/ executor[f].passo = "livre"
  /\ \A e, f \in Executor : sessaoSql[e].aberta /\ sessaoSql[f].aberta => e = f
  /\ \A e \in Executor : ~sessaoSql[e].aberta => sessaoSql[e].resto = <<>>

\* a process that imports has the only session, and the destination holds what
\* it sent, and nothing else
Importa(e) ==
  LET x == executor[e]
      s == sessaoSql[e]
  IN /\ x.passo \in {"importar", "confirmar", "encerrar", "conferir"} =>
          \A f \in Executor \ {e} : ~sessaoSql[f].aberta
     /\ x.passo = "importar" =>
          s.aberta /\ s.resto = <<>> /\ Sequencia(destino, <<>>, 2 * (x.seg - 1))
     /\ x.passo = "confirmar" /\ s.aberta => Sequencia(destino, s.resto, 2 * x.seg)
     /\ x.passo = "encerrar" =>
          s.aberta /\ s.resto = <<>> /\ Sequencia(destino, <<>>, 2 * NumSegmento)
     /\ x.passo = "conferir" => ~s.aberta /\ Sequencia(destino, <<>>, 2 * NumSegmento)

\* a restored database is whole and nobody touches it
Restaurado ==
  /\ estadoRec = "RESTAURADO_BLOQUEADO" =>
       /\ Sequencia(destino, <<>>, 2 * NumSegmento)
       /\ \A e \in Executor : executor[e].passo = "livre" /\ ~sessaoSql[e].aberta
  /\ ~bloqueio => estadoRec = "RESTAURADO_BLOQUEADO"

InvRecuperacao ==
  TypeOKRecuperacao /\ Exclusao /\ (\A e \in Executor : Importa(e)) /\ Restaurado

LinhaExecutor ==
  [passo : {"livre", "preparar", "abrir", "importar", "confirmar", "encerrar", "conferir"},
   seg : 1..NumSegmento]
LinhaSessao == [aberta : BOOLEAN, resto : Seq(Pedaco)]

LEMMA TiposDaRecuperacao ==
  ASSUME TypeOKRecuperacao
  PROVE  /\ executor \in [Executor -> LinhaExecutor] /\ sessaoSql \in [Executor -> LinhaSessao]
         /\ destino \in Seq(Pedaco)
         /\ \A e \in Executor : /\ executor[e] \in LinhaExecutor /\ executor[e].seg \in 1..NumSegmento
                                /\ sessaoSql[e] \in LinhaSessao /\ sessaoSql[e].resto \in Seq(Pedaco)
BY DEF TypeOKRecuperacao, LinhaExecutor, LinhaSessao, Pedaco

\* sending a segment, executing a piece, and the whole chain

LEMMA SequenciaManda ==
  ASSUME NEW d \in Seq(Pedaco), NEW s \in 1..NumSegmento, Sequencia(d, <<>>, 2 * (s - 1))
  PROVE  /\ <<>> \o Segmento(s) \in Seq(Pedaco)
         /\ Sequencia(d, <<>> \o Segmento(s), 2 * s)
<1> USE ConstantesRecuperacao
<1>1. Segmento(s) \in Seq(Pedaco) /\ Len(Segmento(s)) = 2
      /\ Segmento(s)[1] = 2 * s - 1 /\ Segmento(s)[2] = 2 * s
  BY DEF Segmento, Pedaco
<1>2. <<>> \o Segmento(s) = Segmento(s)
  BY <1>1, ConcatEmptySeq
<1>3. Len(d) \in Nat /\ Len(<<>>) = 0
  BY LenProperties
<1>4. Len(d) = 2 * (s - 1) /\ \A i \in 1..Len(d) : d[i] = i
  BY <1>3 DEF Sequencia
<1>5. \A i \in 1..2 : Segmento(s)[i] = Len(d) + i
  BY <1>1, <1>4
<1>6. Sequencia(d, Segmento(s), 2 * s)
  BY <1>1, <1>4, <1>5 DEF Sequencia
<1> QED
  BY <1>1, <1>2, <1>6

LEMMA SequenciaExecuta ==
  ASSUME NEW d \in Seq(Pedaco), NEW r \in Seq(Pedaco), r # <<>>, NEW n \in Nat, Sequencia(d, r, n)
  PROVE  /\ Append(d, Head(r)) \in Seq(Pedaco) /\ Tail(r) \in Seq(Pedaco)
         /\ Sequencia(Append(d, Head(r)), Tail(r), n)
<1>1. Head(r) \in Pedaco /\ Tail(r) \in Seq(Pedaco) /\ Len(Tail(r)) = Len(r) - 1
      /\ \A i \in 1..Len(Tail(r)) : Tail(r)[i] = r[i + 1]
  BY HeadTailProperties
<1>2. Len(d) \in Nat /\ Len(r) \in Nat \ {0} /\ Head(r) = r[1]
  BY LenProperties, EmptySeq
<1>3. /\ Append(d, Head(r)) \in Seq(Pedaco) /\ Len(Append(d, Head(r))) = Len(d) + 1
      /\ \A i \in 1..Len(d) : Append(d, Head(r))[i] = d[i]
      /\ Append(d, Head(r))[Len(d) + 1] = Head(r)
  BY <1>1, AppendProperties
<1> QED
  BY <1>1, <1>2, <1>3 DEF Sequencia

LEMMA SequenciaInteira ==
  ASSUME NEW d \in Seq(Pedaco), Sequencia(d, <<>>, 2 * NumSegmento)
  PROVE  d = Cadeia /\ d # <<>>
<1> USE ConstantesRecuperacao
<1>1. Len(d) = 2 * NumSegmento /\ \A i \in 1..Len(d) : d[i] = i
  BY LenProperties DEF Sequencia
<1>2. d \in [1..(2 * NumSegmento) -> Pedaco]
  BY <1>1, LenProperties
<1>3. d = Cadeia
  BY <1>1, <1>2 DEF Cadeia
<1> QED
  BY <1>1, <1>3

\* what the actions do to the rows

LEMMA Anda1 ==
  ASSUME TypeOKRecuperacao, NEW e \in Executor, NEW p,
         p \in {"livre", "preparar", "abrir", "importar", "confirmar", "encerrar", "conferir"},
         Passo(e, p)
  PROVE  /\ executor' \in [Executor -> LinhaExecutor]
         /\ \A f \in Executor \ {e} : executor'[f] = executor[f]
         /\ executor'[e].passo = p /\ executor'[e].seg = executor[e].seg
BY TiposDaRecuperacao DEF Passo, LinhaExecutor

LEMMA Resto1 ==
  ASSUME TypeOKRecuperacao, NEW e \in Executor, NEW r \in Seq(Pedaco),
         sessaoSql' = [sessaoSql EXCEPT ![e].resto = r]
  PROVE  /\ sessaoSql' \in [Executor -> LinhaSessao]
         /\ \A f \in Executor \ {e} : sessaoSql'[f] = sessaoSql[f]
         /\ sessaoSql'[e].aberta = sessaoSql[e].aberta /\ sessaoSql'[e].resto = r
BY TiposDaRecuperacao DEF LinhaSessao

LEMMA Sessao1 ==
  ASSUME TypeOKRecuperacao, NEW e \in Executor, NEW b \in BOOLEAN,
         sessaoSql' = [sessaoSql EXCEPT ![e] = [aberta |-> b, resto |-> <<>>]]
  PROVE  /\ sessaoSql' \in [Executor -> LinhaSessao]
         /\ \A f \in Executor \ {e} : sessaoSql'[f] = sessaoSql[f]
         /\ sessaoSql'[e].aberta = b /\ sessaoSql'[e].resto = <<>>
<1>1. [aberta |-> b, resto |-> <<>>] \in LinhaSessao
  BY EmptySeq, Zenon DEF LinhaSessao
<1> QED
  BY <1>1, TiposDaRecuperacao

LEMMA IniciaRecuperacao == InitRecuperacao => InvRecuperacao
<1> SUFFICES ASSUME InitRecuperacao PROVE InvRecuperacao
  OBVIOUS
<1> USE ConstantesRecuperacao DEF InitRecuperacao
<1>1. [aberta |-> FALSE, resto |-> <<>>] \in LinhaSessao
  BY EmptySeq, Zenon DEF LinhaSessao
<1>2. sessaoSql \in [Executor -> LinhaSessao]
  BY <1>1
<1>3. executor \in [Executor -> LinhaExecutor] /\ destino \in Seq(Pedaco)
  BY DEF LinhaExecutor
<1>4. TypeOKRecuperacao
  BY <1>2, <1>3, Zenon DEF TypeOKRecuperacao, LinhaSessao, LinhaExecutor, Pedaco
<1>5. Exclusao /\ Restaurado /\ \A e \in Executor : Importa(e)
  BY DEF Exclusao, Restaurado, Importa
<1> QED
  BY <1>4, <1>5 DEF InvRecuperacao

\* a process that takes a step has the lock
LEMMA Sozinho ==
  ASSUME InvRecuperacao, NEW e \in Executor, executor[e].passo # "livre"
  PROVE  /\ \A f \in Executor \ {e} : executor[f].passo = "livre"
         /\ estadoRec # "RESTAURADO_BLOQUEADO" /\ bloqueio
BY DEF InvRecuperacao, Exclusao, Restaurado, TypeOKRecuperacao

\* the steps before the session, and those that give it up
LEMMA PassoSemSessao ==
  ASSUME InvRecuperacao, NEW e \in Executor,
         Iniciar(e) \/ Preparar(e) \/ RecusarTentativa(e) \/ Matar(e)
  PROVE  InvRecuperacao'
<1>1. PICK p \in {"livre", "preparar", "abrir"} : Passo(e, p)
  BY DEF Iniciar, Preparar, RecusarTentativa, Matar
<1>2. UNCHANGED <<bloqueio, sessaoSql, destino>>
  BY DEF Iniciar, Preparar, RecusarTentativa, Matar
<1>3. estadoRec' \in {estadoRec, "PRE_VERIFICADO"}
  BY DEF Iniciar, Preparar, RecusarTentativa, Matar
<1>4. /\ executor' \in [Executor -> LinhaExecutor]
      /\ \A f \in Executor \ {e} : executor'[f] = executor[f]
      /\ executor'[e].passo = p
  BY <1>1, Anda1 DEF InvRecuperacao
<1>5. \A f \in Executor \ {e} : executor[f].passo = "livre"
  BY Sozinho DEF Iniciar, Preparar, RecusarTentativa, Matar
<1>6. estadoRec # "RESTAURADO_BLOQUEADO" /\ bloqueio
  <2>1. CASE Iniciar(e)
    <3>1. destino = <<>> /\ bloqueio
      BY <2>1 DEF Iniciar, DestinoVazio
    <3>2. ~Sequencia(destino, <<>>, 2 * NumSegmento)
      BY <3>1, TiposDaRecuperacao, SequenciaInteira DEF InvRecuperacao
    <3> QED
      BY <3>1, <3>2 DEF InvRecuperacao, Restaurado
  <2>2. CASE Preparar(e) \/ RecusarTentativa(e) \/ Matar(e)
    BY <2>2, Sozinho DEF Preparar, RecusarTentativa, Matar
  <2> QED
    BY <2>1, <2>2
<1>7. TypeOKRecuperacao'
  BY <1>2, <1>3, <1>4 DEF InvRecuperacao, TypeOKRecuperacao, LinhaExecutor
<1>8. Exclusao'
  BY <1>2, <1>4, <1>5 DEF InvRecuperacao, Exclusao
<1>9. \A f \in Executor : Importa(f)'
  BY <1>2, <1>4, <1>5 DEF InvRecuperacao, Importa
<1>10. Restaurado'
  BY <1>2, <1>3, <1>6 DEF Restaurado
<1> QED
  BY <1>7, <1>8, <1>9, <1>10 DEF InvRecuperacao

LEMMA PassoAbrirSessao ==
  ASSUME InvRecuperacao, NEW e \in Executor, AbrirSessao(e)
  PROVE  InvRecuperacao'
<1> USE ConstantesRecuperacao
<1>1. /\ executor[e].passo = "abrir" /\ UNCHANGED <<bloqueio, estadoRec, destino>>
      /\ destino = <<>> /\ \A f \in Executor : ~sessaoSql[f].aberta
  BY DEF AbrirSessao, SemOutraSessao, DestinoVazio
<1>2. [passo |-> "importar", seg |-> 1] \in LinhaExecutor
  BY DEF LinhaExecutor
<1>3. /\ executor' \in [Executor -> LinhaExecutor]
      /\ \A f \in Executor \ {e} : executor'[f] = executor[f]
      /\ executor'[e].passo = "importar" /\ executor'[e].seg = 1
  BY <1>2, TiposDaRecuperacao DEF AbrirSessao, InvRecuperacao
<1>4. /\ sessaoSql' \in [Executor -> LinhaSessao]
      /\ \A f \in Executor \ {e} : sessaoSql'[f] = sessaoSql[f]
      /\ sessaoSql'[e].aberta = TRUE /\ sessaoSql'[e].resto = <<>>
  <2>1. sessaoSql' = [sessaoSql EXCEPT ![e] = [aberta |-> TRUE, resto |-> <<>>]]
    BY Zenon DEF AbrirSessao
  <2> QED
    BY <2>1, Sessao1 DEF InvRecuperacao
<1>5. /\ \A f \in Executor \ {e} : executor[f].passo = "livre"
      /\ estadoRec # "RESTAURADO_BLOQUEADO" /\ bloqueio
  BY <1>1, Sozinho
<1>6. TypeOKRecuperacao'
  BY <1>1, <1>3, <1>4 DEF InvRecuperacao, TypeOKRecuperacao, LinhaExecutor, LinhaSessao, Pedaco
<1>7. Exclusao'
  BY <1>1, <1>3, <1>4, <1>5 DEF InvRecuperacao, Exclusao
<1>8. Sequencia(<<>>, <<>>, 2 * (1 - 1))
  BY DEF Sequencia
<1>9. \A f \in Executor : Importa(f)'
  BY <1>1, <1>3, <1>4, <1>5, <1>8 DEF Importa
<1>10. Restaurado'
  BY <1>1, <1>5 DEF Restaurado
<1> QED
  BY <1>6, <1>7, <1>9, <1>10 DEF InvRecuperacao

LEMMA PassoImportar ==
  ASSUME InvRecuperacao, NEW e \in Executor, ImportarSegmento(e)
  PROVE  InvRecuperacao'
<1> USE ConstantesRecuperacao
<1> DEFINE n == executor[e].seg
<1>1. executor[e].passo = "importar" /\ UNCHANGED <<bloqueio, destino>> /\ estadoRec' = "IMPORTANDO"
  BY DEF ImportarSegmento
<1>2. /\ sessaoSql[e].aberta /\ sessaoSql[e].resto = <<>> /\ Sequencia(destino, <<>>, 2 * (n - 1))
      /\ \A f \in Executor \ {e} : ~sessaoSql[f].aberta
  BY <1>1 DEF InvRecuperacao, Importa
<1>3. n \in 1..NumSegmento /\ destino \in Seq(Pedaco)
  BY TiposDaRecuperacao DEF InvRecuperacao
<1>4. PICK r \in Seq(Pedaco) : r = <<>> \o Segmento(n) /\ Sequencia(destino, r, 2 * n)
  BY <1>2, <1>3, SequenciaManda
<1>5. sessaoSql' = [sessaoSql EXCEPT ![e].resto = r]
  BY <1>2, <1>4 DEF ImportarSegmento
<1>6. /\ sessaoSql' \in [Executor -> LinhaSessao]
      /\ \A f \in Executor \ {e} : sessaoSql'[f] = sessaoSql[f]
      /\ sessaoSql'[e].aberta = sessaoSql[e].aberta /\ sessaoSql'[e].resto = r
  BY <1>5, Resto1 DEF InvRecuperacao
<1>7. /\ executor' \in [Executor -> LinhaExecutor]
      /\ \A f \in Executor \ {e} : executor'[f] = executor[f]
      /\ executor'[e].passo = "confirmar" /\ executor'[e].seg = n
  BY Anda1 DEF InvRecuperacao, ImportarSegmento
<1>8. \A f \in Executor \ {e} : executor[f].passo = "livre"
  BY <1>1, Sozinho
<1>9. bloqueio
  BY <1>1, Sozinho
<1>10. TypeOKRecuperacao'
  BY <1>1, <1>6, <1>7 DEF InvRecuperacao, TypeOKRecuperacao, LinhaExecutor, LinhaSessao, Pedaco
<1>11. Exclusao'
  <2>1. \A f, g \in Executor : f # g => executor'[f].passo = "livre" \/ executor'[g].passo = "livre"
    BY <1>7, <1>8
  <2>2. \A f \in Executor \ {e} : ~sessaoSql'[f].aberta
    BY <1>2, <1>6
  <2>3. \A f \in Executor : ~sessaoSql'[f].aberta => sessaoSql'[f].resto = <<>>
    BY <1>2, <1>6, <2>2 DEF InvRecuperacao, Exclusao
  <2> QED
    BY <2>1, <2>2, <2>3 DEF Exclusao
<1>12. \A f \in Executor : Importa(f)'
  <2>1. Importa(e)'
    <3>1. Sequencia(destino', sessaoSql'[e].resto, 2 * executor'[e].seg)
      BY <1>1, <1>4, <1>6, <1>7
    <3>2. \A f \in Executor \ {e} : ~sessaoSql'[f].aberta
      BY <1>2, <1>6
    <3> QED
      BY <1>7, <3>1, <3>2 DEF Importa
  <2>2. \A f \in Executor \ {e} : Importa(f)'
    BY <1>7, <1>8 DEF Importa
  <2> QED
    BY <2>1, <2>2
<1>13. Restaurado'
  BY <1>1, <1>9 DEF Restaurado
<1> QED
  BY <1>10, <1>11, <1>12, <1>13 DEF InvRecuperacao

LEMMA PassoConfirmar ==
  ASSUME InvRecuperacao, NEW e \in Executor, Confirmar(e)
  PROVE  InvRecuperacao'
<1> USE ConstantesRecuperacao
<1>1. /\ executor[e].passo = "confirmar" /\ UNCHANGED <<bloqueio, sessaoSql, destino>>
      /\ estadoRec' = "SEGMENTO_CONFIRMADO" /\ sessaoSql[e].aberta /\ sessaoSql[e].resto = <<>>
  BY DEF Confirmar, Confirmada
<1>2. PICK n \in 1..NumSegmento : n = executor[e].seg
  BY TiposDaRecuperacao DEF InvRecuperacao
<1>3. Sequencia(destino, <<>>, 2 * n) /\ \A f \in Executor \ {e} : ~sessaoSql[f].aberta
  BY <1>1, <1>2 DEF InvRecuperacao, Importa
<1>4. executor[e] \in LinhaExecutor /\ executor \in [Executor -> LinhaExecutor]
  BY TiposDaRecuperacao DEF InvRecuperacao
<1>5. /\ executor' \in [Executor -> LinhaExecutor]
      /\ \A f \in Executor \ {e} : executor'[f] = executor[f]
      /\ \/ executor'[e].passo = "importar" /\ executor'[e].seg = n + 1
         \/ executor'[e].passo = "encerrar" /\ n = NumSegmento
  <2>1. CASE n < NumSegmento
    <3>1. executor' = [executor EXCEPT ![e] = [passo |-> "importar", seg |-> n + 1]]
      BY <1>2, <1>4, <2>1 DEF Confirmar
    <3>2. [passo |-> "importar", seg |-> n + 1] \in LinhaExecutor
      BY <2>1 DEF LinhaExecutor
    <3> QED
      BY <1>4, <3>1, <3>2
  <2>2. CASE ~ (n < NumSegmento)
    <3>1. executor' = [executor EXCEPT ![e] = [executor[e] EXCEPT !.passo = "encerrar"]]
      BY <1>2, <1>4, <2>2 DEF Confirmar
    <3>2. /\ [executor[e] EXCEPT !.passo = "encerrar"] \in LinhaExecutor
          /\ [executor[e] EXCEPT !.passo = "encerrar"].passo = "encerrar"
      BY <1>4 DEF LinhaExecutor
    <3> QED
      BY <1>4, <2>2, <3>1, <3>2
  <2> QED
    BY <2>1, <2>2
<1>6. (\A f \in Executor \ {e} : executor[f].passo = "livre") /\ bloqueio
  BY <1>1, Sozinho
<1>7. TypeOKRecuperacao'
  BY <1>1, <1>5 DEF InvRecuperacao, TypeOKRecuperacao, LinhaExecutor
<1>8. Exclusao'
  BY <1>1, <1>5, <1>6 DEF InvRecuperacao, Exclusao
<1>9. \A f \in Executor : Importa(f)'
  <2>1. Importa(e)'
    BY <1>1, <1>3, <1>5 DEF Importa
  <2>2. \A f \in Executor \ {e} : Importa(f)'
    BY <1>5, <1>6 DEF Importa
  <2> QED
    BY <2>1, <2>2
<1>10. Restaurado'
  BY <1>1, <1>6 DEF Restaurado
<1> QED
  BY <1>7, <1>8, <1>9, <1>10 DEF InvRecuperacao

LEMMA PassoEncerrar ==
  ASSUME InvRecuperacao, NEW e \in Executor, Encerrar(e)
  PROVE  InvRecuperacao'
<1> USE ConstantesRecuperacao
<1>1. /\ executor[e].passo = "encerrar" /\ UNCHANGED <<bloqueio, destino>>
      /\ estadoRec' = "CONFERENCIA_LOGICA"
  BY DEF Encerrar
<1>2. /\ sessaoSql[e].resto = <<>> /\ Sequencia(destino, <<>>, 2 * NumSegmento)
      /\ \A f \in Executor \ {e} : ~sessaoSql[f].aberta
  BY <1>1 DEF InvRecuperacao, Importa
<1>3. /\ sessaoSql' \in [Executor -> LinhaSessao]
      /\ \A f \in Executor \ {e} : sessaoSql'[f] = sessaoSql[f]
      /\ ~sessaoSql'[e].aberta /\ sessaoSql'[e].resto = <<>>
  <2>1. /\ sessaoSql' = [sessaoSql EXCEPT ![e] = [sessaoSql[e] EXCEPT !.aberta = FALSE]]
        /\ sessaoSql \in [Executor -> LinhaSessao] /\ sessaoSql[e] \in LinhaSessao
    BY TiposDaRecuperacao DEF Encerrar, InvRecuperacao
  <2>2. /\ [sessaoSql[e] EXCEPT !.aberta = FALSE] \in LinhaSessao
        /\ [sessaoSql[e] EXCEPT !.aberta = FALSE].resto = sessaoSql[e].resto
        /\ ~[sessaoSql[e] EXCEPT !.aberta = FALSE].aberta
    BY <2>1 DEF LinhaSessao
  <2> QED
    BY <1>2, <2>1, <2>2
<1>4. /\ executor' \in [Executor -> LinhaExecutor]
      /\ \A f \in Executor \ {e} : executor'[f] = executor[f]
      /\ executor'[e].passo = "conferir"
  BY Anda1 DEF InvRecuperacao, Encerrar
<1>5. (\A f \in Executor \ {e} : executor[f].passo = "livre") /\ bloqueio
  BY <1>1, Sozinho
<1>6. TypeOKRecuperacao'
  BY <1>1, <1>3, <1>4 DEF InvRecuperacao, TypeOKRecuperacao, LinhaExecutor, LinhaSessao, Pedaco
<1>7. Exclusao'
  BY <1>2, <1>3, <1>4, <1>5 DEF InvRecuperacao, Exclusao
<1>8. \A f \in Executor : Importa(f)'
  BY <1>1, <1>2, <1>3, <1>4, <1>5 DEF Importa
<1>9. Restaurado'
  BY <1>1, <1>5 DEF Restaurado
<1> QED
  BY <1>6, <1>7, <1>8, <1>9 DEF InvRecuperacao

LEMMA PassoConferir ==
  ASSUME InvRecuperacao, NEW e \in Executor, Conferir(e)
  PROVE  InvRecuperacao'
<1> USE ConstantesRecuperacao
<1>1. /\ executor[e].passo = "conferir" /\ UNCHANGED <<bloqueio, sessaoSql, destino>>
      /\ estadoRec' = "RESTAURADO_BLOQUEADO" /\ \A f \in Executor : ~sessaoSql[f].aberta
  BY DEF Conferir, SemOutraSessao
<1>2. Sequencia(destino, <<>>, 2 * NumSegmento)
  BY <1>1 DEF InvRecuperacao, Importa
<1>3. /\ executor' \in [Executor -> LinhaExecutor]
      /\ \A f \in Executor \ {e} : executor'[f] = executor[f]
      /\ executor'[e].passo = "livre"
  BY Anda1 DEF InvRecuperacao, Conferir
<1>4. \A f \in Executor : executor'[f].passo = "livre"
  BY <1>1, <1>3, Sozinho
<1>5. TypeOKRecuperacao'
  BY <1>1, <1>3 DEF InvRecuperacao, TypeOKRecuperacao, LinhaExecutor
<1>6. Exclusao' /\ \A f \in Executor : Importa(f)'
  BY <1>1, <1>4 DEF InvRecuperacao, Exclusao, Importa
<1>7. Restaurado'
  BY <1>1, <1>2, <1>4 DEF Restaurado
<1> QED
  BY <1>5, <1>6, <1>7 DEF InvRecuperacao

LEMMA PassoFalhar ==
  ASSUME InvRecuperacao, NEW e \in Executor, Falhar(e)
  PROVE  InvRecuperacao'
<1> USE ConstantesRecuperacao
<1>1. /\ executor[e].passo # "livre" /\ UNCHANGED <<bloqueio, destino>>
      /\ estadoRec' = "FALHA_SUPORTE"
  BY DEF Falhar
<1>2. PICK r \in Seq(Pedaco) : sessaoSql[e].resto = r
  BY TiposDaRecuperacao DEF InvRecuperacao
<1>3. PICK q \in Seq(Pedaco) :
           (r = <<>> => q = <<>>) /\ sessaoSql' = [sessaoSql EXCEPT ![e].resto = q]
  <2>1. CASE r = <<>>
    <3>1. SubSeq(r, 1, 0) = <<>>
      BY SubSeqEmpty
    <3> QED
      BY <1>2, <2>1, <3>1, EmptySeq DEF Falhar
  <2>2. CASE r # <<>>
    <3>1. \A i \in 1..1 : r[i] \in Pedaco
      BY <2>2, EmptySeq, ElementOfSeq
    <3>2. SubSeq(r, 1, 1) \in Seq(Pedaco)
      BY <3>1, SubSeqProperties
    <3> QED
      BY <1>2, <2>2, <3>2 DEF Falhar
  <2> QED
    BY <2>1, <2>2
<1>4. /\ sessaoSql' \in [Executor -> LinhaSessao]
      /\ \A f \in Executor \ {e} : sessaoSql'[f] = sessaoSql[f]
      /\ sessaoSql'[e].aberta = sessaoSql[e].aberta /\ sessaoSql'[e].resto = q
  BY <1>3, Resto1 DEF InvRecuperacao
<1>5. /\ executor' \in [Executor -> LinhaExecutor]
      /\ \A f \in Executor \ {e} : executor'[f] = executor[f]
      /\ executor'[e].passo = "livre"
  BY Anda1 DEF InvRecuperacao, Falhar
<1>6. (\A f \in Executor : executor'[f].passo = "livre") /\ bloqueio
  BY <1>1, <1>5, Sozinho
<1>7. TypeOKRecuperacao'
  BY <1>1, <1>4, <1>5 DEF InvRecuperacao, TypeOKRecuperacao, LinhaExecutor, LinhaSessao, Pedaco
<1>8. Exclusao'
  <2>1. \A f \in Executor : sessaoSql'[f].aberta = sessaoSql[f].aberta
    BY <1>4
  <2>2. \A f \in Executor : ~sessaoSql'[f].aberta => sessaoSql'[f].resto = <<>>
    BY <1>2, <1>3, <1>4, <2>1 DEF InvRecuperacao, Exclusao
  <2> QED
    BY <1>6, <2>1, <2>2 DEF InvRecuperacao, Exclusao
<1>9. (\A f \in Executor : Importa(f)') /\ Restaurado'
  BY <1>1, <1>6 DEF Importa, Restaurado
<1> QED
  BY <1>7, <1>8, <1>9 DEF InvRecuperacao

LEMMA PassoExecutar ==
  ASSUME InvRecuperacao, NEW e \in Executor, ExecutarPedaco(e)
  PROVE  InvRecuperacao'
<1> USE ConstantesRecuperacao
<1>1. PICK r \in Seq(Pedaco) : sessaoSql[e].resto = r
  BY TiposDaRecuperacao DEF InvRecuperacao
<1>2. PICK d \in Seq(Pedaco) : destino = d
  BY TiposDaRecuperacao DEF InvRecuperacao
<1>3. /\ sessaoSql[e].aberta /\ r # <<>> /\ destino' = Append(d, Head(r))
      /\ UNCHANGED <<bloqueio, estadoRec, executor>>
  BY <1>1, <1>2 DEF ExecutarPedaco
<1>4. PICK q \in Seq(Pedaco) : q = Tail(r) /\ sessaoSql' = [sessaoSql EXCEPT ![e].resto = q]
  BY <1>1, <1>3, HeadTailProperties DEF ExecutarPedaco
<1>5. destino' \in Seq(Pedaco)
  BY <1>3, HeadTailProperties, AppendProperties
<1>6. /\ sessaoSql' \in [Executor -> LinhaSessao]
      /\ \A f \in Executor \ {e} : sessaoSql'[f] = sessaoSql[f]
      /\ sessaoSql'[e].aberta = sessaoSql[e].aberta /\ sessaoSql'[e].resto = q
  BY <1>4, Resto1 DEF InvRecuperacao
<1>7. \A f \in Executor \ {e} : executor[f].passo \notin {"importar", "confirmar", "encerrar", "conferir"}
  BY <1>3 DEF InvRecuperacao, Importa
<1>8. executor[e].passo \notin {"importar", "encerrar", "conferir"}
  BY <1>1, <1>3 DEF InvRecuperacao, Importa
<1>9. bloqueio /\ estadoRec # "RESTAURADO_BLOQUEADO"
  BY <1>3 DEF InvRecuperacao, Restaurado, TypeOKRecuperacao
<1>10. TypeOKRecuperacao'
  BY <1>3, <1>5, <1>6 DEF InvRecuperacao, TypeOKRecuperacao, LinhaExecutor, LinhaSessao, Pedaco
<1>11. \A f \in Executor : sessaoSql'[f].aberta = sessaoSql[f].aberta
  BY <1>6
<1>12. Exclusao'
  <2>1. \A f \in Executor : ~sessaoSql'[f].aberta => sessaoSql'[f].resto = <<>>
    BY <1>3, <1>6, <1>11 DEF InvRecuperacao, Exclusao
  <2> QED
    BY <1>3, <1>11, <2>1 DEF InvRecuperacao, Exclusao
<1>13. \A f \in Executor : Importa(f)'
  <2>1. CASE executor[e].passo = "confirmar"
    <3>1. PICK n \in Nat : n = 2 * executor[e].seg
      BY TiposDaRecuperacao DEF InvRecuperacao
    <3>2. Sequencia(d, r, n) /\ \A f \in Executor \ {e} : ~sessaoSql[f].aberta
      BY <1>1, <1>2, <1>3, <2>1, <3>1 DEF InvRecuperacao, Importa
    <3>3. Sequencia(destino', q, n)
      BY <1>3, <1>4, <3>2, SequenciaExecuta
    <3>4. Importa(e)'
      BY <1>3, <1>6, <1>11, <2>1, <3>1, <3>2, <3>3 DEF Importa
    <3> QED
      BY <1>3, <1>7, <3>4 DEF Importa
  <2>2. CASE executor[e].passo # "confirmar"
    BY <1>3, <1>7, <1>8, <2>2 DEF Importa
  <2> QED
    BY <2>1, <2>2
<1>14. Restaurado'
  BY <1>3, <1>9 DEF Restaurado
<1> QED
  BY <1>10, <1>12, <1>13, <1>14 DEF InvRecuperacao

LEMMA PassoFecharSessao ==
  ASSUME InvRecuperacao, NEW e \in Executor, FecharSessaoSql(e)
  PROVE  InvRecuperacao'
<1>1. /\ sessaoSql[e].aberta /\ (sessaoSql[e].resto # <<>> \/ executor[e].passo = "livre")
      /\ UNCHANGED <<bloqueio, estadoRec, executor, destino>>
  BY DEF FecharSessaoSql
<1>2. /\ sessaoSql' \in [Executor -> LinhaSessao]
      /\ \A f \in Executor \ {e} : sessaoSql'[f] = sessaoSql[f]
      /\ sessaoSql'[e].aberta = FALSE /\ sessaoSql'[e].resto = <<>>
  <2>1. sessaoSql' = [sessaoSql EXCEPT ![e] = [aberta |-> FALSE, resto |-> <<>>]]
    BY Zenon DEF FecharSessaoSql
  <2> QED
    BY <2>1, Sessao1 DEF InvRecuperacao
<1>3. executor[e].passo \notin {"importar", "encerrar", "conferir"}
  BY <1>1 DEF InvRecuperacao, Importa, FecharSessaoSql
<1>4. TypeOKRecuperacao'
  BY <1>1, <1>2 DEF InvRecuperacao, TypeOKRecuperacao, LinhaExecutor, LinhaSessao, Pedaco
<1>5. \A f \in Executor : sessaoSql'[f].aberta => sessaoSql[f].aberta
  BY <1>2
<1>6. Exclusao'
  BY <1>1, <1>2, <1>5 DEF InvRecuperacao, Exclusao
<1>7. \A f \in Executor : Importa(f)'
  <2>1. Importa(e)'
    BY <1>1, <1>2, <1>3, <1>5 DEF InvRecuperacao, Importa
  <2>2. ASSUME NEW f \in Executor \ {e} PROVE Importa(f)'
    BY <1>1, <1>2, <1>5, <2>2 DEF InvRecuperacao, Importa
  <2> QED
    BY <2>1, <2>2
<1>8. Restaurado'
  BY <1>1, <1>5 DEF InvRecuperacao, Restaurado
<1> QED
  BY <1>4, <1>6, <1>7, <1>8 DEF InvRecuperacao

LEMMA PassoSuporte == InvRecuperacao /\ (Esvaziar \/ Liberar) => InvRecuperacao'
<1> SUFFICES ASSUME InvRecuperacao, Esvaziar \/ Liberar PROVE InvRecuperacao'
  OBVIOUS
<1>1. /\ UNCHANGED <<estadoRec, executor, sessaoSql>>
      /\ \A e \in Executor : executor[e].passo = "livre"
  BY DEF Esvaziar, Liberar
<1>2. /\ destino' \in Seq(Pedaco) /\ bloqueio' \in BOOLEAN
      /\ estadoRec = "RESTAURADO_BLOQUEADO" => destino' = destino
      /\ ~bloqueio' => estadoRec = "RESTAURADO_BLOQUEADO"
  <2>1. CASE Esvaziar
    BY <2>1, EmptySeq DEF Esvaziar, InvRecuperacao, TypeOKRecuperacao
  <2>2. CASE Liberar
    <3>1. bloqueio' = FALSE /\ destino' = destino /\ estadoRec = "RESTAURADO_BLOQUEADO"
      BY <2>2, Zenon DEF Liberar
    <3> QED
      BY <3>1, TiposDaRecuperacao DEF InvRecuperacao
  <2> QED
    BY <2>1, <2>2
<1>3. TypeOKRecuperacao'
  BY <1>1, <1>2 DEF InvRecuperacao, TypeOKRecuperacao, Pedaco
<1>4. Exclusao' /\ \A e \in Executor : Importa(e)'
  BY <1>1 DEF InvRecuperacao, Exclusao, Importa
<1>5. Restaurado'
  BY <1>1, <1>2 DEF InvRecuperacao, Restaurado
<1> QED
  BY <1>3, <1>4, <1>5 DEF InvRecuperacao

\* In every reachable state the attempts of the recovery exclude each other and
\* the destination holds what the one in course sent (recovery.py).
THEOREM InvarianteRecuperacao == SpecRecuperacao => []InvRecuperacao
<1>1. InvRecuperacao /\ [NextRecuperacao]_varsRecuperacao => InvRecuperacao'
  <2> SUFFICES ASSUME InvRecuperacao, [NextRecuperacao]_varsRecuperacao PROVE InvRecuperacao'
    OBVIOUS
  <2>1. CASE UNCHANGED varsRecuperacao
    BY <2>1 DEF varsRecuperacao, InvRecuperacao, TypeOKRecuperacao, Exclusao, Importa, Restaurado
  <2> QED
    BY <2>1, PassoSemSessao, PassoAbrirSessao, PassoImportar, PassoConfirmar, PassoEncerrar,
       PassoConferir, PassoFalhar, PassoExecutar, PassoFecharSessao, PassoSuporte
       DEF NextRecuperacao, PassoRecover
<1> QED
  BY <1>1, IniciaRecuperacao, PTL DEF SpecRecuperacao

\* A database is called restored, and the hub may operate on it, only with every
\* piece of the package executed in it, once and in order, for any number of
\* segments, of processes and of attempts that failed or were killed (recover,
\* verify_target, import_chain).
THEOREM RestauradoCompletoSempre == SpecRecuperacao => []RestauradoCompleto
<1>1. InvRecuperacao => RestauradoCompleto
  <2> SUFFICES ASSUME InvRecuperacao, estadoRec = "RESTAURADO_BLOQUEADO" \/ ~bloqueio
               PROVE  destino = Cadeia
    BY DEF RestauradoCompleto
  <2>1. Sequencia(destino, <<>>, 2 * NumSegmento) /\ destino \in Seq(Pedaco)
    BY TiposDaRecuperacao DEF InvRecuperacao, Restaurado
  <2> QED
    BY <2>1, SequenciaInteira
<1> QED
  BY <1>1, InvarianteRecuperacao, PTL

=============================================================================
