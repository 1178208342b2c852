------------------------------ MODULE Servico ------------------------------
(***************************************************************************)
(* The process of the Windows service (runtime/windows_service.py): the     *)
(* control thread of SvcDoRun, the thread of HubWaitressRuntime with the    *)
(* web server, the daemon thread of the worker (runtime/sync_worker.py),    *)
(* and the SCM, which asks for the stop at any moment.  stop() is called by *)
(* the control thread and by the runtime thread; only the exchange of the   *)
(* references to the server and to the worker is under the lock.            *)
(***************************************************************************)
EXTENDS Naturals

VARIABLES
  controle,     \* SvcDoRun: where the control thread is
  runtime,      \* where the thread of HubWaitressRuntime is
  worker,       \* where the thread of SyncWorker.run is
  pedidoScm,    \* SysvarHubService.stop_event
  sinal,        \* stop_requested, worker_stop_event, stopped_event
  lancou,       \* the runtime thread is unwinding an exception of server.run()
  erroSv,       \* runtime_error
  ref,          \* self.server and self.worker_thread are not None
  levou,        \* what stop() took, of each caller
  escuta        \* the socket of the server

varsServico ==
  <<controle, runtime, worker, pedidoScm, sinal, lancou, erroSv, ref, levou, escuta>>

Quem == {"controle", "runtime"}
Par == [servidor : BOOLEAN, worker : BOOLEAN]
Nenhum == [servidor |-> FALSE, worker |-> FALSE]
PassoStop == {"pedir", "tomar", "fechar", "juntar"}

TypeOKServico ==
  /\ controle \in PassoStop \cup {"inicio", "espera", "laco", "juntarRuntime", "fim", "falha", "saiu"}
  /\ runtime \in PassoStop \cup {"fora", "preparar", "publicar", "servir", "avisar", "fim", "falha"}
  /\ worker \in {"fora", "laco", "ciclo", "esperar", "fim"}
  /\ pedidoScm \in BOOLEAN /\ lancou \in BOOLEAN /\ erroSv \in BOOLEAN
  /\ sinal \in [{"parada", "worker", "parado"} -> BOOLEAN]
  /\ ref \in Par /\ levou \in [Quem -> Par]
  /\ escuta \in {"nenhuma", "aberta", "fechada"}

InitServico ==
  /\ controle = "inicio" /\ runtime = "fora" /\ worker = "fora"
  /\ pedidoScm = FALSE /\ lancou = FALSE /\ erroSv = FALSE
  /\ sinal = [s \in {"parada", "worker", "parado"} |-> FALSE]
  /\ ref = Nenhum /\ levou = [q \in Quem |-> Nenhum] /\ escuta = "nenhuma"

\* SvcStop, called by the SCM in a thread of its own
SvcStop ==
  /\ controle \notin {"fim", "falha", "saiu"} /\ ~pedidoScm /\ pedidoScm' = TRUE
  /\ UNCHANGED <<controle, runtime, worker, sinal, lancou, erroSv, ref, levou, escuta>>

-----------------------------------------------------------------------------
\* HubWaitressRuntime.stop, of the control thread and of the finally of run()

\* thread q goes from one place to another
Anda(q, de, para) ==
  IF q = "controle"
  THEN controle = de /\ controle' = para /\ UNCHANGED runtime
  ELSE runtime = de /\ runtime' = para /\ UNCHANGED controle

PedirParada(q) ==
  /\ Anda(q, "pedir", "tomar")
  /\ sinal' = [sinal EXCEPT !["parada"] = TRUE, !["worker"] = TRUE]
  /\ UNCHANGED <<worker, pedidoScm, lancou, erroSv, ref, levou, escuta>>

\* under the lock: what this caller takes, nobody else will
\* mutant: the references are read and not cleared
MutResta(r) == r
Resta(r) == Nenhum
Tomar(q) ==
  /\ Anda(q, "tomar", "fechar")
  /\ levou' = [levou EXCEPT ![q] = ref] /\ ref' = Resta(ref)
  /\ UNCHANGED <<worker, pedidoScm, sinal, lancou, erroSv, escuta>>

\* _shutdown_waitress_server closes the socket, its channels and the threads
\* of the requests; what fails there is logged and passed over
Fechar(q) ==
  /\ Anda(q, "fechar", "juntar")
  /\ escuta' = IF levou[q].servidor THEN "fechada" ELSE escuta
  /\ UNCHANGED <<worker, pedidoScm, sinal, lancou, erroSv, ref, levou>>

\* _join_thread ends with the worker or with its time limit
Juntar(q) ==
  /\ Anda(q, "juntar", IF q = "controle" THEN "juntarRuntime" ELSE "avisar")
  /\ UNCHANGED <<worker, pedidoScm, sinal, lancou, erroSv, ref, levou, escuta>>

-----------------------------------------------------------------------------
\* The thread of the runtime

\* bootstrap() refuses a hub under recovery; django or the port of the server
\* fail: _run_guarded keeps the error before it tells that it stopped
FalharInicio ==
  /\ runtime = "preparar" /\ runtime' = "falha"
  /\ erroSv' = TRUE /\ sinal' = [sinal EXCEPT !["parado"] = TRUE]
  /\ UNCHANGED <<controle, worker, pedidoScm, lancou, ref, levou, escuta>>

CriarServidor ==
  /\ runtime = "preparar" /\ runtime' = "publicar" /\ escuta' = "aberta"
  /\ UNCHANGED <<controle, worker, pedidoScm, sinal, lancou, erroSv, ref, levou>>

\* the section of run() under the lock: the server is closed at once when the
\* stop was asked for, else it is published and the worker begins
\* mutant: stop_requested is not looked at
MutJaPediram(s) == FALSE
JaPediram(s) == s["parada"]
Publicar ==
  /\ runtime = "publicar"
  /\ IF JaPediram(sinal)
     THEN /\ escuta' = "fechada" /\ runtime' = "fim"
          /\ sinal' = [sinal EXCEPT !["parado"] = TRUE]
          /\ UNCHANGED <<ref, worker>>
     ELSE /\ ref' = [servidor |-> TRUE, worker |-> TRUE]
          /\ worker' = "laco" /\ runtime' = "servir"
          /\ UNCHANGED <<escuta, sinal>>
  /\ UNCHANGED <<controle, pedidoScm, lancou, erroSv, levou>>

\* server.run() returns once its map is closed
Servir ==
  /\ runtime = "servir" /\ escuta = "fechada" /\ runtime' = "pedir"
  /\ UNCHANGED <<controle, worker, pedidoScm, sinal, lancou, erroSv, ref, levou, escuta>>

\* server.run() raises
FalharServidor ==
  /\ runtime = "servir" /\ runtime' = "pedir" /\ lancou' = TRUE
  /\ UNCHANGED <<controle, worker, pedidoScm, sinal, erroSv, ref, levou, escuta>>

\* the end of the finally of run(), then of _run_guarded
Avisar ==
  /\ \/ runtime = "avisar" /\ ~sinal["parado"]
        /\ sinal' = [sinal EXCEPT !["parado"] = TRUE]
        /\ runtime' = (IF lancou THEN "avisar" ELSE "fim") /\ UNCHANGED erroSv
     \/ runtime = "avisar" /\ sinal["parado"] /\ runtime' = "falha" /\ erroSv' = TRUE
        /\ UNCHANGED sinal
  /\ UNCHANGED <<controle, worker, pedidoScm, lancou, ref, levou, escuta>>

-----------------------------------------------------------------------------
\* The thread of the worker

\* the loop of SyncWorker.run reads its stop only here
Laco ==
  /\ worker = "laco" /\ worker' = (IF sinal["worker"] THEN "fim" ELSE "ciclo")
  /\ UNCHANGED <<controle, runtime, pedidoScm, sinal, lancou, erroSv, ref, levou, escuta>>

\* the cycle, which raises or not, and the wait of the interval
Ciclo ==
  /\ \/ worker = "ciclo" /\ worker' = "esperar"
     \/ worker = "esperar" /\ worker' = "laco"
  /\ UNCHANGED <<controle, runtime, pedidoScm, sinal, lancou, erroSv, ref, levou, escuta>>

-----------------------------------------------------------------------------
\* The control thread: SvcDoRun

\* start() clears the signals and begins the thread
IniciarRuntime ==
  /\ controle = "inicio" /\ controle' = "espera" /\ runtime' = "preparar"
  /\ sinal' = [s \in DOMAIN sinal |-> FALSE] /\ erroSv' = FALSE
  /\ UNCHANGED <<worker, pedidoScm, lancou, ref, levou, escuta>>

\* wait_started(30): its answer is not read
EsperarInicio ==
  /\ controle = "espera" /\ controle' = "laco"
  /\ UNCHANGED <<runtime, worker, pedidoScm, sinal, lancou, erroSv, ref, levou, escuta>>

\* the stop of the SCM, or the end of the runtime, with its error or without
Vigiar ==
  /\ controle = "laco"
  /\ \/ pedidoScm /\ controle' = "pedir"
     \/ ~pedidoScm /\ sinal["parado"] /\ controle' = (IF erroSv THEN "falha" ELSE "pedir")
  /\ UNCHANGED <<runtime, worker, pedidoScm, sinal, lancou, erroSv, ref, levou, escuta>>

\* join(30) ends with the runtime or with its time limit; SERVICE_STOPPED is
\* told in both cases
JuntarRuntime ==
  /\ controle = "juntarRuntime" /\ controle' = "fim"
  /\ UNCHANGED <<runtime, worker, pedidoScm, sinal, lancou, erroSv, ref, levou, escuta>>

\* the interpreter waits for the runtime, not for the worker, which is a daemon
Sair ==
  /\ controle \in {"fim", "falha"} /\ runtime \in {"fim", "falha"}
  /\ controle' = "saiu" /\ worker' = "fim" /\ escuta' = "fechada"
  /\ UNCHANGED <<runtime, pedidoScm, sinal, lancou, erroSv, ref, levou>>

NextServico ==
  \/ SvcStop \/ IniciarRuntime \/ EsperarInicio \/ Vigiar \/ JuntarRuntime \/ Sair
  \/ \E q \in Quem : PedirParada(q) \/ Tomar(q) \/ Fechar(q) \/ Juntar(q)
  \/ FalharInicio \/ CriarServidor \/ Publicar \/ Servir \/ FalharServidor \/ Avisar
  \/ Laco \/ Ciclo

SpecServico == InitServico /\ [][NextServico]_varsServico

\* The threads run: every wait of the control thread has a time limit or polls,
\* the start of the runtime ends well or badly, and a closed server returns.
JustoServico ==
  /\ WF_varsServico(IniciarRuntime \/ EsperarInicio \/ Vigiar \/ JuntarRuntime \/ Sair)
  /\ WF_varsServico(FalharInicio \/ CriarServidor \/ Publicar \/ Servir \/ Avisar)
  /\ \A q \in Quem : WF_varsServico(PedirParada(q) \/ Tomar(q) \/ Fechar(q) \/ Juntar(q))

-----------------------------------------------------------------------------
\* When the service is told to be stopped, nothing it published survives it:
\* the stop was taken by one caller only, nothing is published after the
\* control thread took what there was, the worker begins no cycle it was not
\* allowed to, and a runtime that has ended has left its port
\* (HubWaitressRuntime.stop and the section of run() under the lock).
ParadaInteira ==
  /\ ~ (levou["controle"].servidor /\ levou["runtime"].servidor)
  /\ controle \in {"fechar", "juntar", "juntarRuntime", "fim"} => ref = Nenhum
  /\ controle \in {"fim", "falha", "saiu"} =>
       /\ worker \in {"fora", "fim"} \/ sinal["worker"]
       /\ runtime \in {"fim", "falha"} => escuta # "aberta"

\* A stop of the SCM ends the process, whatever the runtime was doing: it is
\* still starting, it serves, or it is failing (SvcDoRun, stop, run).
ParadaAlcanca == JustoServico => (pedidoScm ~> controle = "saiu")

=============================================================================
