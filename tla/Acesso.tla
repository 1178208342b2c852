------------------------------- MODULE Acesso -------------------------------
(***************************************************************************)
(* Who may talk to whom: the credential of the hub at the Central          *)
(* (ativacao.py, sync_worker.py), the pairing of terminals (terminais.py)  *)
(* and the sessions of operators (core and integracao/services/            *)
(* operadores.py).  Tokens are numbered by what made them: the credential  *)
(* by its activation, the token of a terminal by its pairing code.         *)
(***************************************************************************)
EXTENDS Naturals

CONSTANTS
  TerminalAc, CodigoAc, OperadorAc, SessaoAc,
  LoginAc,          \* logins the hub serves at once
  NuloAc,           \* no terminal, no code, no session
  MaxAtivacao,      \* bound of the model: activations
  MaxSenha          \* bound of the model: credentials of an operator

ASSUME ConstantesAcesso ==
  /\ NuloAc \notin TerminalAc \cup CodigoAc \cup OperadorAc \cup SessaoAc
  /\ MaxAtivacao \in Nat \ {0} /\ MaxSenha \in Nat \ {0}

VARIABLES
  credHub,     \* HubConfig.retaguarda_token: its activation, 0 when empty
  credCentral, \* the credential the Central accepts
  ativacoes,   \* activations so far
  pedido,      \* the credential the heartbeat that waits was sent with
  terminalAc,  \* Terminal: ativo, token
  codigo,      \* PareamentoTerminal; antigo: its terminal was deactivated since
  pedidoPar,   \* codes with a request of parear_terminal that read the clock in time
  operadorAc,  \* OperadorHub: ativo, credencial_hash
  operadorCentral, \* the operator at the Central
  sessaoAc,    \* SessaoOperadorHub
  login,       \* autenticar_operador_terminal in progress
  feita        \* history of the login of a session: the sessions of its terminal saved
               \* after it ended the others and before its own; whether it ended none

varsAcesso == <<credHub, credCentral, ativacoes, pedido, terminalAc, codigo, pedidoPar,
                operadorAc, operadorCentral, sessaoAc, login, feita>>
varsCred == <<credHub, credCentral, ativacoes, pedido>>
varsPar == <<terminalAc, codigo, pedidoPar>>
varsOper == <<operadorAc, operadorCentral, sessaoAc, login, feita>>

SemLogin == [passo |-> "livre"]
Login == {SemLogin}
   \cup [passo : {"lido"}, terminal : TerminalAc, operador : OperadorAc, senha : 1..MaxSenha]
   \cup [passo : {"gravar"}, terminal : TerminalAc, operador : OperadorAc, senha : 1..MaxSenha,
         fim : SUBSET SessaoAc, juntas : SUBSET SessaoAc]

TypeOKAcesso ==
  /\ credHub \in 0..MaxAtivacao /\ credCentral \in 0..MaxAtivacao
  /\ ativacoes \in 0..MaxAtivacao /\ pedido \in 0..MaxAtivacao
  /\ terminalAc \in [TerminalAc -> [ativo : BOOLEAN, token : CodigoAc \cup {NuloAc}]]
  /\ codigo \in [CodigoAc -> [terminal : TerminalAc \cup {NuloAc}, expirado : BOOLEAN, antigo : BOOLEAN,
                              status : {"NENHUM", "VIVO", "USADO", "REVOGADO"}]]
  /\ pedidoPar \in SUBSET CodigoAc
  /\ operadorAc \in [OperadorAc -> [ativo : BOOLEAN, senha : 0..MaxSenha]]
  /\ operadorCentral \in [OperadorAc -> [ativo : BOOLEAN, senha : 1..MaxSenha]]
  /\ sessaoAc \in [SessaoAc -> [terminal : TerminalAc \cup {NuloAc}, operador : OperadorAc \cup {NuloAc},
                                senha : 0..MaxSenha, ativa : BOOLEAN]]
  /\ login \in [LoginAc -> Login]
  /\ feita \in [SessaoAc -> [juntas : SUBSET SessaoAc, livre : BOOLEAN]]

InitAcesso ==
  /\ credHub = 1 /\ credCentral = 1 /\ ativacoes = 1 /\ pedido = 0
  /\ terminalAc = [t \in TerminalAc |-> [ativo |-> TRUE, token |-> NuloAc]]
  /\ codigo = [c \in CodigoAc |-> [terminal |-> NuloAc, expirado |-> FALSE, antigo |-> FALSE,
                                   status |-> "NENHUM"]]
  /\ pedidoPar = {}
  /\ operadorAc = [o \in OperadorAc |-> [ativo |-> TRUE, senha |-> 1]]
  /\ operadorCentral = operadorAc
  /\ sessaoAc = [s \in SessaoAc |-> [terminal |-> NuloAc, operador |-> NuloAc,
                                     senha |-> 0, ativa |-> FALSE]]
  /\ login = [q \in LoginAc |-> SemLogin]
  /\ feita = [s \in SessaoAc |-> [juntas |-> {}, livre |-> FALSE]]

-----------------------------------------------------------------------------
(* Pairing *)

Vivo(c) == codigo[c].status = "VIVO" /\ ~codigo[c].expirado

\* the codes invalidar_identidade_terminal revokes
\* mutant: they stay good for a later pairing
MutARevogar(T) == {}
ARevogar(T) == {c \in CodigoAc : codigo[c].terminal \in T /\ Vivo(c)}

\* the status of PareamentoTerminal
Revogados(C) == [c \in CodigoAc |-> IF c \in C THEN [codigo[c] EXCEPT !.status = "REVOGADO"] ELSE codigo[c]]

\* invalidar_identidade_terminal of each terminal of T
Invalidar(T) ==
  /\ terminalAc' = [t \in TerminalAc |-> IF t \in T THEN [ativo |-> FALSE, token |-> NuloAc]
                                         ELSE terminalAc[t]]
  /\ codigo' = [c \in CodigoAc |-> [Revogados(ARevogar(T))[c] EXCEPT !.antigo = @ \/ codigo[c].terminal \in T]]

\* the command reads hub.ativo before, without a lock
ConfigurarTerminalAc(t) ==
  /\ ~terminalAc[t].ativo
  /\ terminalAc' = [terminalAc EXCEPT ![t].ativo = TRUE]
  /\ UNCHANGED <<varsCred, codigo, pedidoPar, varsOper>>

DesativarTerminal(t) ==
  /\ terminalAc[t].ativo
  /\ Invalidar({t})
  /\ UNCHANGED <<varsCred, pedidoPar, varsOper>>

GerarPareamento(t, c) ==
  /\ terminalAc[t].ativo
  /\ codigo[c].status = "NENHUM"
  /\ codigo' = [Revogados(ARevogar({t})) EXCEPT ![c] = [terminal |-> t, expirado |-> FALSE,
                                                        antigo |-> FALSE, status |-> "VIVO"]]
  /\ UNCHANGED <<varsCred, terminalAc, pedidoPar, varsOper>>

Expirar(c) ==
  /\ Vivo(c)
  /\ codigo' = [codigo EXCEPT ![c].expirado = TRUE]
  /\ UNCHANGED <<varsCred, terminalAc, pedidoPar, varsOper>>

\* parear_terminal reads the clock before it waits for the row of the code; a
\* request that read it too late is refused
PedirPareamento(c) ==
  /\ Vivo(c) /\ c \notin pedidoPar
  /\ pedidoPar' = pedidoPar \cup {c}
  /\ UNCHANGED <<varsCred, terminalAc, codigo, varsOper>>

Pareavel(c) == codigo[c].status = "VIVO" /\ terminalAc[codigo[c].terminal].ativo

\* the row of the code is locked with those of its terminal and of the hub
Parear(c) ==
  /\ c \in pedidoPar /\ Pareavel(c)
  /\ pedidoPar' = pedidoPar \ {c}
  /\ terminalAc' = [terminalAc EXCEPT ![codigo[c].terminal].token = c]
  /\ codigo' = [codigo EXCEPT ![c].status = "USADO"]
  /\ UNCHANGED <<varsCred, varsOper>>

PareamentoRecusado(c) ==
  /\ c \in pedidoPar /\ ~Pareavel(c)
  /\ pedidoPar' = pedidoPar \ {c}
  /\ UNCHANGED <<varsCred, terminalAc, codigo, varsOper>>

-----------------------------------------------------------------------------
(* The credential of the hub *)

\* ativar_hub_local; the Central replaces the credential it had
AtivarHub ==
  /\ ativacoes < MaxAtivacao
  /\ ativacoes' = ativacoes + 1
  /\ credHub' = ativacoes + 1
  /\ credCentral' = ativacoes + 1
  /\ UNCHANGED <<pedido, varsPar, varsOper>>

RevogarNaCentral ==
  /\ credCentral # 0
  /\ credCentral' = 0
  /\ UNCHANGED <<credHub, ativacoes, pedido, varsPar, varsOper>>

\* executar_ciclo with the row it read
PedirHeartbeat ==
  /\ credHub # 0 /\ pedido = 0
  /\ pedido' = credHub
  /\ UNCHANGED <<credHub, credCentral, ativacoes, varsPar, varsOper>>

HeartbeatAceito ==
  /\ pedido # 0 /\ pedido = credCentral
  /\ pedido' = 0
  /\ UNCHANGED <<credHub, credCentral, ativacoes, varsPar, varsOper>>

\* a failure that says nothing of the credential: HTTP error, no connection
HeartbeatFalhou ==
  /\ pedido # 0
  /\ pedido' = 0
  /\ UNCHANGED <<credHub, credCentral, ativacoes, varsPar, varsOper>>

\* marcar_credencial_hub_revogada after RetaguardaCredencialInvalidaError
HeartbeatRecusado ==
  /\ pedido # 0 /\ pedido # credCentral
  /\ credHub' = 0
  /\ pedido' = 0
  /\ Invalidar(TerminalAc)
  /\ UNCHANGED <<credCentral, ativacoes, pedidoPar, varsOper>>

-----------------------------------------------------------------------------
(* Operators *)

CentralMudaOperador(o) ==
  /\ \/ /\ operadorCentral[o].senha < MaxSenha
        /\ operadorCentral' = [operadorCentral EXCEPT ![o].senha = @ + 1]
     \/ operadorCentral' = [operadorCentral EXCEPT ![o].ativo = ~@]
  /\ UNCHANGED <<varsCred, varsPar, operadorAc, sessaoAc, login, feita>>

AtivasDe(t) == {s \in SessaoAc : sessaoAc[s].ativa /\ sessaoAc[s].terminal = t}
TravadasAc == UNION {login[q].fim : q \in {x \in LoginAc : login[x].passo = "gravar"}}
Encerradas(S) == [s \in SessaoAc |-> IF s \in S THEN [sessaoAc[s] EXCEPT !.ativa = FALSE] ELSE sessaoAc[s]]

\* operators whose sessions sincronizar_operadores ends
Revogaveis == {o \in OperadorAc : operadorAc[o].ativo /\ operadorCentral[o] # operadorAc[o]}
DeOperadores(O) == {s \in SessaoAc : sessaoAc[s].ativa /\ sessaoAc[s].operador \in O}

ImportarOperadores ==
  /\ operadorAc' = [o \in OperadorAc |-> IF operadorCentral[o].ativo THEN operadorCentral[o]
                                         ELSE [ativo |-> FALSE, senha |-> 0]]
  /\ DeOperadores(Revogaveis) \cap TravadasAc = {}
  /\ sessaoAc' = Encerradas(DeOperadores(Revogaveis))
  /\ UNCHANGED <<varsCred, varsPar, operadorCentral, login, feita>>

\* autenticar_operador_terminal: the operator is read before the transaction
LoginLer(q, t, o) ==
  /\ login[q] = SemLogin
  /\ terminalAc[t].token # NuloAc
  /\ operadorAc[o].ativo
  /\ login' = [login EXCEPT ![q] = [passo |-> "lido", terminal |-> t, operador |-> o,
                                    senha |-> operadorAc[o].senha]]
  /\ UNCHANGED <<varsCred, varsPar, operadorAc, operadorCentral, sessaoAc, feita>>

\* the sessions a new login ends
\* mutant: those of the operator instead of those of the terminal
MutAEncerrar(t, o) == AtivasDe(t) \cap DeOperadores({o})
AEncerrar(t, o) == AtivasDe(t)

\* it waits for the rows that another login has locked
LoginEncerrar(q) ==
  /\ login[q].passo = "lido"
  /\ AtivasDe(login[q].terminal) \cap TravadasAc = {}
  /\ login' = [login EXCEPT ![q] = [passo |-> "gravar", terminal |-> login[q].terminal,
                                    operador |-> login[q].operador, senha |-> login[q].senha,
                                    fim |-> AEncerrar(login[q].terminal, login[q].operador),
                                    juntas |-> {}]]
  /\ UNCHANGED <<varsCred, varsPar, operadorAc, operadorCentral, sessaoAc, feita>>

\* the logins of a terminal between the two steps, but q
Juntos(q) == {x \in LoginAc \ {q} : login[x].passo = "gravar" /\ login[x].terminal = login[q].terminal}

LoginGravar(q, s) ==
  /\ login[q].passo = "gravar"
  /\ sessaoAc[s].terminal = NuloAc
  /\ sessaoAc' = [Encerradas(login[q].fim) EXCEPT
                    ![s] = [terminal |-> login[q].terminal, operador |-> login[q].operador,
                            senha |-> login[q].senha, ativa |-> TRUE]]
  /\ feita' = [feita EXCEPT ![s] = [juntas |-> login[q].juntas, livre |-> login[q].fim = {}]]
  /\ login' = [x \in LoginAc |->
                 IF x = q THEN SemLogin
                 ELSE IF x \in Juntos(q) THEN [login[x] EXCEPT !.juntas = @ \cup {s}] ELSE login[x]]
  /\ UNCHANGED <<varsCred, varsPar, operadorAc, operadorCentral>>

\* validar_sessao_operador
AceitaAc(s) ==
  /\ sessaoAc[s].ativa /\ operadorAc[sessaoAc[s].operador].ativo
  /\ terminalAc[sessaoAc[s].terminal].token # NuloAc

EncerrarSessao(s) ==
  /\ sessaoAc[s].ativa /\ AceitaAc(s)
  /\ s \notin TravadasAc
  /\ sessaoAc' = Encerradas({s})
  /\ UNCHANGED <<varsCred, varsPar, operadorAc, operadorCentral, login, feita>>

NextAcesso ==
  \/ \E t \in TerminalAc :
       \/ ConfigurarTerminalAc(t) \/ DesativarTerminal(t)
       \/ \E c \in CodigoAc : GerarPareamento(t, c)
       \/ \E q \in LoginAc, o \in OperadorAc : LoginLer(q, t, o)
  \/ \E c \in CodigoAc : Expirar(c) \/ PedirPareamento(c) \/ Parear(c) \/ PareamentoRecusado(c)
  \/ AtivarHub \/ RevogarNaCentral
  \/ PedirHeartbeat \/ HeartbeatAceito \/ HeartbeatFalhou \/ HeartbeatRecusado
  \/ \E o \in OperadorAc : CentralMudaOperador(o)
  \/ ImportarOperadores
  \/ \E q \in LoginAc : LoginEncerrar(q) \/ \E s \in SessaoAc : LoginGravar(q, s)
  \/ \E s \in SessaoAc : EncerrarSessao(s)
SpecAcesso == InitAcesso /\ [][NextAcesso]_varsAcesso

-----------------------------------------------------------------------------
(* Properties *)

\* A terminal that was deactivated, or whose hub lost its credential, comes
\* back only with a code generated after that.  The one exception is a code that
\* had expired before and a request of its that waits since it was good: no code
\* that could still be used then pairs it again (terminais.py
\* invalidar_identidade_terminal, parear_terminal).
IdentidadeNova ==
  \A t \in TerminalAc : terminalAc[t].token # NuloAc =>
    /\ terminalAc[t].ativo
    /\ codigo[terminalAc[t].token].antigo => codigo[terminalAc[t].token].expirado

\* A terminal has one operator at a time, whatever imports and logouts do between
\* the steps of its logins.  Two sessions of it are only left by logins served at
\* once: one saved its session after the other had ended those it found, and one
\* of the two had found none to lock (operadores.py autenticar_operador_terminal,
\* sincronizar_operadores).
SessaoUnica ==
  \A r, s \in SessaoAc :
    r # s /\ sessaoAc[r].ativa /\ sessaoAc[s].ativa /\ sessaoAc[r].terminal = sessaoAc[s].terminal =>
      /\ r \in feita[s].juntas \/ s \in feita[r].juntas
      /\ feita[r].livre \/ feita[s].livre

\* Who acts in the store is who was let in last: one operator of a terminal, by
\* an identity given after its last deactivation, but for the logins and the
\* requests that were served at once (terminais.py, operadores.py).
AcessoUnico == IdentidadeNova /\ SessaoUnica
=============================================================================
