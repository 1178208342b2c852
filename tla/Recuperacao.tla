---------------------------- MODULE Recuperacao ----------------------------
(***************************************************************************)
(* The assisted recovery of a hub, runtime/recovery.py: a program run by    *)
(* the support imports a full backup and its increments, in order and in    *)
(* one session of mysql, into an empty database, while a marker keeps the   *)
(* hub from operating (recovery_guard.py).                                  *)
(*                                                                         *)
(* The program writes what it has reached in a file; it may fail or be      *)
(* killed at every step.  A session of mysql outlives the program that      *)
(* feeds it: what was sent goes on being executed.  The package is taken    *)
(* for valid (load_package) and a segment for two pieces of SQL.            *)
(***************************************************************************)
EXTENDS Naturals, Sequences

CONSTANTS
  Executor,   \* processes of the program
  NumSegmento \* files of the package

ASSUME ConstantesRecuperacao == NumSegmento \in Nat \ {0}

VARIABLES
  bloqueio,  \* recovery-block.json exists
  estadoRec, \* status in recovery-state.json, or SEM_ARQUIVO
  executor,  \* step and segment of each process
  sessaoSql, \* its session of mysql: open, and the pieces not executed yet
  destino    \* the pieces executed in the database of the destination

varsRecuperacao == <<bloqueio, estadoRec, executor, sessaoSql, destino>>

Segmento(s) == <<2 * s - 1, 2 * s>>
Cadeia == [i \in 1..(2 * NumSegmento) |-> i]

TypeOKRecuperacao ==
  /\ bloqueio \in BOOLEAN
  /\ estadoRec \in {"SEM_ARQUIVO", "PRE_VERIFICADO", "IMPORTANDO", "SEGMENTO_CONFIRMADO",
                    "CONFERENCIA_LOGICA", "RESTAURADO_BLOQUEADO", "FALHA_SUPORTE"}
  /\ executor \in [Executor -> [passo : {"livre", "preparar", "abrir", "importar", "confirmar",
                                         "encerrar", "conferir"}, seg : 1..NumSegmento]]
  /\ sessaoSql \in [Executor -> [aberta : BOOLEAN, resto : Seq(1..(2 * NumSegmento))]]
  /\ destino \in Seq(1..(2 * NumSegmento))

InitRecuperacao ==
  /\ bloqueio = TRUE
  /\ estadoRec = "SEM_ARQUIVO"
  /\ executor = [e \in Executor |-> [passo |-> "livre", seg |-> 1]]
  /\ sessaoSql = [e \in Executor |-> [aberta |-> FALSE, resto |-> <<>>]]
  /\ destino = <<>>

-----------------------------------------------------------------------------
(* recover *)

Passo(e, p) == executor' = [executor EXCEPT ![e].passo = p]

\* verify_target: the sessions other than its own, and the objects of the schema
\* mutants: either is left out
MutSemOutraSessao == TRUE
SemOutraSessao == \A f \in Executor : ~sessaoSql[f].aberta
MutDestinoVazio == TRUE
DestinoVazio == destino = <<>>

\* recovery_lock, and the first verify_target
Iniciar(e) ==
  /\ bloqueio
  /\ \A f \in Executor : executor[f].passo = "livre"
  /\ ~sessaoSql[e].aberta
  /\ SemOutraSessao /\ DestinoVazio
  /\ Passo(e, "preparar")
  /\ UNCHANGED <<bloqueio, estadoRec, sessaoSql, destino>>

\* an earlier attempt: the support asks in the plan to go on, except after a
\* restoration
Preparar(e) ==
  /\ executor[e].passo = "preparar"
  /\ \E resume_after_support \in BOOLEAN :
       estadoRec = "SEM_ARQUIVO" \/ (resume_after_support /\ estadoRec # "RESTAURADO_BLOQUEADO")
  /\ estadoRec' = "PRE_VERIFICADO"
  /\ Passo(e, "abrir")
  /\ UNCHANGED <<bloqueio, sessaoSql, destino>>

\* PREVIOUS_ATTEMPT_REQUIRES_SUPPORT, or the dry run
RecusarTentativa(e) ==
  /\ executor[e].passo = "preparar"
  /\ Passo(e, "livre")
  /\ UNCHANGED <<bloqueio, estadoRec, sessaoSql, destino>>

\* the second verify_target, and the check made in the session that imports
AbrirSessao(e) ==
  /\ executor[e].passo = "abrir"
  /\ SemOutraSessao /\ DestinoVazio
  /\ sessaoSql' = [sessaoSql EXCEPT ![e] = [aberta |-> TRUE, resto |-> <<>>]]
  /\ executor' = [executor EXCEPT ![e] = [passo |-> "importar", seg |-> 1]]
  /\ UNCHANGED <<bloqueio, estadoRec, destino>>

\* import_chain: a segment is written to the session
ImportarSegmento(e) ==
  /\ executor[e].passo = "importar"
  /\ estadoRec' = "IMPORTANDO"
  /\ sessaoSql' = [sessaoSql EXCEPT ![e].resto = @ \o Segmento(executor[e].seg)]
  /\ Passo(e, "confirmar")
  /\ UNCHANGED <<bloqueio, destino>>

\* await_ack: the answer of the query that follows the segment
Confirmada(e) == sessaoSql[e].aberta /\ sessaoSql[e].resto = <<>>

Confirmar(e) ==
  /\ executor[e].passo = "confirmar"
  /\ Confirmada(e)
  /\ estadoRec' = "SEGMENTO_CONFIRMADO"
  /\ executor' = [executor EXCEPT ![e] = IF @.seg < NumSegmento
                                         THEN [passo |-> "importar", seg |-> @.seg + 1]
                                         ELSE [@ EXCEPT !.passo = "encerrar"]]
  /\ UNCHANGED <<bloqueio, sessaoSql, destino>>

Encerrar(e) ==
  /\ executor[e].passo = "encerrar"
  /\ sessaoSql' = [sessaoSql EXCEPT ![e].aberta = FALSE]
  /\ estadoRec' = "CONFERENCIA_LOGICA"
  /\ Passo(e, "conferir")
  /\ UNCHANGED <<bloqueio, destino>>

\* verify_target and logical_check, which sees tables and keys, not segments
Conferir(e) ==
  /\ executor[e].passo = "conferir"
  /\ SemOutraSessao
  /\ estadoRec' = "RESTAURADO_BLOQUEADO"
  /\ Passo(e, "livre")
  /\ UNCHANGED <<bloqueio, sessaoSql, destino>>

\* any exception after PRE_VERIFICADO; the client of mysql is killed, and the
\* server ends the statement it is executing
Falhar(e) ==
  /\ executor[e].passo \notin {"livre", "preparar"}
  /\ estadoRec' = "FALHA_SUPORTE"
  /\ Passo(e, "livre")
  /\ LET r == sessaoSql[e].resto
     IN sessaoSql' = [sessaoSql EXCEPT ![e].resto = SubSeq(r, 1, IF r = <<>> THEN 0 ELSE 1)]
  /\ UNCHANGED <<bloqueio, destino>>

\* the program is killed: the lock is free, the file and the session stay
Matar(e) ==
  /\ executor[e].passo # "livre"
  /\ Passo(e, "livre")
  /\ UNCHANGED <<bloqueio, estadoRec, sessaoSql, destino>>

-----------------------------------------------------------------------------
(* External: the server of mysql, the support *)

ExecutarPedaco(e) ==
  /\ sessaoSql[e].aberta /\ sessaoSql[e].resto # <<>>
  /\ destino' = Append(destino, Head(sessaoSql[e].resto))
  /\ sessaoSql' = [sessaoSql EXCEPT ![e].resto = Tail(@)]
  /\ UNCHANGED <<bloqueio, estadoRec, executor>>

\* an error of SQL or the end of the input
FecharSessaoSql(e) ==
  /\ sessaoSql[e].aberta
  /\ sessaoSql[e].resto # <<>> \/ executor[e].passo = "livre"
  /\ sessaoSql' = [sessaoSql EXCEPT ![e] = [aberta |-> FALSE, resto |-> <<>>]]
  /\ UNCHANGED <<bloqueio, estadoRec, executor, destino>>

\* the support prepares an empty database for another attempt
Esvaziar ==
  /\ bloqueio /\ estadoRec # "RESTAURADO_BLOQUEADO"
  /\ \A e \in Executor : executor[e].passo = "livre"
  /\ destino # <<>>
  /\ destino' = <<>>
  /\ UNCHANGED <<bloqueio, estadoRec, executor, sessaoSql>>

Liberar ==
  /\ bloqueio /\ estadoRec = "RESTAURADO_BLOQUEADO"
  /\ \A e \in Executor : executor[e].passo = "livre"
  /\ bloqueio' = FALSE
  /\ UNCHANGED <<estadoRec, executor, sessaoSql, destino>>

PassoRecover(e) ==
  \/ Iniciar(e) \/ Preparar(e) \/ RecusarTentativa(e) \/ AbrirSessao(e) \/ ImportarSegmento(e) \/ Confirmar(e)
  \/ Encerrar(e) \/ Conferir(e) \/ Falhar(e) \/ Matar(e)
NextRecuperacao ==
  \/ \E e \in Executor : PassoRecover(e) \/ ExecutarPedaco(e) \/ FecharSessaoSql(e)
  \/ Esvaziar \/ Liberar
SpecRecuperacao == InitRecuperacao /\ [][NextRecuperacao]_varsRecuperacao

-----------------------------------------------------------------------------
(* Properties *)

\* A database is called restored, and the hub may operate on it, only if every
\* segment of the package was executed in it, whole, once and in order, whatever
\* attempts failed or were killed before and whatever their sessions of mysql
\* still execute (recover, verify_target, import_chain).
RestauradoCompleto ==
  estadoRec = "RESTAURADO_BLOQUEADO" \/ ~bloqueio => destino = Cadeia
============================================================================
