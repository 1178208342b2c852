---------------------------- MODULE MCProgresso ----------------------------
(***************************************************************************)
(* The components that must make progress, in one run: the cycle of the     *)
(* worker, the balance and its import, the sending of backups, the assisted *)
(* recovery, the stop of the service.  They share no variable: the initial  *)
(* state chooses one, the others stay still.  Each property of progress     *)
(* assumes the fairness its module states.                                  *)
(***************************************************************************)
EXTENDS Comandos, Estoque, Transmissao, Recuperacao, Servico

VARIABLE parte

varsProgresso == <<parte, varsComandos, varsEstoque, varsTransmissao, varsRecuperacao, varsServico>>

InitProgresso ==
  /\ parte \in {"comandos", "estoque", "transmissao", "recuperacao", "servico"}
  /\ InitComandos /\ InitEstoque /\ InitTransmissao /\ InitRecuperacao
  /\ InitServico

NextProgresso ==
  /\ UNCHANGED parte
  /\ \/ /\ parte = "comandos" /\ NextComandos
        /\ UNCHANGED <<varsEstoque, varsTransmissao, varsRecuperacao, varsServico>>
     \/ /\ parte = "estoque" /\ NextEstoque
        /\ UNCHANGED <<varsComandos, varsTransmissao, varsRecuperacao, varsServico>>
     \/ /\ parte = "transmissao" /\ NextTransmissao
        /\ UNCHANGED <<varsComandos, varsEstoque, varsRecuperacao, varsServico>>
     \/ /\ parte = "recuperacao" /\ NextRecuperacao
        /\ UNCHANGED <<varsComandos, varsEstoque, varsTransmissao, varsServico>>
     \/ /\ parte = "servico" /\ NextServico
        /\ UNCHANGED <<varsComandos, varsEstoque, varsTransmissao, varsRecuperacao>>

SpecProgresso == InitProgresso /\ [][NextProgresso]_varsProgresso

\* Every variable of the commands, of the sending, of the recovery and of the
\* service has the values of its type.
TypeOKProgresso == TypeOKComandos /\ TypeOKTransmissao /\ TypeOKRecuperacao /\ TypeOKServico

============================================================================
