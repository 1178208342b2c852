------------------------------ MODULE MCApoio ------------------------------
(***************************************************************************)
(* What supports the sale, in one run: the mirror of the tables of the      *)
(* Central and of the product images, the selections of a service, the      *)
(* local backups, the installation of the machine under the administrative  *)
(* scripts, the copies that payments make of their form while it is         *)
(* imported, the receipts of goods.  They share no variable: the initial    *)
(* state chooses one and the others stay still.                             *)
(***************************************************************************)
EXTENDS Espelho, Imagens, Atendimento, Copia, Instalacao, Retrato, Recebimento

CONSTANTS a1, a2, b1, b2, c1, c2, l1, l2, p1, p2

VARIABLE parte

varsApoio == <<parte, varsEspelho, varsImagens, varsAtendimento, varsCopia, varsInstalacao,
               varsRetrato, varsRecebimento>>

\* Recebimento: one receipt of each origin
MCReceb == {<<"LOJA", 1>>, <<"DISTRIBUICAO", 2>>}

\* Imagens: versions 2 and 3 differ after their last dot only
MCNomeVersao == [v \in 1..3 |-> IF v = 1 THEN 1 ELSE 2]

\* Retrato: instalments allowed or not, a term that goes, a form that goes
MCCadastros ==
  {[formas |-> {l1, l2}, parceladas |-> {l2}, prazos |-> {p1}, condicoes |-> {<<l2, p1>>}],
   [formas |-> {l1, l2}, parceladas |-> {l1, l2}, prazos |-> {p1, p2},
    condicoes |-> {<<l2, p2>>, <<l1, p1>>}],
   [formas |-> {l2}, parceladas |-> {}, prazos |-> {p1}, condicoes |-> {}]}

InitApoio ==
  /\ parte \in {"espelho", "imagens", "atendimento", "copia", "instalacao", "retrato",
               "recebimento"}
  /\ InitEspelho /\ InitImagens /\ InitAtendimento /\ InitCopia /\ InitInstalacao
  /\ InitRetrato /\ InitRecebimento
  /\ parte # "espelho" => familiaE = "cliente"

NextApoio ==
  /\ UNCHANGED parte
  /\ \/ /\ parte = "espelho" /\ NextEspelho
        /\ UNCHANGED <<varsImagens, varsAtendimento, varsCopia, varsInstalacao, varsRetrato, varsRecebimento>>
     \/ /\ parte = "imagens" /\ NextImagens
        /\ UNCHANGED <<varsEspelho, varsAtendimento, varsCopia, varsInstalacao, varsRetrato, varsRecebimento>>
     \/ /\ parte = "atendimento" /\ NextAtendimento
        /\ UNCHANGED <<varsEspelho, varsImagens, varsCopia, varsInstalacao, varsRetrato, varsRecebimento>>
     \/ /\ parte = "copia" /\ NextCopia
        /\ UNCHANGED <<varsEspelho, varsImagens, varsAtendimento, varsInstalacao, varsRetrato, varsRecebimento>>
     \/ /\ parte = "instalacao" /\ NextInstalacao
        /\ UNCHANGED <<varsEspelho, varsImagens, varsAtendimento, varsCopia, varsRetrato, varsRecebimento>>
     \/ /\ parte = "retrato" /\ NextRetrato
        /\ UNCHANGED <<varsEspelho, varsImagens, varsAtendimento, varsCopia, varsInstalacao,
                        varsRecebimento>>
     \/ /\ parte = "recebimento" /\ NextRecebimento
        /\ UNCHANGED <<varsEspelho, varsImagens, varsAtendimento, varsCopia, varsInstalacao,
                        varsRetrato>>

SpecApoio == InitApoio /\ [][NextApoio]_varsApoio

\* the values of every component that may be exchanged for one another
SimetriaApoio ==
  Permutations({a1, a2}) \cup Permutations({b1, b2}) \cup Permutations({c1, c2})

\* Every variable of the component that moves has the values of its type.
TypeOKApoio ==
  CASE parte = "espelho" -> TypeOKEspelho
    [] parte = "imagens" -> TypeOKImagens
    [] parte = "atendimento" -> TypeOKAtendimento
    [] parte = "copia" -> TypeOKCopia
    [] parte = "instalacao" -> TypeOKInstalacao
    [] parte = "retrato" -> TypeOKRetrato
    [] parte = "recebimento" -> TypeOKRecebimento

============================================================================
