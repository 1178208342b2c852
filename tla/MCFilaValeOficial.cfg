CONSTANTS
  v1 = v1
  v2 = v2
  v3 = v3
  d1 = d1
  d2 = d2
  n1 = n1
  worker = worker
  comando = comando
  manual = manual
  Venda = {v1, v2}
  Devolucao = {d1}
  Nota = {}
  Chamador = {worker, comando}
  Manual = {}
  VendaDaNota <- MCVendaDaNota
  Nenhuma = Nenhuma
  Nada = Nada
  Limite = 3
  MaxQuedas = 0
  RespostasCentral = {"OK", "ERRO"}
SPECIFICATION Spec
INVARIANTS
  VendaComValeOficial
CHECK_DEADLOCK FALSE
