CONSTANTS
  v1 = v1
  v2 = v2
  v3 = v3
  d1 = d1
  d2 = d2
  n1 = n1
  worker = worker
  comando = comando
  manual = manual
  Venda = {v1, v2}
  Devolucao = {d1}
  Nota = {n1}
  Chamador = {worker}
  Manual = {}
  VendaDaNota <- MCVendaDaNota
  Nenhuma = Nenhuma
  Nada = Nada
  Limite = 1
  MaxQuedas = 1
  RespostasCentral = {"OK", "INVALIDO"}
SPECIFICATION Spec
INVARIANTS
  VendaComValeOficial
PROPERTIES
  CreditoSpec
CHECK_DEADLOCK FALSE
