CONSTANTS
  VendaEst = {e1, e2}
  DevolEst = {}
  RecebEst = {r1}
  NadaEst = NadaEst
  SaldoInicial = 2
  QtdReceb = 1
  MaxQtd = 2
  CargaDurante = TRUE
SPECIFICATION SpecEstoque
INVARIANTS
  SemVendaAlem
CHECK_DEADLOCK FALSE
