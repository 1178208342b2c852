CONSTANTS
  CmdSync = {k1}
  CmdAdmin = {a1, a2}
  NadaCmd = NadaCmd
  MaxEtapa = 2
  MaxQuedaCmd = 1
  MaxRecusa = 1
  VendaEst = {e1}
  DevolEst = {d1, d2}
  RecebEst = {r1}
  NadaEst = NadaEst
  SaldoInicial = 2
  QtdReceb = 1
  MaxQtd = 2
  CargaDurante = TRUE
  NumArquivo = 3
  NumParte = 2
  Orcamento = 3
  MaxFalhaTr = 3
  MaxExpira = 1
  Executor = {ex1, ex2}
  NumSegmento = 2
SPECIFICATION SpecProgresso
INVARIANTS
  TypeOKProgresso
  CentralSabe
  CadeiaSemBuraco
  RestauradoCompleto
  ParadaInteira
PROPERTIES
  ResultadoChega
  FilaAtendida
  SaldoConverge
  CadeiaEnviada
  ParadaAlcanca
CHECK_DEADLOCK FALSE
