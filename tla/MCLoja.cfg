CONSTANTS
  a1 = a1
  a2 = a2
  b1 = b1
  b2 = b2
  c1 = c1
  c2 = c2
  TerminalCx = {a1, a2}
  CaixaHub = {caixa}
  SessaoCx = {b1, b2}
  VendaCx = {c1, c2}
  NuloCx = NuloCx
  MaxMovimento = 1
  MaxDia = 2
  VendaEst = {a1, a2}
  DevolEst = {b1, b2}
  RecebEst = {}
  NadaEst = NadaEst
  SaldoInicial = 2
  QtdReceb = 1
  MaxQtd = 2
  CargaDurante = FALSE
  o1 = o1
  o2 = o2
  o3 = o3
  o4 = o4
  o5 = o5
  o6 = o6
  p1 = p1
  p2 = p2
  OperPag = {o1, o2, o3, o4, o5, o6}
  VendaPag = {p1, p2}
  TipoOper <- MCTipoOper
  VendaOper <- MCVendaOper
  Requisicao = {a1, a2}
  Preco = 2
  CreditoCliente = 3
  VendaNf = {a1, a2}
  Serie = {serie}
  ComandoNf = ComandoNf
  MaxNumeroNf = 2
  s1 = s1
  s2 = s2
  Sku = {s1, s2}
  Tabelas <- MCTabelas
  MaxUnidades = 3
  MaxPagos = 3
  Quantias = {500}
  SaldoVale = 600
  Cashback <- MCCashback
  Aliquota <- MCAliquota
  MaxCorrecao = 1
  SessaoCf = {s1}
  VendaCf = {c1, c2}
  LinhaForma = {o1, o2, o3}
  TipoForma <- MCTipoForma
  TotalVenda <- MCTotalVenda
  Aberturas = {1}
  Entregas = {1, 3}
  Erros <- MCErros
  NuloCf = NuloCf
  MaxMovCf = 1
  MaxDiaCf = 2
  TerminalAc = {p1}
  CodigoAc = {a1, a2}
  OperadorAc = {b1, b2}
  SessaoAc = {c1, c2}
  LoginAc = {o1, o2}
  NuloAc = NuloAc
  MaxAtivacao = 2
  MaxSenha = 1
SPECIFICATION SpecLoja
SYMMETRY SimetriaLoja
INVARIANTS
  TypeOKLoja
  VendaAbertaEmSessaoAberta
  ResumoDefinitivo
  DiaDasSessoes
  AcessoUnico
  SemVendaAlem
  PagamentoGarantido
  NfceCoerente
  ConferenciaFecha
PROPERTIES
  ContasFecham
CHECK_DEADLOCK FALSE
