CONSTANTS
  l1 = l1
  l2 = l2
  a1 = a1
  a2 = a2
  b1 = b1
  b2 = b2
  c1 = c1
  c2 = c2
  LinhaE = {c1, c2, l1}
  IdE = {a1, a2}
  CodE = {b1, b2}
  SemCod = SemCod
  ValeE = {l1}
  NuloE = NuloE
  MaxItens = 2
  ProdutoIm = {l1}
  ImportadorIm = {a1, a2}
  NuloIm = NuloIm
  NumVersao = 3
  NomeVersao <- MCNomeVersao
  MaxImport = 3
  TerminalAt = {a1, a2}
  ClienteAt = {b1, b2}
  VendedorAt = {l1}
  PagamentoAt = {l1, l2}
  NuloAt = NuloAt
  ProcCp = {l1, l2}
  Tarefa = l1
  NuloCp = NuloCp
  MaxPos = 2
  MaxLinha = 2
  MaxFull = 2
  MaxDano = 1
  Senha = {s1, s2, s3, s4, s5, s6, s7}
  Nada = Nada
  SemSegredo = SemSegredo
  p1 = p1
  p2 = p2
  FormaR = {l1, l2}
  PrazoR = {p1, p2}
  SemPrazo = SemPrazo
  OperR = {a1, a2}
  Cadastros <- MCCadastros
  MaxImportR = 2
  Receb <- MCReceb
  ChamadorRec = {a1, a2}
  MaxVersao = 2
SPECIFICATION SpecApoio
SYMMETRY SimetriaApoio
INVARIANTS
  TypeOKApoio
  EspelhoInteiro
  ImagemCerta
  PagamentoDoCliente
  InstalacaoSegura
  EntradaFiel
  EntradaConfirmada
PROPERTIES
  CadeiaGuardada
  RetratoVigente
CHECK_DEADLOCK FALSE
