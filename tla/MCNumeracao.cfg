CONSTANTS
  h1 = h1
  h2 = h2
  t1 = t1
  t2 = t2
  worker = worker
  comando = comando
  l1 = l1
  l2 = l2
  Hub = {h1, h2}
  Terminal = {t1, t2}
  Repositor = {worker, comando}
  Loja = {l1, l2}
  LojaInicial <- MCLojaInicial
  Reposicao = 1
  Tamanhos = {2, 3}
  LimiteNumero = 4
  MaxReativacoes = 1
  Nada = Nada
SPECIFICATION Spec
SYMMETRY Simetria
INVARIANTS
  TypeOK
  DocumentoUnico
  SemBuraco
