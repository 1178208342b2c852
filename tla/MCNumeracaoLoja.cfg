CONSTANTS
  h1 = h1
  h2 = h2
  t1 = t1
  t2 = t2
  worker = worker
  comando = comando
  l1 = l1
  l2 = l2
  Hub = {h1}
  Terminal = {t1}
  Repositor = {worker}
  Loja = {l1, l2}
  LojaInicial <- MCLojaInicial
  Reposicao = 1
  Tamanhos = {2}
  LimiteNumero = 4
  MaxReativacoes = 1
  Nada = Nada
SPECIFICATION Spec
INVARIANTS
  DocumentoDaLoja
