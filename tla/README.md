# TLA+ verification of the SysVar store hub

The hub (`sysvarhub-backend`) runs in a store.  Terminals of the store (PDVs) sell through
its HTTP API, it keeps everything in its own MySQL database, and it exchanges the results
with the Central ("retaguarda") over an unreliable network: events go up, mirrors, commands
and number ranges come down.  This directory holds TLA+ modules of the parts whose
correctness depends on the order of steps taken by different actors, the TLC
configurations that check them on small instances, and TLAPS proofs for every instance.

Paths below are relative to `src/`.  Names of actions and states are the names of the code,
without accents; comments name the function when an action has another name.

## 1. Inventory

| component | code | state | operations |
|---|---|---|---|
| outbox | `core/services/sync.py` | `EventoSyncHub` rows: status, tentativas, proxima_tentativa_em, payload | enfileirar_*, sincronizar_eventos_pendentes, conciliation of sales, returns, NFC-e, receipts |
| manual retry | `core/services/pendencias_sync.py` | the same rows | listing, tentar_reprocessar_evento |
| sync worker | `runtime/sync_worker.py` | one thread; heartbeat row | run / executar_ciclo: heartbeat, commands, outbox, results |
| local credit | `core/services/beneficios.py`, `vales_troca.py` | `ValeTrocaHub`, movements, return's `venda_troca` | validate, link, reserve, consume, release |
| sales | `core/services/vendas.py` | `VendaHub`, items, payments, stock movements, context of the terminal | open, customer and seller, items, payments, cancel, finalise |
| returns | `core/services/devolucoes.py` | `VendaDevolucaoHub`, items, credit | local return, return made online at the Central |
| number ranges | `core/services/numeracao_vendas.py`, `numeracao_devolucoes.py` | `FaixaNumeracaoVendaHub`, `FaixaNumeracaoDevolucaoHub` | consume, register, refill |
| cashback | `core/services/cashback_online.py` | reservations at the Central | consult, reserve, confirm, release |
| cash session | `core/services/caixa.py`, `movimentacoes_caixa.py`, `resumo_caixa.py` | `SessaoCaixaHub`, movements | open, close, supply, withdrawal, expense |
| day closing | `core/services/fechamento_dia.py` | `FechamentoDiaHub` and its forms | preview, close |
| NFC-e | `core/services/nfce.py`, `danfe_nfce.py` | `NFCeHub` rows, `ConfiguracaoFiscalHub` | prepare, sign, transmit, contingency, retransmit; printout |
| goods receipts | `core/services/recebimentos.py`, `integracao/services/recebimentos.py` | mirrored documents, counts, stock movements | import, confer, confirm, reject |
| operators, terminals | `core/services/operadores.py`, `terminais.py`, `core/authentication.py` | sessions, pairing codes, tokens | login, pair, revoke, deactivate |
| customers | `core/services/clientes.py`, `integracao/services/clientes.py` | registry and its mirror | register, import |
| queries, screens, API | `core/services/consulta_vendas.py`, `central_status.py`, `snapshot_operacional.py`, `core/api.py` | none | read-only, or translation of requests |
| mirrors | `integracao/services/catalogo.py`, `formas_pagamento.py`, `tipos_despesa_pdv.py`, `vendedores.py`, `operadores.py` | mirrored tables, files of the pictures | import, absent rows |
| activation | `integracao/services/ativacao.py`, `bootstrap.py` | `HubConfig` | activate, revoke, import of registers and fiscal configuration |
| commands | `integracao/services/comandos_administrativos.py`, `sincronizacao.py` | command rows and results | receive, execute, report, report again |
| backup transmission, recovery | `integracao/services/backup_transmission.py`, `runtime/recovery.py`, `recovery_guard.py` | progress file; recovery state file and block marker | transmit in parts; restore and confer |
| local backups | `deploy/windows/mysql-backup*.ps1` | files of FULLs and incrementals, head, control | capture, renew, by task or by hand |
| service, installer | `runtime/windows_service.py`, `deploy/windows/*.ps1` | threads, services, files of secrets | start, stop, install, recover, remove, purge |

**How they interact.**  API requests and the worker are threads or processes that share
only the database.  Writers of a sale or a return register a `transaction.on_commit`
callback that enqueues the event in a later transaction.  The worker, the management
command and the manual retry all call `sincronizar_eventos_pendentes`.  The Central is
called in the middle of it, between two transactions, and inside the transactions that
reserve credits.

**The lock of the hub.**  Most operations of a terminal begin with
`Terminal.objects.select_for_update().select_related("hub")`, which in MySQL locks the row of
the terminal *and* the row of the hub, so they exclude each other across terminals until their
transaction ends.  Not under it: `abrir_caixa`, `configurar_terminal`, `fechar_dia`,
`autenticar_operador_terminal`, `finalizar_devolucao_local`, `processar_nfce_preparada` and the
imports of the worker, which write the row of the hub last.  The isolation is READ COMMITTED
(Django's default for MySQL, `settings.py:129-142`): a read sees what has been committed, and a
write to a locked row waits.  This decides, module by module, what is one step and what is several.

**What is hard.**  (1) Several callers of the outbox at once: a row that is being sent has
no lease (`sync.py:367`), and results are saved with objects read before the request.
(2) A return's payload depends on the exchange sale that uses its credit, and that sale must
not arrive first: the payload is recomputed until the first attempt and fixed afterwards.
(3) Lost answers: the Central, or SEFAZ, may have processed a request whose caller saw an error.
(4) Crashes between the commit and the callback, between the marking of a batch and its
results, between any two saves of an NFC-e.  (5) Calls to the Central inside transactions that may
roll back.  (6) Operations outside the lock of the hub against those under it.  (7) Imports that
write what a sale is reading, or bring answers older than what the store did meanwhile.
(8) Cents: promotions, change, returns and corrections, each rounded in its place.
(9) Scripts and programs of the machine that are killed between two effects and run again.

**What makes each part correct.**

* Outbox: an exchange sale follows its returns; every resend is identical; the Central's
  account of a credit is the store's; every event is delivered at last; interrupted rows are
  resumed.
* Number ranges: no number twice, none skipped, none used for another store.
* Cash: a closed session receives nothing more and its summary stays true; what the hub expects
  in a drawer is what is in it; a closed day adds up.
* Stock: open and concluded sales together never promise more than there is; the balance of the
  hub converges to the Central's.
* Payments: a concluded sale is covered, and its credits are reserved at the Central; a payment
  is made with one version of its form, by the customer it was checked for.
* Amounts: item, sale, payment, NFC-e and return agree to the cent.
* NFC-e: one number per document, the printed key is the authorised one, what was told stays true.
* Receipts: entered once, with the quantities that were counted.
* Commands: the Central believes of a command what the hub did, and hears of it at last.
* Access: one operator per terminal, identities given after the last deactivation.
* Mirrors: one whole answer of the Central, never a mixture.
* Backups and recovery: no hole in a chain, on disk or at the Central; a restored database is
  whole, and the hub stays blocked until it was conferred.
* Service and installation: a stop stops everything; an interrupted installation loses no secret.

## 2. Plan

| order | modules | content | state |
|---|---|---|---|
| 1 | `CreditoCentral`, `FilaSincronizacao`, `FilaSincronizacao_proofs` | outbox, credits, callers, Central; refinement; proofs | done |
| 2 | `Numeracao`, `Numeracao_proofs` | ranges of sale and return numbers, refill, rollback, reactivation; proofs | done |
| 3 | `Caixa`, `Conferencia`, `Loja_proofs` | sessions, sales and closings as transactions; their amounts; proofs, with `Estoque` and `Valores` | done |
| 4 | `Atendimento`, `Estoque`, `Reserva`, `Reserva_proofs`, `Retrato`, `Valores` | a sale: who, what is left in stock, credits at the Central, form of payment, amounts | done |
| 5 | `Nfce`, `Nfce_proofs`, `Recebimento`, `Recebimento_proofs` | fiscal documents, goods receipts; proofs | done |
| 6 | `Comandos`, `Acesso`, `Espelho`, `Imagens` | cycle of the worker, credentials and sessions, mirrors, pictures | done |
| 7 | `Copia`, `Transmissao`, `Recuperacao`, `Servico`, `Instalacao` | backups, their sending, recovery, service process, scripts | done |
| 8 | `Progresso_proofs`, `Apoio_proofs` | proofs of `Comandos`, `Transmissao`, `Recuperacao`, `Servico`; of `Atendimento`, `Imagens`, `Acesso`, `Espelho`, `Copia`, `Instalacao`, `Retrato` | done |
| 9 | composition of `Caixa` with `Reserva` and `Nfce` | one conclusion from payment to event | next |
| 10 | retry delays of the outbox (`sync.py:374`), a chain of backups rewound (`recovery.py:331`) | full batches of blocked rows; a hub restored from an older point | next |

`MCFilaSincronizacao`, `MCNumeracao`, `MCRecebimento` instantiate one component; `MCLoja`,
`MCProgresso` and `MCApoio` several, see section 5.

## 3. The outbox: `FilaSincronizacao`

### State

| variable | code |
|---|---|
| `venda` | `VendaHub.status` |
| `pagamento[v]` | active payments of sale `v` with a provisional exchange credit |
| `devolucao[d]` | `VendaDevolucaoHub`: status, `venda_origem`, `venda_troca`, `confirmado_central_em` |
| `usado[d]` | sale of the USO movement of the credit |
| `vale[d]` | `ValeTrocaHub.status`, OFICIAL once the Central's document replaced the provisional one |
| `evento[e]`, `antes[e]` | `EventoSyncHub`: status, "has been attempted" (`tentativas > 0`), "retry time in the future", payload; creation order |
| `aEnfileirar` | callbacks that `transaction.on_commit` will run (memory: lost by a crash) |
| `chamada[c]` | a call of `sincronizar_eventos_pendentes`: where it is, rows it locks, objects it has read, results it has received (memory) |
| `rede` | every request item ever sent; any of them may be processed late, or never |
| `central[e]` | payload with which the Central processed the event (external) |

Amounts are left out of payloads.  What remains is what the properties tell apart: the
credits of a sale, which of them are official documents, the returns a sale depends on, and
the consumption a return declares.

### Steps

A step is one transaction, one autocommitted write or one message.  The database is MySQL
with Django's default isolation, READ COMMITTED (`settings.py:129-142`): a read sees what
has been committed, and a write to a locked row waits for the lock.
`sincronizar_eventos_pendentes` is split where another actor can come between:

1. `Selecionar` - the rows are locked and each payload is prepared
   (`_preparar_evento_troca`);
2. `Marcar` - the dependencies are read, the rows are marked PROCESSANDO or put off, the
   transaction commits and the request leaves.  The two are separate because READ COMMITTED
   lets another caller's commit (the confirmation of a return, which needs no lock of the
   sale's row) fall between the preparation and the reading of the dependencies;
3. `CentralProcessa`, `Responder`, `Falhar` - the Central, the answer, a lost answer;
4. `Confirmar`, `Retry`, `ConflitoLocal`, `ConflitoCentral` + `GravarConflito` - one per
   outcome, for the oldest result not handled yet.  A CONFLITO of the Central is two writes
   in the code, hence two steps.

`VerificarRetry` and `DesistirRetry` are the manual retry before and after its check.
`AbrirVenda`, `CancelarVenda`, `FinalizarDevolucao`, `AplicarCredito`, `RemoverPagamento`,
`FinalizarVenda` and `AlterarNfce` are the writers; `Enfileirar` and
`EnfileirarVendaDaNota` their callbacks; `Cair` a crash; `Vencer` the arrival of a retry
time.

`CreditoCentral` is the abstract specification: a credit is consumed in the store or sent
unconsumed, never changed afterwards, and a sale is settled at the Central only when the
credits it consumed are there.  `CreditoSpec` states that the outbox implements it, with
`credito` and `liquidada` read from what the Central has processed.

### Runs

| run | instance | shows |
|---|---|---|
| `fila_base` | 2 sales, 1 return, worker + manual retry, all answers but INVALIDO | types; a sale follows its return; resends are identical; the Central's account of a credit; the reconciliation never meets a different consumption; a row marked SINCRONIZADO was confirmed |
| `fila_queda` | 2 sales, 1 return, 1 NFC-e version, one caller, batches of 1, 1 crash, INVALIDO | with one caller a sale carries official documents; implementation of `CreditoCentral` |
| `fila_entrega` | 2 sales, 1 return, one caller, 1 crash, fairness | every event is confirmed at last unless a crash loses a callback; rows left in PROCESSANDO are confirmed at last |
| `fila_vale_oficial` | two callers | **violated**, see section 8 |
| `fila_conflito_terminal` | worker + manual retry | **violated**, see section 8 |

Why the bounds are enough: two sales are the original one and the exchange one; two callers are a stale write and what it overwrites; one crash
separates every pair of steps; batches of one (`Limite = 1`) make the order of the batch
matter, batches of three let all the rows travel together.  `MaxQuedas` bounds crashes; no
other counter grows.  `Simetria` permutes the sales and is used for safety only.  Deadlock is
not checked because the store may stop: when every document is sent nothing has to happen.

**Fairness** (`Justica`).  The worker thread cycles for ever, so `Selecionar`, `Marcar`,
`Falhar`, `Confirmar` and `Retry` are weakly fair; callbacks run after their commit, a retry
time comes, and the Central processes what it has received; the Central does not fail every
call for ever (`Atende`, strong); and a sale does not stay open for ever, because
`fechar_caixa` refuses a session that has one (strong, as a payment can be put in and out).
There is none for the manual retry nor for refusals.  The liveness run uses batches of three:
with batches of one a blocked return whose retry time always comes first keeps the only place,
which the delays of the code (a clock the model does not have) make unlikely but a full batch
of blocked events would allow; it is a recorded hazard (`sync.py:374`).

## 4. The number ranges: `Numeracao`

`faixas[h]` and `proximo[h]` are the rows of `FaixaNumeracaoVendaHub` of hub `h` (a number is
uncommitted, and its row locked, while `conclusao[h][t]` is open); `emitido[h]` the documents
of its concluded sales; `reposicao[h][r]` an answer that caller `r` of the refill has not
registered, with the `loja_id` of the hub object it read *before* the request (`lida`);
`livre` and `reservas` are the Central.  `Consumir`, `Concluir` and `Desistir` are
`finalizar_venda` around `consumir_documento_venda`: the number is given back by a rollback,
because it is consumed in the transaction that concludes the sale.  A terminal that finds the
first range locked waits, it does not skip to the next.  `ReservarNova`, `ReservarRepetida`,
`Registrar` and `Abandonar` are the refill; the Central may repeat an answer or answer for
another store, which the code refuses.  `Reativar` is `ativar_hub_local`.  A lost answer and a
refused one are the same step, as both leave the hub as it was.  The ranges of returns follow
the same protocol with a company in the place of the store; their `numeracao_devolucoes.py` is
mapped where the text is the same.

| run | instance | shows |
|---|---|---|
| `numeracao` | 2 hubs of one store, 2 terminals and 2 callers of the refill each, ranges of 2 and 3 up to number 4, 1 reactivation | types; while no hub moves no number twice on any hub; no gaps whatever overlaps, repeats or rolls back |
| `numeracao_loja` | 1 hub, 1 reactivation | **violated**, see section 8 |

Ranges of 2 and 3 in two stores overlap partly, wholly and not at all; a range beyond the
limit is answered and refused; a refill threshold of 1 lets two ranges be open at once.
Deadlock is checked: a hub with no numbers left still refills.

## 5. The other components

Each module below is a component with its own variables; three runs check them.  `MCLoja`,
`MCProgresso` and `MCApoio` put several in one run: the variable `parte` is chosen by the initial
state and only that component moves.  They share no variable, so this is the union of their state
spaces and nothing is hidden by it.

### Cash: `Caixa` and `Conferencia`

`Caixa` is about *who comes between whom*.  `tx[t]` is the open transaction of terminal `t`;
`IniciarVendaLer`/`Gravar`, `FinalizarVendaLer`/..., `FecharCaixaLer`/... are the reading and the
commit of operations whose reading matters, `Desfazer` their rollback.  `previa` is the call of
`fechar_dia`, whose queries are four steps under no lock of the hub.  Registers that the Central
deactivates, terminals that change register, and the date are steps of their own.  Invariants:
`VendaAbertaEmSessaoAberta`, `ResumoDefinitivo` (the summary stored with a closed session counts
every sale that will ever be concluded in it), `DiaDasSessoes` (each sale a closed day counts is in the
summary of a session closed for good, though the sales are read before the open sessions are looked for).

`Conferencia` is about *how much*, with an operation per step.  `pagosCf` are the active payments
of each sale by row of form, `movCf` the movements, and `gaveta` the money physically in the drawer,
which the hub never sees: it moves when a payment in cash is made or taken back, when change is
given and when money is moved.  The assumption on the physical side is that nobody takes out what is
not there.  `ConferenciaFecha` compares the two: the difference stored by `fechar_caixa` is exactly
the error of the count (`CaixaBate`); a day that could be closed records for each type of payment what
its sales left, tells a divergence by type, and its three blocks (sales by date, sessions opened or
closed on the date, movements by date) agree when no session went past midnight (`DiaBate`).
Instance: one session, two sales of total 2, amounts 1 and 3, two rows of cash and one card, one
movement, counts right or short by 1, two days; the two rows of cash make the inconsistent day of
section 8 reachable.  A sale has one active payment per row of form.

### A sale: `Atendimento`, `Estoque`, `Reserva`, `Retrato`, `Valores`

* `Atendimento` - customer and seller, chosen before the sale exists (context of the terminal) or
  after it, while an import changes who may be chosen.  `PagamentoDoCliente`: an active payment was
  made with the customer and seller the sale still has.
* `Estoque` - `saldo` of one SKU, the sales that reserve and take it, local and online returns,
  receipts, the outbox and the Central, and the import of the catalogue in three steps: answer,
  decision and reading, writing (`catalogo.py:166`).  `SemVendaAlem`: open and concluded sales never
  exceed what is physically in the store; `SaldoConverge` (under `JustoEstoque`): once documents have
  been delivered the balance is the physical one.  `CargaDurante` says whether an import may
  be answered between the Central's processing of a receipt and its entry in the hub; `FALSE` in `loja`
  (the case is finding 5), `TRUE` in `progresso`.
* `Reserva` - payments and their reservations at the Central, with `Pedir` (validation and request,
  inside the transaction), `Gravar` (commit) and `Desfazer`: the rollback of any of them after the Central
  acted, because its answer was lost or late (`cashback_online.py:174-182`), because of an error after it, or
  because the hub stopped.  `PagamentoGarantido`: every credit in a concluded sale is reserved or consumed
  at the Central.  The one exception is a cashback whose removal was undone after its release: it is active,
  its reservation is gone, and the sale can be concluded (section 8); the history `solta` records
  these, and the property says that nothing else leads there.
* `Retrato` - `adicionar_pagamento` copies form, instalments, term, condition and rates in five
  reads; `sincronizar_formas_pagamento` rewrites them item by item in one transaction.  The payment
  locks what it reads (instalments excepted) and holds the row of the hub; the import locks what it
  writes, terms before forms, and writes the row of the hub last.  `RetratoVigente`: a payment is
  recorded with rows of one import, the one in force.  Two things protect it, the row locks and the
  hub row, and either is enough; what breaks it is an import that is visible before its end.  A payment
  that waits for a form of an import that waits for the hub row is a deadlock: the database rolls one
  of them back, which is `DesfazerPagamentoR` or `DesfazerImport`.
* `Valores` - the arithmetic of one sale in integers (cents; prices in ten-thousandths), with
  ROUND_HALF_UP and ROUND_HALF_EVEN where the code has each: promotions, payments, change, cashback
  earned, the amounts of the NFC-e, the credits of returns and the corrections the Central makes.
  `ContasFecham` joins `VendaFecha` (items are positive, change comes from cash only, cashback is earned on what was
  not paid with credits, the lines of the note add up to its totals and its payments) and the returns: their
  credits are proportional to what they return and never more than it.  Bounds: units up to 3,
  payments up to 3, the amounts that tell the branches apart (the total, 5.00, what is left and a
  cent more), two price lists, corrections of a cent; the price list is fixed during a behaviour.  The
  division first of the code is exact while a sale has less than 6 units.

### Documents: `Nfce` and `Recebimento`

* `Nfce` - `processar_nfce_preparada` holds no transaction: every `save` is a step and `copia` the
  object in memory; the command `processar_nfces_pendentes` treats a `lista` read earlier; SEFAZ
  authorises a key whose answer may be lost; the import of the fiscal configuration may be older than the
  last sales.  Nothing locks a row between the command and its conclusion, and both may be at work on it.
  `NfceCoerente` joins five statements: the next number is free, a document that SEFAZ authorised is of one
  sale (`DocumentoDeUmaVenda`), an authorised row was authorised under its key, XML and QR code are of the
  key of the row, and what was told to the Central stays.  The last three leave out the rows on which both
  were at work at once (the history `disputada`): there one writes over the other (section 8).  One series,
  two sales, two numbers.
* `Recebimento` - `leitura` is an answer of the Central about to be stored, `chamadaRec` one about to be
  handled by a caller of the outbox.  `EntradaFiel`: the items enter the stock once and are those that
  were counted.  A late error may take a confirmed event back and it is sent again (`_marcar_retry`): the
  second confirmation finds the receipt entered.
  `EntradaConfirmada`: what entered was confirmed by the Central.

### The worker and the mirrors: `Comandos`, `Acesso`, `Espelho`, `Imagens`

* `Comandos` - the cycle of the worker, a step per write or request, stops at each and revocation of
  the credential.  A request fails with a `RetaguardaError` (`FalharInforme`), which the code swallows in some
  places, or with any other exception (`EstourarInforme`), which it does not, and in both cases the Central
  may have done it.  `CentralSabe`: a synchronisation the Central holds as concluded had every stage applied
  in one pass since it was last taken up, and one it holds as failed is in error at the hub; of an
  administrative command it holds what the hub did.  A conclusion may be an error at the hub only, when telling
  it failed unexpectedly (section 8).  `ResultadoChega`: the Central hears of the end at last;
  `FilaAtendida`: the outbox is served again and again.
* `Acesso` - credential of the hub, pairing codes, operator sessions.  A request of `parear_terminal` reads the
  clock (`PedirPareamento`) before it has the row of its code (`Parear`, `PareamentoRecusado`); logins are served at
  once; an activation may come while a heartbeat waits.  `AcessoUnico` joins two statements.
  `IdentidadeNova`: a terminal that was deactivated comes back only with a later code, unless by a
  request that was waiting when its code, by then expired, was not worth revoking.  `SessaoUnica`: two active
  sessions of a terminal are left only by logins served at once, one of which found no session to lock;
  the history `feita` keeps, of the login of each session, what it found and which sessions were
  saved between its two steps.
* `Espelho` - an import of any mirror, item by item, that may fail at each, on unique keys too, while
  terminals register customers.  `EspelhoInteiro`: what may be used is one whole answer.
* `Imagens` - rows, files fetched after the commit, sweep of files, two importers.  The name of a file is
  made of the version of the answer, cut at its last dot (`NomeVersao`: two versions may share one); its
  content is the picture that the Central has when it is asked for, by the number of the picture only.
  `ImagemCerta`: the file a row names goes by the name of the version the row has, and the picture in it is
  not older than every version of that name.  That it is the version of the row is not true of the code
  (section 8).

### The machine: `Copia`, `Transmissao`, `Recuperacao`, `Servico`, `Instalacao`

* `Copia` - binlog (external: it grows, expires, is recreated at any moment), FULLs, incrementals, head file,
  control file, lock; the scheduled task and an operator.  A capture is one step per reading of the server:
  window, source, first and last copy, the comparison of the copies, the publication; a FULL is a
  dump and its publication.  `CadeiaGuardada`: segments join end to start and come from the binlog their
  FULL is anchored to, and the control never leaves a FULL whose continuity was lost.
* `Transmissao` - uploads in parts with lost answers, expiry, a time limit, a progress file; `Recusar` is
  every end of a request that calls for the support (HTTP status, TLS, unreadable answer), `ErroLocal`
  what the hub finds wrong with its own files, at any moment of a cycle.
  `CadeiaSemBuraco`, and `CadeiaEnviada` under `JustoTransmissao`.
* `Recuperacao` - several attempts of the program; a session of mysql outlives the program that fed it.
  `RestauradoCompleto`: when the recovery is declared done the database holds exactly the chain.
* `Servico` - SCM, control thread, runtime thread, worker thread.  `ParadaInteira`, and `ParadaAlcanca`
  under `JustoServico`.
* `Instalacao` - `install-hub.ps1`, recovery mode, removal, purge, as scripts that may be killed
  between two effects, and the processes of the services.  `InstalacaoSegura`: the secret in a file is the
  one of its account whenever the account is used, and an import of a recovery never runs
  beside a hub that operates.  Of root it says what `Test-MySqlAdminCredential` checks: that its file opens
  it, which a file without a password does when root has none (section 8).

### Runs

| run | instance | shows |
|---|---|---|
| `loja` | `Caixa` 2 terminals on 1 register, 2 sessions, 2 sales, 2 days; `Estoque` 2 sales, 2 returns, balance 2, imports, no receipt; `Acesso` 1 terminal, 2 codes, 2 operators, 2 sessions, 2 logins at once, 2 activations; `Reserva` 2 sales, 6 payments, 2 requests; `Nfce` 2 sales; `Conferencia`, `Valores` as above | types and the safety of the store; about 1 180 000 states, 155 s |
| `progresso` | `Comandos` 1 synchronisation, 2 administrative commands, 1 stop, 1 revocation; `Estoque` 1 sale, 2 returns, 1 receipt; `Transmissao` 3 files of 2 parts, 3 faults, 1 expiry; `Recuperacao` 2 attempts, 2 segments; `Servico` whole | what must happen at last, and the safety of the same components; about 81 000 states, 60 s |
| `apoio` | `Recebimento` a receipt of each origin, 2 callers; `Espelho` 3 rows, 2 items; `Imagens` 1 product of 3 versions, 2 of which share a name, 2 importers, 3 imports; `Atendimento` 2 terminals, 2 customers; `Retrato` 2 forms, 2 terms, 2 payments, 2 imports; `Copia` 2 processes, 2 FULLs, 2 lines of binlog; `Instalacao` 7 secrets | what supports the sale and the machine; about 971 000 states, 175 s |
| `recebimento_mesmo_id` | two receipts of different origins, one identifier | **violated**, see section 8 |
| `estoque_carga` | 2 sales, 1 receipt, `CargaDurante` | **violated**, see section 8 |

Why the bounds are enough: every race here is between two actors, so two terminals, callers, importers
or processes produce it; two rows or items of a kind tell "the same" from "another"; a fault that may
happen once before and once after a retry separates every pair of steps.  In `loja` two definitions of `MCLoja` bound what is not worth combining: `LimiteLogin` (a
login is served only in the first activation of the hub, with one operator changed at most and no other
request waiting, and two at once only in the first pairing) and `LimiteNfce` (two conclusions are at work at once
only while the command has nothing to do, and a conclusion and the command are on one row only while one sale is
issued).  The proofs have no such bounds.  Symmetry permutes values that
no definition tells apart and is used in `loja` and `apoio`, which check no liveness.  Deadlock is not
checked in the three: a store that concluded its bounded documents has nothing left to do.

**Fairness.**  `JustoComandos`: the loop of the worker never ends and the hub is activated again; the
Central brings each command it holds, and a request that is repeated for ever does not fail every time
(strong).  `JustoEstoque`: callbacks run, the worker sends and imports for ever; nothing about operators.
`JustoTransmissao`: the task of Windows runs the program again and the support resumes a sending that
waits for it.  `JustoServico`: threads run, waits have a time limit, a closed server returns.

## 6. What is proved

`FilaSincronizacao_proofs` proves for all finite sets of sales, returns and notes, any set of
callers, any limit and any number of crashes, from the assumption `Conjuntos` alone:

* `TipoCorreto`: `Spec => []TypeOK`;
* `Invariante`: `Spec => []IInv`, the inductive invariant;
* from it `VendaDepoisDaDevolucao`, `SincronizadoVale`, `ReenvioVale`, `CreditoVale`,
  `CreditoUnico`, `ConciliacaoVale`, `TransmitidaVale`;
* `Refinamento`: `Spec => CreditoSpec`;
* `ValeOficialVale`: `Spec => []VendaComValeOficial`, under `UmChamador`, which is the price of finding 1:
  the run `fila_vale_oficial` violates it with two.

The properties are not inductive alone.  `VendaSoDepoisDaDevolucao` needs that a sale about
to be sent has been prepared with *all* the returns linked to it, which is true because a link
is refused once the sale is closed, and a sale has a row only after that (`Lastro`,
`Vinculo`); and that what a caller holds in memory is what the row holds once attempted, which
is true because rows of an open transaction are locked (`Retrato`).  `SincronizadoConfirmado`
needs that a favourable result held in memory is about an event that is at the Central
(`NaCentral`).  The steps are of five kinds: a writer of the store, the creation of a row, the
selection of a batch, its marking, and *calm* steps (`Calmo`), which neither touch a locked
row nor change what the payloads are made of; the last kind covers all the others with one
lemma.  TLC checked `IInv` on the instance of `fila_base`, and on one with two
free callers, before it was proved.  `InvOficial` (TLC: the instance of `fila_queda`) adds that a confirmed
return never has a provisional document again (`Definitivas`), and that the payload prepared for a first
sending names as official every credit confirmed by now: only the caller that prepares could confirm one
more, and it is preparing.

`Numeracao_proofs` proves, for any hubs, terminals, callers, stores, sizes and limit:

* `TipoCorreto`, and `LivroVale`: `Spec => [](Livro /\ SemBuraco)`, whatever is activated.
  `SemBuraco` is not inductive alone: that a new range holds no issued number follows from
  `Livro`, by which every issued number is in a registered range and ranges are disjoint.
* `SemBuracoVale`; `DocumentoUnicoVale`, which is about the time before any hub is activated
  for another store, and `DocumentoDaLojaVale`, for `MaxReativacoes = 0`, from `Origem`: the
  ranges of a hub are reservations of its store, and the Central reserves no number of a store
  twice.  The restriction is needed: `numeracao_loja` violates the second without it.

`Loja_proofs`, for any terminals, registers, sessions, sales, returns, receipts, movements and amounts:

* `Caixa`: `TipoCaixa`; `InvarianteCaixa`, whose `InvCaixa` adds to the types that one transaction at a time
  holds the lock of the hub (`Exclusao`), that what an open transaction has read is still true (`Leitura`,
  the reason why the summary that `fechar_caixa` computes is still right when it writes it) and that a sale
  has a session (`ComSessao`); from it `VendaEmSessao`, `ResumoVale`.  `DiaDasSessoesVale` rests on `ResumoVale`
  and on what a closing in progress has read: a sale that it counts is concluded, so once no session is open
  its session is closed and its summary holds it.
* Sums.  `Estoque`, `Conferencia` and `Valores` add up over sets of rows, with `SumFunctionOnSet` of the
  library.  Its laws (an element more, a union, two functions, a function that changes in one point, a
  partition, rows and columns) are the lemmas `Soma...`.  The induction they need is over subsets of a finite set; the
  library's induction theorems take an operator, so `Inducao` is stated with the *set* of the subsets
  that have the property, and follows from a smallest subset that would not be in it (`WFMin`).
* `Estoque`: `TipoEstoque`; `SemVendaAlemSempre` under `~CargaDurante`, whose price is finding 5 (the run
  `estoque_carga` violates `SemVendaAlem` without it).  `InvEstoque` says that a return
  which was not made has no units and is nowhere, that a receipt is in the balance only with its event
  confirmed, and that an import was answered with documents the Central has (`Registros`); that the
  balance is never more than the opening one and what entered (`SaldoCoberto`); and that the balance which
  an import is about to write is not more than that either, counting the entries in its answer
  (`CargaCoberta`): by the hypothesis the hub has them all when it is written.
* `Conferencia`: `TipoConferencia`, `ConferenciaFechaSempre`, with no hypothesis.  `InvCaixaCf` is the equation of the drawer
  (`GavetaCerta`): opening, plus what each sale of the session has left in cash, plus the movements; a closed
  session has no open sale and what it stored is what was there when it was closed (`SessaoCerta`).  From
  it, the expected amount of `calcular_resumo_sessao` is the drawer (`EsperadoCerto`).  `InvDiaCf` says of each closed
  day what `DiaBate` asks: that the change is taken once from the money is what `_validar_consistencia` forces
  (`SistemaCerto`); that the three blocks agree is the partition of sales and movements by session
  (`BlocosDoDia`); that nothing of a closed day changes later is `Congelado`.
* `Valores`: `VendaFechaSempre`, for any price lists, promotions, forms and amounts of payment and
  percentages.  A discount fits in the gross value cut to cents (`DescontoCabe`), and rounding up halves commutes
  with whole cents (`ArredondaCima`), so an item and its line of the note, which is computed again, never differ by a cent
  (`PrecoFecha`).  `InvValores` adds that what is not money fits in the total; there is no change
  with a benefit because its check at the conclusion leaves no place for one (`SemTrocoDeBeneficio`).

`Recebimento_proofs`, for any receipts, callers, versions and any movement of documents at the Central:
`TipoRecebimento`, without any hypothesis; and `InvarianteRecebimento`, `EntradaFielSempre`,
`EntradaConfirmadaSempre` under `IdsDistintos`, two receipts have two identifiers at the Central.  The run
`recebimento_mesmo_id` violates the last one without it (finding 4), so it is the exact price of the defect.
`InvRecebimento` says of each receipt what the hub saw of the Central (`Vista`: never further than the
Central is), what a count implies (`Contado`: its event, its quantities), how it ends (`Fim`), and of each
caller that the answer it holds is one that the Central gave and that cannot be undone (`Resposta`).

`Reserva_proofs`, for any sales, payments, prices and requests: `TipoReserva`; `InvariantePedidos` and
`PagamentoCobreSempre` and `PagamentoGarantidoSempre`, with no hypothesis: whatever is answered, lost or
undone, and wherever the hub stops.  One transaction at a time
(`UmaTransacao`, the lock of the hub) makes what a request validated true until it ends (`Pedido`),
although the Central acts and the hub rolls back in between; an active cashback payment keeps its
reservation because the one request that takes it away is a removal, which then ends or is recorded
in `solta`.

`Nfce_proofs`, for any sales, series and numbers, with the command beside the conclusions and no hypothesis:
`TipoNfce`, `NumeroLivreSempre`, `DocumentoDeUmaVendaSempre` and `NfceCoerenteSempre`.  Number and series of a
row never change once it was issued, which is all that the second needs, on rows in dispute too.  For the
others: a process works on the row as it is (`NaMao`), and only one does (`Dono`); a row listed in contingency
is as it was listed until its turn (`NaLista`).

`Progresso_proofs`, with no hypothesis:

* `Comandos`: `InvarianteComandos`, `CentralSabeSempre`, `CargaCompletaSempre` (a synchronisation ends
  with every stage applied) and the action property `FimDefinitivo` (a command that ended, in the hub or
  at the Central, stays as it ended, though commands are brought again and old results told late; the one
  change is a conclusion that becomes an error while it is told for the first time).
* `Servico`: `ParadaInteiraSempre` from `InvServico`: what was published is held by one of the two callers
  of `stop`, signals are cleared only before the runtime exists, and a server that listens has someone who
  will close it.
* `Transmissao`, for any number of files and parts: `InvarianteTransmissao`, `CadeiaSemBuracoSempre`,
  `RecebidoConfereSempre`, `SuporteSoPorErroSempre`.  The files known as received are the first `k`
  (`Prefixo`); what the hub saved of a file is never ahead of its upload (`Acordo`).
* `Recuperacao`, for any number of segments and attempts: `InvarianteRecuperacao`,
  `RestauradoCompletoSempre`.  One attempt imports, one session is open, and what the destination executed
  followed by what the session still holds are the first pieces of the package, in order.

`Apoio_proofs`:

* `PagamentoDoClienteSempre` and `ImagemCertaSempre`, with no hypothesis.  The second needs that an import
  fetches only products that its own answer has a picture of (`Fiel`), and that what it holds was the
  Central's when it was fetched.
* `Acesso`: `IdentidadePropriaSempre`, with no hypothesis: a terminal with a token is active, its code was
  made for it and used, no other terminal has it.  `SessaoUnicaSempre` and `AcessoUnicoSempre`, with no
  hypothesis either: logins and requests that are served at once are in the statements.
  `InvIdentidade` says that a code that is still good was made after the last deactivation of its
  terminal, `InvSessao` that a session of the terminal which a login is not about to end was saved
  after the login had ended the others.
* `Espelho`: `TipoEspelho` and `EspelhoInteiroSempre`, with no hypothesis.  `InvEspelho` reads the rows an
  import wrote laid over the committed ones (`LinhaVista`): in both no two rows have one identifier; each
  item of the answer that was written has its row and its vouchers; the row found for the item in hand
  still has its identifier or its document.
* `Copia`: `CadeiaContinuaSempre` and `CadeiaGuardadaSempre`, with no hypothesis, for any number of
  processes, FULLs, lines and positions.  `InvCopia`: who works holds the lock (`UmDeCadaVez`), so that the
  point a capture read is still the end of the chain when it is published (`Captura`); a chain of the
  present line ends before the end of the binlog (`Discos`); a chain that can be continued now could be
  when the task began (`Boas`), as a line that was left never comes back.
* `Instalacao`: `ImportaSozinhaSempre` and `InstalacaoSeguraSempre`, with no hypothesis besides
  `ConstantesInstalacao`: a secret that nothing holds can be drawn (files and accounts hold six, New-Secret
  draws 48 random bytes).  `InvInstalacao` says what each step of a script may count on (`Instalando`), that
  the hub is out from the check of a recovery to its activation (`HubFora`, `Recuperando`,
  `RestauradoFora`), and that a secret in a file is the one of its account (`SegredosConferem`).
* `Retrato`: `RetratoVigenteSempre`, with no hypothesis, for any forms, terms, payments and answers.
  `InvRetrato`: what is in use, and its instalments, are of the last import (`Vigentes`); what an import has
  been through and not written is not in use (`ImportVigente`), so that its commit replaces everything; what
  a payment copied is of the version in force, and holding the hub it keeps the next one from being
  committed (`CopiaVigente`).

Each inductive invariant was an invariant of a TLC run on the instance of sections 3 to 5 before it was proved.
Besides the named hypotheses above (`ASSUME` of the theorem, always satisfied by the instance that is run),
the assumptions are those of the modules on their constants: `Parametros`, `NadaDistinto`, `Constantes*`
(types, values that differ, and that the rows added up in a sum are finitely many).

## 7. What is only model-checked

* Liveness: `EntregaFinal`, `RetomaProcessando`, `ResultadoChega`, `FilaAtendida`, `SaldoConverge`,
  `CadeiaEnviada`, `ParadaAlcanca` (fairness and ENABLED are beyond the prover).
* The returns in `ContasFecham` (`CreditoProporcional`, `SemCreditoDeMais`, `CreditoRetomado`): folds of a
  state over the sequence of returns, each step of which rounds.  What they compute is an induction over the
  sequence, and the bound of the rounding errors is nonlinear.  The rest of `ContasFecham` is `VendaFecha`, proved.
* The type invariants of the runs that compose components (`TypeOKLoja`, `TypeOKProgresso`, `TypeOKApoio`),
  which also bound the counters of the instance; the types a proof needs are in its inductive invariant.
* What `FilaSincronizacao`, `Numeracao`, `Recebimento` and `Estoque` do outside the hypotheses of their theorems: the runs
  of findings 1 and 3 to 5.

Proved and not run: `SincronizadoConfirmado`, `CreditoEmUmaVenda`, `ConciliacaoFecha`, `TransmitidaNaoMuda`,
`PagamentoCobre`, `NumeroLivre`, `DocumentoDeUmaVenda`, `CargaCompleta`, `FimFica`, `RecebidoConfere`, `SuporteSoPorErro`,
`IdentidadePropria`, `SessaoUnica`, `CadeiaContinua`, `ImportaSozinha`, `VendaFecha`; several are parts of a property that is run.

## 8. Findings

1. `fila_vale_oficial` - a sale can be sent, and kept for ever, with the provisional document
   of its credit: its payload is computed before and its dependencies are read after another
   caller confirms the return (`sync.py:378`), against `core/tests_pagamentos.py:3006` and
   `docs/vale-troca-online.md:11`.
2. `fila_conflito_terminal` - `_marcar_retry` (`sync.py:477`) saves a stale object and takes a
   row out of CONFLITO, against `docs/pendencias-sincronizacao.md:28`.
3. `numeracao_loja` - a hub activated for another store keeps its ranges and numbers the
   documents of the new store from them (`ativacao.py:121`, `numeracao_vendas.py:52`), against
   the refusal of `numeracao_vendas.py:104-105`.
4. `recebimento_mesmo_id` - a confirmation finds its receipt by `retaguarda_id` alone
   (`sync.py:662`), which is unique per origin only (`core/models.py:2221`): the confirmation of one
   receipt enters another in the stock.
5. `estoque_carga` - an import of the catalogue answered between the Central's processing of a receipt
   and its entry in the hub (`catalogo.py:166`, `recebimentos.py:181`) counts it twice, and more is sold than there
   is, against `core/tests_vendas.py:571`.

**Observed without a promise to hold it against**, and why no run shows it:

* *Outbox.*  `venda_troca` is never cleared, so after a payment is removed or the sale cancelled the credit
  stays tied to that sale until the Central confirms the return (`beneficios.py:217`).  A crash between a commit
  and its callback loses the event (`vendas.py:919`); no scan looks for it.  Rows that fail for ever take the first
  places of the batch when their time comes (`sync.py:374`).  A manual retry sends a row another caller is
  sending (`pendencias_sync.py:121`) and is accepted for a return that is blocked (`:165`), though
  `docs/pendencias-sincronizacao.md:26` speaks of eligible rows only.
* *Cash and day.*  `_consolidar_formas` subtracts the change of the day from every row of cash
  (`fechamento_dia.py:250`): two cash forms, or one renamed during the day, make a day with change impossible to close;
  `tests_fechamento_dia.py:213,230` have one cash form.  Sales can be concluded after their day was closed; a
  session past midnight counts in both days.
* *Payments.*  A term sent for a form that no longer allows instalments is silently left aside (`vendas.py:561`); the
  listing offers a condition whose term came inactive (`vendas.py:467`); the `tPag` of the NFC-e comes from the form as it is
  now, not from the copy of the payment (`nfce.py:64-74`).  A removal of a
  cashback whose release the Central did, and whose answer was lost or late, is rolled back
  (`cashback_online.py:174-182`, `vendas.py:698-747`), as it is by a stop before its commit: the payment stays
  active, its reservation is cancelled, and the sale can be concluded with it.
* *Amounts.*  Without cashback, three items at 6.6667 add up to a cent more than the total; from six units on, the
  division of the return credit at 28 digits may lose a cent.  A local return does not see returns made in other
  stores (`devolucoes.py:255`) and a request that names an item twice is checked line by line (`:261-270`).
* *NFC-e.*  A row may stay in GERANDO or GERADA after a stop (`nfce.py:321`); a late error writes ERRO_GERACAO over
  AUTORIZADA; the retransmission may work on a row that its conclusion is working on (`nfce.py:325,1103`), and then
  an authorised row can be rewritten with another key or told again; after a lost authorisation the hub issues in contingency although the first key was authorised; the configuration
  may be imported between the key and the XML (`nfce.py:591,751-801`).
* *Commands.*  An exception other than `RetaguardaError` while a conclusion is told (`sincronizacao.py:69-74`) turns
  the row into ERRO although the Central may hold the synchronisation as concluded; if the error cannot
  be told either, it stays so: the Central brings no command that it holds as ended.
* *Access.*  A heartbeat sent with the former token may wipe a new activation by its 401 (`sync_worker.py:54`);
  two logins sent at once by one terminal without a session both stay active; a code may be used after it
  expired if its lock was waited for, also after a deactivation of its terminal, which revokes only codes that
  have not expired (`terminais.py:72-86`);
  the context of another terminal survives a closing (`core/tests_vendas.py:697`).
* *Mirrors.*  An import fails for ever when a code or document moves to another identifier, or a removed row is created
  again; a row of a customer may be relabelled by its document; vouchers of customers the answer lacks stay ABERTO; a voucher
  made during an import is cancelled until the next one; `gerado_em` is not compared, so an older answer may be the last;
  the sweep of pictures may remove a file another import is about to name (`catalogo.py:510`); a picture is asked for
  by its number only (`retaguarda.py:84`), so one that changed since the answer is stored under the version before, and
  `with_suffix` (`catalogo.py:476`, `retaguarda.py:99`) gives versions that differ after their last dot one file.  `bootstrap.py:33` and
  `fechar_caixa`, and an import of forms and a payment, lock in opposite orders: one is rolled back.
* *Machine.*  A resumed capture that fails for MySQL or space clears the block without validation; after continuity was lost a
  new manual FULL does not let the control leave the block (`deploy/windows/README.md:291-296`); the finally of `run()` sets
  `stopped_event` before `runtime_error` (`windows_service.py:93-95`), so a failure may be told as a stop; a hub
  restored from an older point has its `proximo_numero` rewound (`recovery.py:331`); an upload whose predecessor was
  demoted is resumed from the predecessor (`backup_transmission.py:306`); an installation interrupted between the
  environment and the end of the initialisation of MySQL needs assistance; the backup account is not created by a
  second run; an installation whose file of root has no password, with a root
  that has none, is validated and ends ready with that root (`install-hub.ps1:125-128,224`); RESET MASTER during a dump
  may anchor the FULL to the new binlog (`mysql-backup.ps1:405-413`), which its dump does not go with;
  a setup that fails to stop MySQL leaves the hub stopped; a hub that passed the guard just before
  the marker operates with the marker present (only the import is protected).

## 9. What is not modelled

* Queries and screens (`consulta_vendas.py`, `central_status.py`, `snapshot_operacional.py`), the HTTP API and the
  printout (`danfe_nfce.py`): they change nothing; the API translates requests to the services modelled.
* Of the outbox: the delays of the retries (a clock).  Of sales: the history of events.  Of movements: expense types,
  documents and texts.  Of the NFC-e: the XML besides amounts and key, and the signature itself.  Of cashback: the one earned
  and used without the Central.  Of mirrors: the columns that are copied.  Of the local agent
  (`SysvarLocalAgent`), the check of TCP ports and packaging: processes of the machine with no state of the hub.
* `gerar_nfce_local`, which only tests call.  Consoles and `run_hub` started by hand, which the check of the service does
  not see.
* The Central, SEFAZ, MySQL and Windows are external: what is assumed of them is what the actions marked external
  in the modules do.  Errors that the code treats alike are one action.  Left out: answers of a form the validation
  refuses where that only ends the operation, as any failure does; a disk that is full or fails, but for the
  local backups and their sending; a clock that goes back.
