# Bitkub_Bot: TLA+ models and proofs

Bitkub_Bot trades on the Bitkub exchange: a console engine (`main.py`) polls the market, runs a
paper strategy or guarded live orders, and obeys hotkeys and Telegram commands; Streamlit pages are
its control plane. The two share a SQLite database, a configuration file, a state file and the
exchange account. This directory models the parts whose correctness depends on order, failure and
restart. Paths below are relative to `src/`.

Run `tlc -config X.cfg M` for a model and `tlapm M_proofs.tla` for its proofs.

## 1. The system

| component | state it keeps | operations | talks to |
|---|---|---|---|
| live orders (`services/execution_service.py`, `execution_orders` in `services/db_service.py`) | one row per order with its state; the order on the exchange | submit, confirm, insert; refresh with its fallbacks; cancel, recheck, retry; the auto entry/exit pass with its guardrails | private client, database; run by the engine and by each Streamlit session |
| reports and daily metrics (`services/db_service.py`) | `daily_performance_metrics`; the rest is computed from the filled rows and paper trades | books (first in, first out), realized profit of a day, refresh of the metrics | database; read by the pages and by the loss limit |
| API clients (`clients/*.py`, `services/api_retry_service.py`) | none between calls; inside one, spelling, path, attempt, last error | a request loop for each kind of call | exchange |
| paper trading (`core/`, `state.py`, `services/stats_service.py`, `services/log_service.py`) | positions, zones, cooldowns, daily counters; trade log file | entry, exit, import, clear, midnight | state file, log file |
| runtime state file (`services/state_service.py`) | `runtime_state.json`, its `.pending.json` and `.tmp` | save, load | engine writes, pages read |
| engine control and configuration (`main.py`, `config.py`) | configuration in force (twice), manual and safety pause | start, reload, pause, import, clear, quit, loop | config file, Telegram, state file |
| Telegram (`services/telegram_service.py`, `main.py`) | command log and its offset, pending confirmations, outbox | poll, ask, confirm, deliver | engine, database |
| reconciliation (`services/reconciliation_service.py`) | the runs and their findings | read open orders and balances, refresh open rows, compare | live orders, engine |
| retention and archive (`services/db_service.py`, `main.py`, the Diagnostics page) | archive files, `retention_archive_runs` | export old rows, delete them | database, file system |
| backup and restore (`services/backup_service.py`) | bundles with a snapshot of the database | snapshot, publish, restore | database |
| strategy proposals (`services/strategy_proposal_*.py`, `ui/streamlit/strategy_inbox.py`) | ledger of proposals, log of decisions | recompute, rate, sweep, apply, dismiss | database, configuration, reconciliation's findings |
| strategy lab, audit, market symbols, pages' rendering, older scripts | none, or append-only | computation, lookups, display | - |

What each must guarantee, and what makes that hard:

- **Live orders.** A row never says an order is over that is not; no order has two rows; a row
  follows the state table `ORDER_STATE_TRANSITIONS`; the engine does not trade a symbol that has an
  order already; a closed order is noticed in the end. Every process fetches a row, talks to the
  exchange and writes the row back without a lock; every call can fail, and an ambiguous failure
  may have done its work; the exchange fills and cancels at any time and forgets old orders.
- **API clients.** A write is not repeated; a read is retried but not for ever; the caller learns
  whether an outcome is ambiguous. Retries, paths and spellings are nested loops, and a failure is
  classified twice, the second time from its text alone.
- **Paper trading.** The limit of trades per day, one log row per sale, the rest after a sale. The
  log is written in the pass and the state after it, so a crash between them replays a sale; a pass
  can run over midnight or end in an exception.
- **Runtime state file.** A restart finds the last state saved. The save has a fallback file for
  when the main one is held open elsewhere, and the process can be killed between any two steps.
- **Engine control.** Positions have a rule that can close them, or the engine is paused; one
  configuration is in force; pauses survive a restart where they are meant to. A reload can be
  rejected after part of it is in force; hotkeys act on what was read at the top of an iteration;
  a Telegram confirmation acts on what was read when it was asked for.
- **Telegram.** A command runs at most once, only what its chat was asked to confirm, and the offset
  passes over none; a notice is sent or known to have failed. A crash can fall between the log entry
  of a command and its execution, a row of the outbox can be delivered to some chats only.
- **Trades and reports.** What the books call held is what the account holds; the rate the automatic
  exit looks at is what was paid; the two summaries of a page agree but for what was committed
  between them; a past day's profit stays. Each is computed from rows in an order, and rows settle late.
- **Reconciliation.** A run does not end with "ok" over an order nobody tracks. It relates readings
  of several moments while orders are placed, filled and refreshed elsewhere.
- **Retention, backup.** No row is deleted that is not archived; a day that counts as deleted has no
  rows left. Two processes archive the same day into the same file; a statement can fail
  between export, note and deletion; a restore brings rows back.
- **Proposals.** A row is decided once; a dismissal holds; a newer rule replaces the older one. Every
  call reads before its transaction, and several sessions do so at once.

`PROJECT.json` lists the hazards line by line, with the properties that cover each.

## 2. The modules

    ApiResults <--- ApiClient                 (CreateResults: what a place request can end in)
        ^
        '---------- LiveOrders ---INSTANCE--> OrderLifecycle   (abstract)
    LiveGuardrails <--- LiveTrades            (which orders may be sent)
    PaperTrading   RuntimeState   EngineControl   Telegram   Storage   Reconciliation
    Proposals      ProposalTiers

    MCLiveOrders   LiveOrders
    MCTrades       PaperTrading  or  LiveTrades         (variable part: "paper", "live")
    MCClients      ApiClient     or  Telegram           ("api", "bot")
    MCStorage      RuntimeState, Storage  or  Reconciliation  ("state", "tables", "recon")
    MCControl      EngineControl
    MCProposals    Proposals, and ProposalTiers on a few values
    LiveOrders_proofs      LiveOrders               LiveTrades_proofs      LiveTrades, LiveGuardrails
    PaperTrading_proofs    PaperTrading             RuntimeState_proofs    RuntimeState
    Clients_proofs         ApiClient, Telegram      Storage_proofs         Storage
    Control_proofs         EngineControl, Reconciliation
    Proposals_proofs       Proposals, ProposalTiers

Where an MC module has a variable `part`, each behavior is one of one specification, the variables
of the others being fixed: they share no state, so that their product would say no more than each
alone. One run then answers the questions of all; the fairness of each is stated for its own steps, and
leaves the behaviors of the others alone. MCStorage puts some of it in one formula,
`WF_all(OfState(Saving) \/ OfTables(BeginDue) \/ OfRecon(StartUp))`, which TLC checks faster: only one of the three can ever be enabled in a
behavior, so that for each part it is its own weak fairness.

**OrderLifecycle** is the abstract specification of one row: inserted in a state that a submission
can reach, then moved along the table only.

**LiveOrders** has `exchange` (external: modelled from what the code reads from it), `rows` (the
table) and `session`, the local memory of the handler each actor runs. An actor is a thread that runs
handlers: the engine (its loop, hotkeys and Telegram handlers follow one another) or a Streamlit
session. A step is one exchange call or one database transaction. `Submitting` is
`submit_manual_live_order` and the automatic pass of `main.py` (open orders symbol by symbol, the
rows, exit before entry); `Refreshing` is `refresh_live_order_from_exchange` with its fallbacks
`order_info`, `open_orders`, `order_history` and the inference that an order nobody lists was
cancelled; and `cancel_live_order` with recheck and retry. `Crash` ends a handler between any two
calls. `running` says whether the engine's loop refreshes and passes: `Switch` stands for manual and
safety pauses (`main.py:4914-4944` goes on before the refresh) and for changes of the mode (`main.py:5126`
refreshes in the live modes only). What other handlers do, hotkeys, Telegram and reconciliation, they do
in either case. Left out or simplified:
  - prices, amounts and texts: a choice of what they can lead to;
  - the handler's list of open rows is fetched row by row, at the moment a row is begun, which is
    the last time its record can have been read; a record read earlier in the list can be staler
    than the one modelled, the staleness itself is modelled;
  - an order whose create request was lost arrives while the call is running, not after it;
  - the ids of replaced orders are not followed; shadow-live journaling is in LiveTrades.

**ApiClient** is one caller of `_request` and the loops around it, and of `_get_json`. A step is one
HTTP request with the decision that follows its answer. `Forms` are the lists that the loops go through;
that of a cancel has three entries and two spellings, for `_base_quote_upper_symbol(...).lower()` is what
`_quote_base_lower_symbol` gives, too. A request is a form on a path, and `tries` counts how often each
was sent, whichever entry of the list it was taken from. LiveOrders does not repeat these loops: it
takes `CreateResults` from ApiResults, and `CreateStaysInResults` shows that the client ends a place
request in no other way.

**PaperTrading** has the dictionaries of `state.py` as `book`, the last saved ones as `saved`, and the
log file's rows of today. A pass takes the symbols in any order (the code has one fixed order; any
order includes it). Prices are left out: any symbol may enter its zone, any position may meet an
exit. `Drop` removes positions with their cooldowns: all of them (`ClearPositions`), or those that a reload
in another mode than paper prunes (`ReloadPrunes`; that a reload may raise before it saves is in EngineControl).
`Crash` loses `book` and keeps `log`; `Fail` is an exception inside a pass, after which the
loop saves. `NewDay` may come at any time, also during a pass (`late`). `resting` is the true age of
the last sale, against which the saved cooldowns are measured.

**RuntimeState** is `save_runtime_state`, an action for each operation on the file system, and
`load_runtime_state` as the operator `Loaded`, for any process may load in any state. States are
numbered by their saves. Each write advances the clock that stamps files: the two writes a load
has to tell apart lie a second of retries apart.

**EngineControl** is the control in `main.py`. `file` is edited from outside at any time; `active` is
what `config.py` hands to clients and services; `config` is the loop's own; `loop` is what an
iteration captured at its top. An operation is one step, for nothing else runs in that thread between
its parts, but every part may be its last: each operation writes events and audit rows on its way, and any of
these inserts may raise (the database is locked). `Reload` is one that ends, and keeps that `active` changes
although the loop rejects the file; `ReloadRaises` is one that does not: it raises where the pruned
positions are recorded, before the loop has the new configuration (`main.py:2782-2810`, between
`config.py:545` and `main.py:2812`), or after that, before or after the safety pause is cleared. What
follows depends on who began it. After a hotkey the loop's handler (`main.py:5276`) saves and begins the next
iteration (`Raises`); a Telegram command is reported as failed (`main.py:2230`), its confirmation is
used up, and nothing is saved (`ConfirmRaises`). Of the variables, `torn` and `failed` remember such an end:
`torn` until another reload or saved configuration, `failed` until the next save; the properties
need them to say what is left of the promise then. "live" stands for every mode but paper; a symbol has a rule or has none; there is one Telegram chat; the
balances at the start cover the positions or do not, by choice. `persist_state` is one step here;
how it can fail half-way is RuntimeState.

**LiveGuardrails** and **LiveTrades** are what an order may be and what becomes of it. LiveGuardrails has
the checks of `execution_service.py`: blocked reasons, notional and cash, the price band, the reasons
of an automatic exit, the rate the pages suggest. LiveTrades has the account (`thb`, `coins` not
reserved by an order), `orders` as rows in the order of their ids, and derives the books
as `db_service.py` does: lots first in, first out, fees included, one day's profit, the metrics refreshed
from them. `Loop` takes the day's total, at any prices, then an exit, else an entry; `ConsoleOrder`,
`TelegramOrder` and `UiOrder` are the manual ways, with the modes, pauses and totals that each of them
looks at; `FillHalf`, `Fill` and `Cancel` are the exchange; `ReadHistory` and `Show` are the two
readings a reports page is made of.

An order has four rates that need not be the same, and the code reads a different one in each place. `rate`
is what was asked for, and what `result.rate` of a response says. `part` and `last` are those at which it was
executed, in one step or two, at its rate or better (`ExecutionRates`); they move the account. `told` says
what the response in the filled row has: the order with its executions, the order without them, or no result
at all (a fill that is learned from the order history, `execution_service.py:1153-1166`). The books take the
last execution's rate, or that of the order (`BookRate`, `db_service.py:2845-2864`), for all of the order,
and the fee that the response has, or none (`BookFee`, `db_service.py:2867-2874`); the automatic exit takes
the order's rate, if the response has the order (`HoldingReason`, `account_service.py:527-531`). So the books need
not be what happened. `Truthful` names the rows where they are: the response has the fee, and all of the order was
executed at the rate that the books take. `BooksBalance` is stated of these; each of the three
conditions is needed, as TLC shows when one is dropped. `EntryRateIsCost` is stated of all rows: it
compares the rate of the exit with what was paid, not with the books. An order's row follows at once (that it lags is LiveOrders);
amounts are whole coins and baht; the map of symbols that the exchange refused once
(`unsupported_live_entry_symbols`) and the ranking of entry candidates are left to choice.

**Telegram** is one thread: wait, flush, poll, log, run, finish. `sent` is what users wrote, `log` is
`telegram_command_log` (its largest id is the offset), `pending` lives in memory and is lost by
`Crash`. `RunAsk` and `RunConfirm` are the two halves of a command that changes something; what the
change does is EngineControl and LiveTrades. `DeliverSome` has reached a part of the chats. `Switch` makes
the outbox `ready` or not (`telegram_enabled`, a token, a chat): a flush that finds it not ready leaves
every row queued, and `Queue` adds none while it is not enabled. `IterationFails` is a failed write to the database, which the loop survives.

**Storage** has one table (`db`), its archive files with the `.tmp` beside them, and two processes
that run retention, the engine's daily one and the Diagnostics page's. Each action is one statement
or one file operation: candidates, run row, rows, temporary file, replace, copy as the
fallback, note, deletion. A file handle knows what it leads to (`Lead`), so that two
processes in one file are told apart. `Snapshot`, `Publish` and `Restore` are backups; `Cut` ends a
process or fails a statement anywhere.

**Reconciliation** is `run_state_reconciliation` read by read: rows, each symbol's open orders,
balances, each tracked row's order, rows again, findings, status; `Elsewhere` is the exchange and the
other sessions meanwhile. `Findings` has all nine categories of `reconciliation_service.py`.
What becomes of paper positions at a start is a choice in EngineControl's `Start`.

**Proposals** is the ledger with the sessions of the inbox. A session's rerun opens, recomputes,
checks, reads what conflicts, inserts; sweeps what has expired; lists, applies or dismisses. A step is
a statement, or a transaction from its first write on. **ProposalTiers** is what rates a proposal:
scores, tiers and what blocks a prune, as operators over the knowledge that the page has of a symbol.
It has no state: Proposals leaves what is proposed to choice, of which the tiers decide what is
ticked in the form.

Definitions whose comment begins with "A fault" are variants of the definition below them
that no specification uses. They say which plausible slip each property would notice.

## 3. The runs

| run | what it shows | size |
|---|---|---|
| `live_engine` | An engine alone with the table implements OrderLifecycle (`LifecycleSpec`), never orders automatically for a symbol that has an order, except one that no row knows on a symbol that could not be read (`AutoOrderNeedsFreeSymbol`), and an order that closed is closed in its row in the end, while the loop runs (`ClosedOrdersSettle`). 2 orders, 2 rows, 2 symbols. | 136 thousand states |
| `live_two` | The engine and one Streamlit session: `TerminalRowsTruthful`, `OneRowPerOrder`. 2 orders, 2 rows, 1 symbol. | 1.56 million |
| `live_regress` | Finding 1 below. | violation |
| `api_blind` | Finding 2 below. | violation |
| `control` | `StateOnDisk`, `OneConfigInForce`, `SafetyPauseHolds`, `PausesUnlessManaged` with 2 symbols and no other bound. | 898 thousand |
| `control_unmanaged` | Finding 3 below. | violation |
| `trades` | Paper: `TradesWithinLimit`, `SalesLoggedOnce`, `RestBeforeReentry`; 2 symbols, 2 trades a day, 1 import a symbol and 1 crash or failed pass a day, any number of days. Live: `BooksBalance`, `EntryRateIsCost`, `PageAgrees`, `PastDaysStand`; up to 4 orders, 2 days. | 1.15 million |
| `shadow_sends` | Finding 4 below. | violation |
| `loss_limit` | Finding 5 below. | violation |
| `clients` | API, complete: `CreateStaysInResults`, `WritesNotRepeated`, `CallsReturn`. Telegram: `RunOnce`, `RunAsAsked`, `NoneSkipped`, `OneLostPerSlip`, `SettledForGood`, `ReachedLogged`, `NoticesSettle`; 3 messages, 2 notices, 1 slip. | 186 thousand |
| `storage` | State file: `LoadsLastSave`, `LoadsMainAtLeast`, `LoadsGoForward`, `SavesEnd`; 4 saves, 2 attempts each. Tables: `NothingLost`, `DeletedIsEmpty`, `RecentRowsKept`, `OldRowsGo`; 2 processes, 2 rows, 3 days, or 1 process and 4 days; one backup in 4 days, two in 3. Reconciliation: `OkMeansTracked`, `UntrackedReported`; 1 order and 2 symbols, or 2 orders of one. | 217 thousand |
| `proposals` | `DecidesOnce`, `DismissalsHold`, `OneRulePerSession`, `RuleUpdatesSettle`; 2 sessions on one symbol, or 1 on two. The assumptions of MCProposals evaluate what Proposals_proofs proves of the tiers. | 180 thousand |

Why the bounds are enough. *Two orders and two rows* are the least with which one request makes two
orders, a second row can be wrongly made, and a wrong row can be written. *Two symbols* let one be
readable and the other not, and in EngineControl let a file lose one rule of two. *Two actors* are
the least for stale writes; the proofs hold for any number. *MaxTrades = 2* separates
the limit from "one trade", *MaxImports = 1* and *MaxSlips = 1* let an import and a crash meet on the
same day, and a day's bound starts anew with each `NewDay`. *Four saves* give a fallback save, one
that removes or fails to remove the fallback, and another fallback over it, with one to spare; *two
attempts* have a retry that works and a giving up. *Three messages* let a command be replaced before
it is confirmed, or confirmed twice, and, with a poll of two, let a poll leave one for the next.
*Four live orders* buy at two rates and sell a part of each. *A buy of 8 THB with a fee of 4* at prices 1,
2 and 4 gives 4, 2 or 1 coins, and 8, 4 or 2 in books that know of no fee: every share is whole. An
order is executed in two steps where half of its coins is whole. *Four days* put two days before the
retention window. A switch of the outbox costs a notice of the budget's in the model, so that
it is tried while there is one to come.

Where one large bound would be out of reach, a behavior begins by choosing a member of a small set of
bounds, `Scopes`, `Budgets` or `Extents` in the MC modules, each made for one way in which things can meet: two
processes on few days, one on many; half fills without pauses, pauses without half fills. What needs two of these at once is not checked.

`live_engine` checks liveness, for which symmetry is not sound: there ids are numbers and
`NumberedSpec` takes them in their order, which leaves one of each set of behaviors that differ only in
names. `live_two` and `trades` check safety and use symmetry, of ids and of the paper trades' symbols;
they are interchangeable in the code; so does `control`. `live_two` looks at a loop that runs
(`SteadySpec`): one that does not only does less, and no step reads `running` but to be allowed. Deadlock is checked everywhere; where a bound ends everything
(the saves) a stuttering action says so.

### Fairness

- `Fairness` of LiveOrders, with `CrashesEnd` (live_engine): weak fairness of the steps of a handler that has
  begun, because every HTTP call has a timeout and the handler then goes on; strong fairness of
  refreshing each row that is open, of a loop that is `running` and idle again and again, because the market
  loop refreshes every open row in each of its iterations in a live mode, and manual orders, however many, only
  come in between; strong fairness of `order_info` on a row, because an exchange that refused it for ever
  would leave nothing to learn. Nothing is assumed of a loop that is paused or in paper mode: it may stay so for
  ever, and `ClosedOrdersSettle` says that the row settles, or the loop is not running at some later time. From some
  moment on there is no crash: a process that is killed again and again settles nothing.
- Telegram: weak fairness of the iteration, whose calls have timeouts and whose failures are caught;
  strong fairness of a poll that succeeds, as nothing can be learned if none ever does. Crashes and
  failed iterations are bounded by `MaxSlips`. That the outbox is ready is not assumed: `NoticesSettle` says
  that a notice settles or the outbox is not ready at some later time.
- ApiClient: weak fairness of the request, from its timeout. RuntimeState: of the save's own steps; retries are
  counted.
- Storage: weak fairness of the engine's daily cleanup and of its steps; the page's process has none.
- Reconciliation: weak fairness of the start and of the engine's steps, strong fairness of reading a
  symbol, and from some moment on no crash and no change of the rules, because the engine may be
  stopped, or the symbol lose its rule, before each run.
- Proposals: weak fairness of time, of a session's steps, and of a rerun of the page when a row has
  run out.

### Findings

1. **Terminal states are left** (`live_regress`). `update_execution_order`
   (`services/db_service.py:1234`) writes by id whatever the row holds. With a Streamlit session beside the
   engine, a record fetched before the other settled the row is written back over it;
   `services/execution_service.py:51-54` gives terminal states no successor. The regressed row is refreshed
   again later, and `TerminalRowsTruthful` holds all the time.
2. **A create is sent again after an ambiguous failure** (`api_blind`). `_request` gives up a path
   (`clients/bitkub_private_client.py:283`) and the loop over the paths sends the order to the next one;
   `docs/api_retry_handling.md:20` and `README.md:144` promise no blind retry.
3. **Positions without a rule and without a pause** (`control_unmanaged`). A wallet import pressed
   after a reload in the same wait uses the rules of before it (`main.py:3312`); a confirmed
   `/set_config` writes the configuration of when it was asked for (`main.py:2027`). `README.md:521-524`
   describes a safety pause for such a mismatch. `PausesUnlessManaged` is what does hold.
4. **Shadow-live sends orders** (`shadow_sends`). A manual order from Telegram or from the Live Ops page
   is submitted in shadow-live mode (`main.py:1439`, `ui/streamlit/actions.py:101`); only the console and
   the automatic orders are journaled instead, as the documentation has it.
5. **The daily loss limit does not see live losses** (`loss_limit`). The total given to the guardrails is
   that of the paper trades (`main.py:154`); the filled live orders of the day are not in it.

### Other differences between code and documents

Met while modelling, and not given a run of their own:

  - `assess_prune_readiness` says that a reserved balance without an order does not block a prune.
    It always does, by another finding (theorem `GhostsBlocked`). A symbol whose open rows have ids is not
    blocked when there is no account snapshot at all.
  - A dismissal dismisses one row; of several prune rows that have piled up for a symbol the others
    stay (`docs/strategy_ledger_phases_2026-04-23.md:228`). The inbox's prune does not check the verdict
    again at the click; the other pages do. A failed save is ignored at
    `ui/streamlit/strategy_inbox.py:926`.
  - The list of spellings that `cancel_order` goes through has `btc_thb` twice
    (`clients/bitkub_private_client.py:105-106`), so that a cancel that fails is sent again as it was, on the
    same path, without a look at the order; `docs/api_retry_handling.md:21` has one direct attempt, and the
    look before another. `WritesNotRepeated` says what is left: no retry adds to what the list repeats.
  - Only commands advance the offset of the poll, so that ten plain messages in a row stop it for good
    (`services/telegram_service.py:314`): `ReachedLogged` is about the commands within reach.
  - A half executed order that is cancelled is not "filled", and is missing from the books
    (`services/db_service.py:2877`). `BooksBalance` is checked where no order ends so.
  - The books are off where an order was executed at several rates, or at a better one that the response
    does not have, and where its fill was learned from the order history (no fee). A buy learned so
    has no entry rate, and is never sold automatically (`services/account_service.py:527`).
  - A reload out of paper mode whose record of the pruned positions fails leaves the clients with the new
    configuration and the loop with the old one, without a safety pause (`main.py:2782`):
    `OneConfigInForce` names this exception.
  - A notice that could not be delivered counts as a recent one (`services/telegram_service.py:86`): the same
    notice is not queued again before its cooldown is over.
  - A sell-zone exit is priced at `sell_above` and refused while the price is above it by more than
    the tolerance. A manual order has no price band at all.
  - A restored state file leaves the `.pending.json` of before the restore beside it.
  - Reconciliation: cash is listed as a holding, so any cash is an unmanaged one and "ok" needs none; a
    startup run cannot report a stale runtime state, which was saved just before
    (`main.py:2340`); an order filled between snapshot and refresh is reported as missing locally
    although it has a row; failed balances never give "failed", since the snapshot catches the
    error; symbols without a rule are not read, and their rows count as missing on the exchange; an
    open buy order of a coin that is held is reported as not reserving it.

## 4. The proofs

All theorems hold for every value of the constants, under the assumptions named in the modules:
`None` is not an id, a symbol or a row; the auto traders are actors; `MaxTrades` and `Retries` are at least
1, the bounds and amounts are numbers, and what a behavior may do (`Scopes`, `Extents`) has its type. Proposals
assumes that the symbols and rules are finitely many (a call notes one row after the other, and
`config.json` is a file), LiveTrades that prices are positive, that a buy is of a coin at least
(the exchange refuses less than the minimum order), that the symbols are numbered, as there is an
order of their names (`PairsAssumption`), and that a coin's share of the cost and of the fee of any lot in the books is
a whole number (`SharesAssumption`): the code divides floats, and with amounts in a unit of money that is
small enough nothing is left over; rounding is not modelled. EngineControl and ApiClient assume nothing. A run
evaluates every assumption, of the constants it gives.

- **LiveOrders_proofs.** `TypeCorrect`, `Truthfulness` (`TerminalRowsTruthful`), `Uniqueness`
  (`OneRowPerOrder`), for any number of actors. `TerminalRowsTruthful` is not inductive: what is
  written comes from a session. `IInv` adds `HandlerOK` (what each session may believe,
  depending on `pc`: in particular a terminal state about to be written is truthful already, and the
  order of a session that read `open_orders` without a match is closed), `RowOK` for
  the rows, and `Fresh` (an order on its way into the table is in no row and in no other session). The
  argument is that the exchange only moves forward (`Evolves`: a closed order stays closed with its
  status, and does not come back into the lists), so what a stale session knows of a terminal state
  cannot become false (`TruthfulStays`, `HandlerStays`, `RowStays`).
  `SingleWriterRefines` proves `LifecycleSpec` from `Spec` when there is one actor: then
  the record a session holds is ahead of its row by moves of the table only (`Ahead`), and the
  table is transitive but for "created", which is never stored (`MovesCompose`).
  `AutoOrdersGoToFree` (`AutoOrderNeedsFreeSymbol`) is for one actor, too. Its invariant `FInv` adds that a
  row has its order's symbol and is not "rejected" or "failed" (`KnownRow`), which make an order on the
  exchange with a row an open row of that symbol (`NotOpen`), and that what a pass has read stays true
  until it orders (`PassOK`): the exchange alone makes no order, and an exit that fails leaves orders in
  its own symbol only, which it marks as taken.
- **Control_proofs.** Of EngineControl `TypeCorrect`, `StateKept` (`StateOnDisk`), `ConfigAgreed`
  (`OneConfigInForce`), `PauseHolds`, `UnpausedIsManaged`, by one invariant, and for operations that may raise in
  each of their parts. `OneConfigInForce` needs
  `Agreed`, that the two configurations differ only under a safety pause or, `torn`, out of paper mode;
  `SafetyPauseHolds` needs `PassesUnpaused`, since a pass itself does not look
  at the pause. Of Reconciliation `RunsTypeCorrect` and `OkIsTracked` (`OkMeansTracked`), for any orders and
  symbols. `OkMeansTracked` speaks of the end of a run only; `RunInv` carries it there: what was read of
  a symbol lists the orders that are live now, but for those placed since (`ReadingHolds`, because
  the exchange makes no order anew and a closed one does not come back), a symbol that could not be read has
  left an error (`ErrorsKept`), and every symbol was asked for when a run compares (`AllAsked`).

- **PaperTrading_proofs.** `LimitHolds` (`TradesWithinLimit`), `LogExact` (`SalesLoggedOnce`) and
  `RestKept` (`RestBeforeReentry`). A crash puts the saved book in place of the one in memory, so
  `IInv` says of `Restored`, today's view of the saved book, what it says of the book:
  `Bounded` counts an open position as a trade that may still close today (this is what makes the limit
  hold although `can_open_new_trade` counts closed trades only), `LogCovered` gives the restored
  counters one sale's delay while a symbol has had its turn, and `Rests` says that a resting symbol
  cools down or has the sold position back. `SavedBeforeTurn` connects the two books: until its turn
  a symbol's position is as it was saved, so one crash forgets one sale at most.
- **RuntimeState_proofs.** `LastSaveLoaded`, `MainLoaded`, `LoadsInOrder`. The load sees
  times only; `TimesInOrder` says that of two readable files the later one is of the later save. It
  is kept by a replace because the temporary file is newer than both (`TmpNewest`) and by a fallback
  because that is written last of all. `DoneIsKept` says which file has the last save that returned.

- **LiveTrades_proofs.** `SuggestionInBand`: a rate the pages suggest passes the price band;
  `ExitsInBand`: an automatic exit is refused for its rate only in the sell zone, with the price above
  `sell_above` by more than the tolerance. For all prices and tolerances. `AccountTypeCorrect`: among the
  types, no order sells coins that the account does not have, whoever sends it in whatever mode.
  `PagesAgree` (`PageAgrees`): the orders and paper trades only grow and a filled row stays as it is
  (`RowsStep`, `PaperStep`), so that what the page has read is never newer than what it reads next
  (`PageInv`), and two readings of as many filled rows are readings of the same rows.
  Three theorems are about the books, for any number of orders, symbols and days. Books and sums are
  recursive functions of the rows' ids, and what is said of them is an induction over those. The
  library's induction theorems cannot be instantiated here, so `LeastNumber` takes a least number from
  the well-foundedness of `<`, `Induct` makes the induction of it, about a set of numbers, and `Recursion`
  shows that a function given step by step exists. On them rest the lemmas about sums (`SumsPlus`,
  `SumsDiffer`, `SumsSplit`, `SumsGrow`) and about the books (`BooksNext`, `LotsNext`, `ClosedNext`: what
  one more row changes). `StepKinds` says what any step is to orders and account: nothing, an order
  sent (`Sent`), or an order moved by the exchange (`Moves`).
  - `BooksAndAccountAgree` (`BooksBalance`). The books go by ids and the account by fills, so
    the two cannot be followed side by side. `AccountInv` compares neither with the other: the
    account is the sum of what each row has done to it by its state (`NetCash`, `NetCoins`), in
    whatever order it was done, and up to no id have more coins been sold than bought, although a buy may be filled
    after the sell behind it. It is inductive (`AccountKept`). Apart from the steps, what filled rows are
    worth is in the lots or in the closed trades (`ValuesKept`), provided that no sell finds too
    few lots (`Covered`), which `LotsCovered` takes from the account's invariant. That the rows are
    `Truthful` is needed at the end only, where what the books take of a row is what the row did to
    the account (`WholeNet`).
  - `EntryRatesAreCosts` (`EntryRateIsCost`). `FollowsInv` says of a symbol, while only the loop sends: it has
    at most one open order, the last of its rows; an open buy found nothing held, an open sell is of all
    that is held, and all that is held is what the last filled buy brought, at one rate or two, none of
    them above the one it was placed with (`BoughtLast`).
  - `PastDaysAreLeft` (`PastDaysStand`). A row that is filled now closes a trade of today, if any, and
    changes what sells behind it in its symbol close, no others: the books before and after agree in
    every day that has no such sell (`DayStands`, by induction over the ids).
- **Storage_proofs.** `RetentionTypeCorrect`, `RowsKept` (`NothingLost`), `DeletedStaysEmpty`
  (`DeletedIsEmpty`), `RecentRowsStay` (`RecentRowsKept`), for any number of processes, days, backups and
  restores. `NothingLost` is not inductive: a delete is safe because it deletes days that have a
  file, and the file is good because who writes it holds all rows of its day, which is over and gets no
  more of them. `RetentionInv` says so of the files (`FileOK`), of each process at each of its
  statements (`KeeperOK`) and of every copy of the database that may be put back (`DatabasesOK`).
- **Proposals_proofs.** Of the tiers `BetterRanksNoLower`: more profit never lowers one (`UpdateConfidence`
  is a sum of parts that grow with the profit, `Parts`, and `UpdateTierAt` grows with the confidence);
  `PrunesTicked`; `ReadyMeansAgreed` and `UnreadNeedsNoRows`: what is known of a symbol that may be
  pruned; `GhostsBlocked`. All of them for any profit, rows and balances.
  Of the ledger `LedgerTypeCorrect`, `EachDecidesOnce` (`DecidesOnce`), `DismissedStaysAway`
  (`DismissalsHold`), `NewerRuleReplaces` (`OneRulePerSession`), for any number of sessions, symbols and
  rules. All three speak of the notes, which every call only adds to (`Noting`, `Continues`), and
  none is inductive. `LedgerInv` ties the notes to the rows: a row that was decided is not pending
  (`NotesOK`), and a dismissal is the row's status still unless another session noted something since
  (`DismissalsLast`). And it says what a session in the middle of a call knows (`SessionOK`): it has
  decided none of what it is going to decide, what it is going to insert no dismissal of its own
  forbids, and the rows of its own that the first proposal replaces are among those it has read. Other
  sessions leave that true (`OthersOK`): their notes are not its own, and no decided row becomes
  pending again. So each step has to be looked at for one session only: `QuietOK` for those
  that write nothing, `DecideOK` for those that decide rows, `InsertOK` for the insertion.
- **Clients_proofs.** Of ApiClient `CreateResultsComplete` (`CreateStaysInResults`), which counts the
  orders made by path (`CountedByPath`); `WritesSentOnce` (`WritesNotRepeated`), for which the invariant counts
  the requests by the entries of the list that the loops are past (`SentByEntry`), and `AfterFailureShape` says
  where a failed request can lead.
  Of Telegram `RunsOnce` (`RunOnce`), `RunsAsAsked`, `OffsetSkipsNone` (`NoneSkipped`),
  `SlipsLoseOne` (`OneLostPerSlip`), `RowsStaySettled` (`SettledForGood`), for any number of chats,
  messages, notices and slips and any limit of a poll. The invariant follows the log:
  every command before one in the log is in the log, and every command before one of the batch is in
  the log or the batch (`NoneBehind`, `BatchOK`), so that the command in hand is the largest in the log
  (`HandOK`). What waits for a confirmation is then the last that its chat asked for, and what was run
  is neither waiting nor in hand (`PendingOK`, `RunsOK`). `OffsetPasses` needs that the largest logged
  id exists, and `First` that the least does: two facts about finite sets proved first.

Each inductive invariant was checked by TLC on the bounds of its run before it was proved.

Only model-checked: the liveness properties (`ClosedOrdersSettle`, `CallsReturn`, `SavesEnd`, `ReachedLogged`,
`NoticesSettle`, `OldRowsGo`, `RuleUpdatesSettle`, `UntrackedReported`), which need fairness and ENABLED. Every
invariant and every action property of the passing runs is proved; `LifecycleSpec` and
`AutoOrderNeedsFreeSymbol` for one actor, as they are checked.

## 5. Not modelled

  - The strategy lab and the replays: numbers computed from candles, without state of their own.
  - Of a backup, the manifest, its checksums and the other assets; audit, version and environment
    (append-only records and lookups); market symbols (lookups).
  - The rendering of the pages, and the lists and counts of reports beyond profit and filled rows.
  - The stand-alone predecessors `bitkub_bot.py`, `paper_trade_tracker.py`, `signal_tracker.py`.
  - Layers of the configuration other than `config.json`, and more than one Telegram chat in EngineControl.
  - In Proposals, how a proposal comes about: replays and texts.

## 6. What could follow

LiveTrades over LiveOrders, so that late rows and the books meet; the books where a half executed order
is canceled, with the sum by which they then miss the account.
