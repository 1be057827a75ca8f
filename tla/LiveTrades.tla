----------------------------- MODULE LiveTrades -----------------------------
(***************************************************************************)
(* What the live orders trade: which ones the loop and the operator may    *)
(* send, what they do to the account, and the books that db_service makes  *)
(* of the filled rows (first in, first out) for the realized profit and    *)
(* the reports.  LiveOrders has the steps of one order; here an order is   *)
(* sent, executed in one step or two, or canceled, and its row follows at  *)
(* once.  The exchange executes at the order's rate or a better one; what  *)
(* the row is told of it decides which rate and fee the books take.        *)
(***************************************************************************)
EXTENDS LiveGuardrails, FiniteSets, Sequences, FiniteSetsExt

CONSTANTS
    Pairs,        \* the symbols of the rules, numbers in the order of their names
    Prices,       \* the prices and rates of a coin
    BuyBelow,     \* buy_below of every rule
    SellFee,      \* the fee of a filled sell
    Cash,         \* the THB of the account at first
    PaperTrades,  \* [pnl, fee] of the paper trades that may be closed
    MaxDay,       \* bound: days
    Scopes        \* bounds: what may happen in one behavior

VARIABLES
    scope,        \* the member of Scopes, chosen at first
    day,
    mode,         \* config["mode"]
    paused,       \* which of the pauses are on: "manual", "safety"
    thb,          \* the account: THB that no order has reserved
    coins,        \* coins[s]: coins that no order has reserved
    orders,       \* execution_orders in the order of their ids, which is that of
                  \* created_at.  part, last: the rates at which a first half and the
                  \* last of it were executed, or 0; told: what the last response says
                  \* of that; day: of updated_at, once it is filled; sent: the mode it
                  \* was sent in; auto: the loop sent it
    paper,        \* paper_trade_logs
    total,        \* total_pnl of the last loop
    journal,      \* the last shadow_recorded row of the trade journal
    page          \* the reports page that is being made or shown

live == <<scope, day, mode, paused, thb, coins, orders, paper, total, journal, page>>

Days == 1..MaxDay
Modes == {"paper", "live", "shadow-live"}
NoRequest == [sym |-> 0, side |-> "none"]

\* What the response in a filled row may have: the order with its executions, the
\* order without them, or, from the order history, no result at all.
Tellings == {"executions", "order", "nothing"}

\* The symbols with a rule, the modes, the rates that the operator asks for, how
\* many orders, days and paper sales there may be, what rows are told of their
\* fills, and whether orders are filled by half and at better rates, the loop is
\* paused and the page is opened.
Scope ==
    [symbols : SUBSET Pairs, modes : SUBSET Modes, rates : SUBSET Prices, orders : Nat, days : Days,
     sales : Nat, told : SUBSET Tellings, halves : BOOLEAN, better : BOOLEAN, pauses : BOOLEAN,
     pages : BOOLEAN]

ASSUME PairsAssumption == IsFiniteSet(Pairs) /\ Pairs = 1..Cardinality(Pairs)
ASSUME DaysAssumption == MaxDay \in Nat \ {0} /\ Scopes \subseteq Scope
ASSUME AmountsAssumption ==
    /\ Budget \in Nat /\ BuyFee \in 0..Budget /\ SellFee \in Nat /\ Cash \in Nat
    /\ Prices \subseteq Nat \ {0} /\ SellAbove \in Nat \ {0}
    /\ PaperTrades \subseteq [pnl : Int, fee : Nat]

\* A buy is of a coin at least, or the exchange would refuse it.
ASSUME QtyAssumption == \A rate \in Prices : Qty(rate) >= 1

\* A coin in the books' lots, with the buy_rate and the buy_fee_thb of its lot.
Lot == [rate : Prices, fee : {0, BuyFee}]

\* net_coin_qty: the coins of such a lot.
LotCoins(lot) == (Budget - lot.fee) \div lot.rate

\* The unit of money is so small that a coin's share of the amount and of the fee of
\* its lot is whole: the code divides floats.
ASSUME SharesAssumption == \A lot \in Lot : Budget % LotCoins(lot) = 0 /\ lot.fee % LotCoins(lot) = 0

Order ==
    [sym : Pairs, side : {"buy", "sell"}, amt : Nat \ {0}, rate : Nat \ {0},
     state : {"open", "filled", "canceled"}, part : Nat, last : Nat, told : Tellings,
     day : 0..MaxDay, sent : Modes, auto : BOOLEAN]

-----------------------------------------------------------------------------
(* The books.                                                              *)

\* _extract_execution_fill_rate: the rate of the last execution, else that of the
\* order, which is the one that was asked for.
BookRate(row) == IF row.told = "executions" THEN row.last ELSE row.rate

\* _extract_execution_fee_thb: no fee, where the response has no result.
BookFee(row) ==
    IF row.told = "nothing" THEN 0 ELSE IF row.side = "buy" THEN BuyFee ELSE SellFee

LotOf(row) == [rate |-> BookRate(row), fee |-> BookFee(row)]

\* What a coin of the lot cost, and its share of the fee.
CoinCost(lot) == Budget \div LotCoins(lot)
CoinFee(lot) == lot.fee \div LotCoins(lot)

\* sums[n]: the sum of what the numbers up to n have.  A recursive function, as are
\* the books: the folds of the community modules cannot be reasoned about.
SumsOf(values) ==
    LET sums[n \in Nat] ==
            IF n = 0 THEN 0 ELSE sums[n - 1] + (IF n \in DOMAIN values THEN values[n] ELSE 0)
    IN sums

\* The sum of the values of a function on positive numbers.
SumOf(values) == SumsOf(values)[Max(DOMAIN values \cup {0})]

CostOf(lots) == SumOf([c \in DOMAIN lots |-> CoinCost(lots[c])])
FeeOf(lots) == SumOf([c \in DOMAIN lots |-> CoinFee(lots[c])])

\* What the sell i closes: the oldest of the lots, as many as it sold.
Closed(row, lots) ==
    LET n == Min({row.amt, Len(lots)})
        sold == SubSeq(lots, 1, n)
    IN [day |-> row.day, fee |-> BookFee(row) + FeeOf(sold),
        pnl |-> n * BookRate(row) - BookFee(row) - CostOf(sold)]

\* What is closed once the sell i is, too.
Closing(closed, i, trade) == [j \in {i} \cup DOMAIN closed |-> IF j = i THEN trade ELSE closed[j]]

\* The coins of a buy, one by one.
LotsOf(row) == [c \in 1..LotCoins(LotOf(row)) |-> LotOf(row)]

\* A fault: a lot that is used up is not removed.
EnterKeepingLots(books, i, row) ==
    LET lots == books.lots[row.sym] IN
    IF row.side = "buy"
    THEN [lots |-> [books.lots EXCEPT ![row.sym] = lots \o LotsOf(row)],
          closed |-> books.closed]
    ELSE IF lots = <<>> THEN books
    ELSE [lots |-> books.lots, closed |-> Closing(books.closed, i, Closed(row, lots))]

\* The filled row i in _build_live_execution_trade_history: a buy adds its coins to
\* the lots, a sell takes the oldest ones and closes a trade, if there are any.
EnterRow(books, i, row) ==
    LET lots == books.lots[row.sym] IN
    IF row.side = "buy"
    THEN [lots |-> [books.lots EXCEPT ![row.sym] = lots \o LotsOf(row)],
          closed |-> books.closed]
    ELSE IF lots = <<>> THEN books
    ELSE [lots |-> [books.lots EXCEPT ![row.sym] = SubSeq(lots, Min({row.amt, Len(lots)}) + 1, Len(lots))],
          closed |-> Closing(books.closed, i, Closed(row, lots))]

\* The filled rows by their ids.
FilledRows(rows) == [i \in {i \in DOMAIN rows : rows[i].state = "filled"} |-> rows[i]]

\* The coins in the lots of each symbol, and the closed trades by the ids of the sells.
NoBooks == [lots |-> [s \in Pairs |-> <<>>], closed |-> <<>>]

\* The books after the filled rows with ids up to n.
BooksAfter(filled) ==
    LET after[n \in Nat] ==
            IF n = 0 THEN NoBooks
            ELSE IF n \in DOMAIN filled THEN EnterRow(after[n - 1], n, filled[n])
            ELSE after[n - 1]
    IN after

\* A fault: the rows are read newest first, as the order console reads them.
BooksNewestFirst(filled) ==
    LET last == Max(DOMAIN filled \cup {0})
        after[n \in Nat] ==
            IF n = 0 THEN NoBooks
            ELSE IF last + 1 - n \in DOMAIN filled
            THEN EnterRow(after[n - 1], last + 1 - n, filled[last + 1 - n])
            ELSE after[n - 1]
    IN after[last]

\* The trades that some filled rows have closed, and the coins they left.
Books(filled) == BooksAfter(filled)[Max(DOMAIN filled \cup {0})]

OfDay(d, rows) == {i \in DOMAIN rows : rows[i].day = d}
PnlOn(d, rows) == SumOf([i \in OfDay(d, rows) |-> rows[i].pnl])
FeeOn(d, rows) == SumOf([i \in OfDay(d, rows) |-> rows[i].fee])
OrderFees(filled, among) == SumOf([i \in among |-> BookFee(filled[i])])

\* daily_totals: the realized profit of the day, which is that of paper trades.
PaperTotal(rows, d) == PnlOn(d, rows)

\* live_execution_pnl of a report, and the live part of a daily summary.
LiveDay(filled, d) ==
    LET closed == Books(filled).closed IN
    [orders |-> Cardinality(OfDay(d, filled)), fee |-> OrderFees(filled, OfDay(d, filled)),
     trades |-> Cardinality(OfDay(d, closed)), pnl |-> PnlOn(d, closed)]

\* A day in strategy_daily_metrics and portfolio_daily_metrics, whose fees are
\* those of the closed trades: of the live ones, or of the paper ones.
TradesDay(closed, d) ==
    [fee |-> FeeOn(d, closed), trades |-> Cardinality(OfDay(d, closed)), pnl |-> PnlOn(d, closed)]

MetricsDay(filled, d) == TradesDay(Books(filled).closed, d)

PaperDay(rows, d) == TradesDay(rows, d)

-----------------------------------------------------------------------------
NoPage == [at |-> "none"]

LiveInit ==
    /\ scope \in Scopes
    /\ day = 1
    /\ mode \in scope.modes
    /\ paused = {}
    /\ thb = Cash
    /\ coins = [s \in Pairs |-> 0]
    /\ orders = <<>>
    /\ paper = <<>>
    /\ total = 0
    /\ journal = NoRequest
    /\ page = NoPage

-----------------------------------------------------------------------------
(* Sending an order.                                                       *)

OpenRows(s) == {i \in DOMAIN orders : orders[i].sym = s /\ orders[i].state = "open"}

\* The accepted order reserves what it may cost, and its row is inserted.
Submit(r, auto) ==
    /\ Len(orders) < scope.orders
    /\ orders' = Append(orders, [sym |-> r.sym, side |-> r.side, amt |-> r.amt, rate |-> r.rate,
                                 state |-> "open", part |-> 0, last |-> 0, told |-> "nothing",
                                 day |-> 0, sent |-> mode, auto |-> auto])
    /\ IF r.side = "buy"
       THEN thb' = thb - Budget /\ UNCHANGED coins
       ELSE coins' = [coins EXCEPT ![r.sym] = @ - r.amt] /\ UNCHANGED thb

\* In shadow-live mode the request is written to the trade journal instead.
SendOrRecord(r, auto) ==
    IF mode = "shadow-live"
    THEN journal' = [sym |-> r.sym, side |-> r.side] /\ UNCHANGED <<thb, coins, orders>>
    ELSE Submit(r, auto) /\ UNCHANGED journal

\* fetch_latest_filled_execution_orders_by_symbol: the filled row with the
\* greatest id, as a set of at most one.
LatestFilled(s) ==
    {i \in DOMAIN orders :
        /\ orders[i].sym = s /\ orders[i].state = "filled"
        /\ \A j \in DOMAIN orders : j > i => ~(orders[j].sym = s /\ orders[j].state = "filled")}

\* A holding's reason to be sold: only what was bought last has an entry rate, which
\* is the order's rate in the response, if the response has the order.
HoldingReason(s, price) ==
    IF \E i \in LatestFilled(s) : orders[i].side = "buy" /\ orders[i].told # "nothing"
    THEN ExitReason(orders[CHOOSE i \in LatestFilled(s) : TRUE].rate, price)
    ELSE "NO_BUY_REFERENCE"

\* evaluate_live_exit_candidates: the requests for the symbols that have no
\* open order.
ExitCandidates(prices) ==
    {SellRequest(s, coins[s], ExitRate(orders[CHOOSE i \in LatestFilled(s) : TRUE].rate, prices[s])) :
        s \in {t \in DOMAIN prices :
                  /\ OpenRows(t) = {} /\ coins[t] > 0
                  /\ HoldingReason(t, prices[t]) \in {"STOP_LOSS", "SELL_ZONE", "TAKE_PROFIT"}}}

\* exit_candidates[0]: the holdings are listed by name.
FirstExit(prices) ==
    CHOOSE r \in ExitCandidates(prices) : \A q \in ExitCandidates(prices) : r.sym <= q.sym

\* A fault: a symbol that is held may be bought again.
EntryCandidatesHeld(signals, prices) ==
    {BuyRequest(s, prices[s]) : s \in {t \in signals : OpenRows(t) = {}}}

\* evaluate_live_entry_candidates for the symbols that came into their buy zone
\* in this loop: no open order, no coins (those of an open sell are reserved).
EntryCandidates(signals, prices) ==
    {BuyRequest(s, prices[s]) : s \in {t \in signals : OpenRows(t) = {} /\ coins[t] = 0}}

\* submit_auto_live_exit_action: TRUE if the first candidate passes.
ExitPasses(prices, pnl) ==
    /\ ExitCandidates(prices) # {}
    /\ Unblocked(mode, paused, pnl)
    /\ LET r == FirstExit(prices) IN SellFits(r, coins[r.sym], prices[r.sym])

\* submit_auto_live_entry_action with the candidate that is ranked first.
EntryPasses(r, price, pnl) == Unblocked(mode, paused, pnl) /\ BuyFits(r, thb, price)

\* submit_auto_live_exit_action: the exit is sent.
AutoExit(prices) == ExitPasses(prices, total') /\ SendOrRecord(FirstExit(prices), TRUE)

\* There is none, it is blocked, or sending it fails; a record of it does not.
NoExit(prices) == ExitPasses(prices, total') => mode = "live"

\* submit_auto_live_entry_action: an entry is sent.
AutoEntry(prices) ==
    \E signals \in SUBSET {s \in scope.symbols : prices[s] <= BuyBelow} :
        \E r \in EntryCandidates(signals, prices) :
            EntryPasses(r, prices[r.sym], total') /\ SendOrRecord(r, TRUE)

\* A loop in a live mode, at any prices.  The totals of the day are taken, then
\* at most one order is sent: an exit, else an entry.
Loop ==
    /\ mode \in {"live", "shadow-live"}
    /\ paused = {}
    /\ total' = PaperTotal(paper, day)
    /\ \E prices \in [scope.symbols -> Prices] :
         \/ AutoExit(prices)
         \/ NoExit(prices) /\ (AutoEntry(prices) \/ UNCHANGED <<thb, coins, orders, journal>>)
    /\ UNCHANGED <<scope, day, mode, paused, paper, page>>

\* A loop that only takes the totals: paused, or in paper mode, where a sale may
\* be logged.
LoopWithoutOrders ==
    /\ \/ mode = "paper" /\ Len(paper) < scope.sales
          /\ \E sale \in PaperTrades :
               paper' = Append(paper, [day |-> day, pnl |-> sale.pnl, fee |-> sale.fee])
       \/ (mode = "paper" \/ paused # {}) /\ UNCHANGED paper
    /\ total' = PaperTotal(paper', day)
    /\ UNCHANGED <<scope, day, mode, paused, thb, coins, orders, journal, page>>

ManualRequests ==
    {ManualRequest(s, side, 1, rate) : s \in scope.symbols, side \in {"buy", "sell"}, rate \in scope.rates}

ManualPasses(r, pauses, pnl) ==
    Unblocked(mode, pauses, pnl) /\ ManualFits(r, thb, coins[r.sym])

\* The console's hotkey.
ConsoleOrder ==
    /\ \E r \in ManualRequests :
         ManualPasses(r, paused, total) /\ SendOrRecord(r, FALSE)
    /\ UNCHANGED <<scope, day, mode, paused, paper, total, page>>

\* A confirmed /buy or /sell: the order is sent in shadow-live mode too.
TelegramOrder ==
    /\ \E r \in ManualRequests : ManualPasses(r, paused, total) /\ Submit(r, FALSE)
    /\ UNCHANGED <<scope, day, mode, paused, paper, total, journal, page>>

\* The form of the Live Ops page, in a process of its own: it reads the day's
\* totals from the runtime state, and takes no safety pause into account.
UiOrder ==
    /\ \E r \in ManualRequests :
         ManualPasses(r, paused \ {"safety"}, PaperTotal(paper, day)) /\ Submit(r, FALSE)
    /\ UNCHANGED <<scope, day, mode, paused, paper, total, journal, page>>

-----------------------------------------------------------------------------
(* The exchange and the world around.                                      *)

\* The rates at which an order may be executed: its own, or a better one.
ExecutionRates(row) ==
    {row.rate} \cup {p \in Prices : scope.better /\ IF row.side = "buy" THEN p < row.rate ELSE p > row.rate}

\* The coins of an order, all of it executed at the rate: a buy spends its amount.
Coins(row, rate) == IF row.side = "buy" THEN Qty(rate) ELSE row.amt

\* Orders are executed in two steps only where half of their coins is a whole number.
Halves(row, rate) == Coins(row, rate) % 2 = 0

\* The coins that are executed last, at the rate.
Rest(row, rate) == IF row.part = 0 THEN Coins(row, rate) ELSE Coins(row, rate) \div 2

\* Half of an order is executed; the row stays open (partially_filled).
FillHalf(i) ==
    /\ scope.halves
    /\ orders[i].state = "open" /\ orders[i].part = 0
    /\ \E rate \in ExecutionRates(orders[i]) :
         /\ Halves(orders[i], rate)
         /\ orders' = [orders EXCEPT ![i].part = rate]
         /\ LET half == Coins(orders[i], rate) \div 2 IN
              IF orders[i].side = "buy"
              THEN coins' = [coins EXCEPT ![orders[i].sym] = @ + half] /\ UNCHANGED thb
              ELSE thb' = thb + half * rate /\ UNCHANGED coins
    /\ UNCHANGED <<scope, day, mode, paused, paper, total, journal, page>>

\* An order is filled: at the rate, and the row is told so in one way or another.
Fill(i) ==
    /\ orders[i].state = "open"
    /\ \E rate \in ExecutionRates(orders[i]), told \in scope.told :
         /\ orders[i].part # 0 => Halves(orders[i], rate)
         /\ orders' = [orders EXCEPT ![i].state = "filled", ![i].last = rate, ![i].told = told,
                                     ![i].day = day]
         /\ LET rest == Rest(orders[i], rate) IN
              IF orders[i].side = "buy"
              THEN coins' = [coins EXCEPT ![orders[i].sym] = @ + rest] /\ UNCHANGED thb
              ELSE thb' = thb + rest * rate - SellFee /\ UNCHANGED coins
    /\ UNCHANGED <<scope, day, mode, paused, paper, total, journal, page>>

\* The THB that a buy has not spent.
Unspent(row) == IF row.part = 0 THEN Budget ELSE Budget - Budget \div 2

\* The rest of a canceled order is given back.
Cancel(i) ==
    /\ orders[i].state = "open"
    /\ orders' = [orders EXCEPT ![i].state = "canceled"]
    /\ IF orders[i].side = "buy"
       THEN thb' = thb + Unspent(orders[i]) /\ UNCHANGED coins
       ELSE coins' = [coins EXCEPT ![orders[i].sym] = @ + Rest(orders[i], orders[i].rate)] /\ UNCHANGED thb
    /\ UNCHANGED <<scope, day, mode, paused, paper, total, journal, page>>

Midnight ==
    /\ day < scope.days
    /\ day' = day + 1
    /\ UNCHANGED <<scope, mode, paused, thb, coins, orders, paper, total, journal, page>>

SwitchMode ==
    /\ mode' \in scope.modes \ {mode}
    /\ UNCHANGED <<scope, day, paused, thb, coins, orders, paper, total, journal, page>>

Pauses ==
    /\ scope.pauses
    /\ \E p \in {"manual", "safety"} :
         paused' = IF p \in paused THEN paused \ {p} ELSE paused \cup {p}
    /\ UNCHANGED <<scope, day, mode, thb, coins, orders, paper, total, journal, page>>

-----------------------------------------------------------------------------
(* The reports page, in the engine's database but another process.         *)

\* What is read of the live orders: the days' figures and how many rows were filled.
LiveReport ==
    LET filled == FilledRows(orders) IN
    [days |-> [d \in Days |-> LiveDay(filled, d)], filled |-> Cardinality(DOMAIN filled)]

MetricsReport ==
    LET filled == FilledRows(orders) IN
    [days |-> [d \in Days |-> MetricsDay(filled, d)], filled |-> Cardinality(DOMAIN filled)]

PaperReport == [d \in Days |-> PaperDay(paper, d)]

\* fetch_reports_page_dataset reads the filled rows for its summaries.
ReadHistory ==
    /\ scope.pages /\ page.at \in {"none", "shown"}
    /\ page' = [at |-> "read", live |-> LiveReport]
    /\ UNCHANGED <<scope, day, mode, paused, thb, coins, orders, paper, total, journal>>

\* The refresh of the daily metrics reads the paper trades ...
RefreshPaper ==
    /\ page.at = "read"
    /\ page' = [at |-> "paper", live |-> page.live, metricsPaper |-> PaperReport]
    /\ UNCHANGED <<scope, day, mode, paused, thb, coins, orders, paper, total, journal>>

\* ... and the filled rows once more.
RefreshLive ==
    /\ page.at = "paper"
    /\ page' = [at |-> "live", live |-> page.live, metricsPaper |-> page.metricsPaper,
                metrics |-> MetricsReport]
    /\ UNCHANGED <<scope, day, mode, paused, thb, coins, orders, paper, total, journal>>

\* A fault: the page shows the history that was read for the metrics.
ShowOther ==
    /\ page.at = "live"
    /\ page' = [at |-> "shown", live |-> LiveReport, metricsPaper |-> page.metricsPaper,
                metrics |-> page.metrics, paper |-> PaperReport]
    /\ UNCHANGED <<scope, day, mode, paused, thb, coins, orders, paper, total, journal>>

\* In the transaction that replaces the metrics, the daily summary reads the
\* paper trades.
Show ==
    /\ page.at = "live"
    /\ page' = [at |-> "shown", live |-> page.live, metricsPaper |-> page.metricsPaper,
                metrics |-> page.metrics, paper |-> PaperReport]
    /\ UNCHANGED <<scope, day, mode, paused, thb, coins, orders, paper, total, journal>>

-----------------------------------------------------------------------------
LiveNext ==
    \/ Loop \/ LoopWithoutOrders
    \/ ConsoleOrder \/ TelegramOrder \/ UiOrder
    \/ \E i \in DOMAIN orders : FillHalf(i) \/ Fill(i) \/ Cancel(i)
    \/ Midnight \/ SwitchMode \/ Pauses
    \/ ReadHistory \/ RefreshPaper \/ RefreshLive \/ Show

LiveSpec == LiveInit /\ [][LiveNext]_live
-----------------------------------------------------------------------------
(* Properties.                                                             *)

\* The types of all but the total, which is a sum: above all, no coin is sold that
\* the account does not have.
LiveTypeOK ==
    /\ scope \in Scope /\ day \in Days /\ mode \in Modes /\ paused \subseteq {"manual", "safety"}
    /\ thb \in Int /\ coins \in [Pairs -> Nat] /\ orders \in Seq(Order)
    /\ paper \in Seq([day : Days, pnl : Int, fee : Nat])
    /\ journal \in [sym : Pairs \cup {0}, side : {"none", "buy", "sell"}]
    /\ page.at \in {"none", "read", "paper", "live", "shown"}

NoHalves == \A i \in DOMAIN orders : orders[i].part # 0 => orders[i].state = "filled"

\* What the books take of a filled row is what happened: the response has the fee,
\* and all of the order was executed at the rate that it gives.
Truthful(row) == row.told # "nothing" /\ BookRate(row) = row.last /\ row.part \in {0, row.last}

\* Where the filled rows are truthful, the books and the account tell the same
\* story: the cash is what the account began with, plus the realized profit of all
\* closed trades, less what the coins in the lots cost and what open orders hold;
\* and the fees of the filled orders are those of the closed trades and of the coins
\* in the lots.
\* The books are made in the order of the ids, the account in that of the
\* fills.  An order of which only a part was executed is in no book: not as long as
\* it is open, and never if it is then canceled.
BooksBalance ==
    (NoHalves /\ \A i \in DOMAIN orders : orders[i].state = "filled" => Truthful(orders[i])) =>
        LET filled == FilledRows(orders)
            books == Books(filled)
            held == books.lots
            profit == SumOf([i \in DOMAIN books.closed |-> books.closed[i].pnl])
            paid == SumOf([i \in DOMAIN books.closed |-> books.closed[i].fee])
            costs == SumOf([s \in Pairs |-> CostOf(held[s])])
            fees == SumOf([s \in Pairs |-> FeeOf(held[s])])
            buys == {i \in DOMAIN orders : orders[i].state = "open" /\ orders[i].side = "buy"}
            sells(s) == {i \in OpenRows(s) : orders[i].side = "sell"}
        IN /\ thb = Cash + profit - costs - SumOf([i \in buys |-> Budget])
           /\ \A s \in Pairs :
                coins[s] = Len(held[s]) - SumOf([i \in sells(s) |-> orders[i].amt])
           /\ OrderFees(filled, DOMAIN filled) = paid + fees

\* The coins that a filled buy brought.
Bought(row) == Rest(row, row.last) + (IF row.part = 0 THEN 0 ELSE Coins(row, row.part) \div 2)

\* All of these coins were bought by the last filled order of the symbol, and none
\* of them for more than its rate.
BoughtLast(s, qty) ==
    \E i \in LatestFilled(s) :
        /\ orders[i].side = "buy" /\ Bought(orders[i]) = qty
        /\ orders[i].last <= orders[i].rate /\ orders[i].part <= orders[i].rate

\* Where only the loop sends orders and none is canceled half executed, what the
\* account has of a symbol, or has given to an open sell, is what the last filled
\* order of the symbol bought.  Its rate, the entry rate from which the automatic exit
\* takes its stop loss and its profit, is what they cost, or more where the exchange had
\* a better price: no coin of an earlier buy is among them.
EntryRateIsCost ==
    (NoHalves /\ \A i \in DOMAIN orders : orders[i].auto) =>
        \A s \in Pairs :
            /\ coins[s] > 0 => BoughtLast(s, coins[s])
            /\ \A i \in OpenRows(s) :
                  orders[i].side = "sell" => coins[s] = 0 /\ BoughtLast(s, orders[i].amt)

\* The two summaries of a shown page differ only by what was committed while it
\* was made: the metrics are never older than the live summary, nor newer than
\* the paper summary, and where as many rows were filled they say the same.
PageAgrees ==
    page.at = "shown" =>
        /\ page.live.filled <= page.metrics.filled
        /\ page.live.filled = page.metrics.filled =>
              \A d \in Days : /\ page.live.days[d].trades = page.metrics.days[d].trades
                              /\ page.live.days[d].pnl = page.metrics.days[d].pnl
        /\ \A d \in Days : page.metricsPaper[d].trades <= page.paper[d].trades

\* The reported profit of a past day is changed by nothing but an order that is
\* filled late: one that was placed before a sell of that day, and so comes
\* before it in the books.
PastDaysStand ==
    [][\A d \in 1..(day - 1) :
        LiveDay(FilledRows(orders), d).pnl # LiveDay(FilledRows(orders'), d).pnl =>
            \E i, j \in DOMAIN orders :
                /\ orders[i].state = "open" /\ orders'[i].state = "filled"
                /\ i < j /\ orders[j].sym = orders[i].sym
                /\ orders[j].side = "sell" /\ orders[j].state = "filled" /\ orders[j].day = d]_live

\* main.mode_notice says that shadow-live mode runs "without sending exchange
\* orders".  The orders of Telegram and of the form are sent.
ShadowSendsNothing == \A i \in DOMAIN orders : orders[i].sent # "shadow-live"

\* The guardrail says that the "daily realized PnL has reached the live loss
\* limit": no order is sent when today's live orders have lost that much.  The
\* profit it is given is that of the paper trades.
LossLimitHolds ==
    [][Len(orders') > Len(orders) => LiveDay(FilledRows(orders), day).pnl > -LossLimit]_live
=============================================================================
