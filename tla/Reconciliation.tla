--------------------------- MODULE Reconciliation ---------------------------
(***************************************************************************)
(* main.run_state_reconciliation: the engine compares the open rows of     *)
(* execution_orders with the account on the exchange, at its start and     *)
(* every five minutes in the live modes, brings the rows it tracks up to   *)
(* date and records what does not fit.                                     *)
(*                                                                         *)
(* The comparison is made of readings of several moments: the rows, then   *)
(* the open orders of one symbol after the other, the balances, each row's *)
(* order, and the rows again.  Meanwhile orders are placed, filled and     *)
(* canceled, and a Streamlit session inserts and refreshes rows.  A step   *)
(* is a call to the exchange or a transaction; how a refresh finds out     *)
(* about its order is LiveOrders' matter.                                  *)
(***************************************************************************)
EXTENDS Naturals, Sequences

CONSTANTS
    Pairs,       \* numbered in the order of their names
    Cash,        \* THB, which balances list beside the coins
    Orders,      \* the orders an account may ever have
    SymbolOf,    \* the symbol of an order
    BuyOrders,   \* the orders that buy; the others sell
    Extents      \* bound: what may happen in one behavior

\* The orders that may be placed, the symbols that may have a rule, and whether
\* orders may be filled by half, and may take all that is available.
Extent == [orders : SUBSET Orders, symbols : SUBSET Pairs, halves : BOOLEAN, dry : BOOLEAN]

ASSUME OrdersAssumption == SymbolOf \in [Orders -> Pairs] /\ BuyOrders \subseteq Orders
ASSUME PairsAssumption == Pairs \subseteq Nat /\ Cash \notin Pairs
ASSUME ExtentsAssumption == Extents \subseteq Extent

VARIABLES
    exchange,    \* exchange[o]: the order o on the exchange
    free,        \* the assets with an available balance
    rows,        \* execution_orders, in the order of their ids
    rules,       \* the symbols of config["rules"]
    client,      \* whether there are credentials for the private client
    metadata,    \* the runtime state was last restored from its pending file, or saved
    at,          \* where the engine is
    run,         \* what the run has read, or the last run has recorded
    extent       \* the member of Extents for this behavior

recon == <<exchange, free, rows, rules, client, metadata, at, run, extent>>

account == <<exchange, free>>

Live == {"open", "partially_filled"}
Terminal == {"filled", "canceled"}

\* xid: whether the row has its order's exchange id; a create call may not have
\* told it.
Row == [order : Orders, xid : BOOLEAN, state : Live \cup Terminal]

OpenRows == {r \in DOMAIN rows : rows[r].state \in Live}
HasRow(o, among) == \E r \in among : rows[r].order = o /\ rows[r].xid
LiveOrders(s) == {o \in Orders : SymbolOf[o] = s /\ exchange[o] \in Live}

\* An open buy order reserves cash, an open sell order coins.
Reserved ==
    {s \in Pairs : LiveOrders(s) \ BuyOrders # {}}
    \cup {c \in {Cash} : \E s \in Pairs : LiveOrders(s) \cap BuyOrders # {}}

\* reading[s]: what the call for the open orders of s has come to; visible: the
\* open orders read; balances: whether the balances were read, and the assets
\* of which some is available, or reserved; errors: whether a call failed;
\* todo: the tracked rows to be refreshed.  Of a run that is over, its status
\* stays, and the orders it found to be missing locally.
Reading == {"unread", "ok", "error", "unsupported"}
NoFindings ==
    [missing_locally |-> {}, missing_on_exchange |-> {}, orders_without_exchange_id |-> {},
     stale_pending |-> {}, partially_filled |-> {}, reserved_without_open_order |-> {},
     open_order_without_reserved |-> {}, unmanaged_live_holdings |-> {},
     runtime_state_stale |-> FALSE]

NoRun ==
    [reading |-> [s \in Pairs |-> "unread"], visible |-> {}, balances |-> FALSE, errors |-> FALSE,
     available |-> {}, reserved |-> {}, todo |-> {}, late |-> {},
     status |-> "none", missing_locally |-> {}]

Assets == Pairs \cup {Cash}

Runs ==
    [reading : [Pairs -> Reading], visible : SUBSET Orders, balances : BOOLEAN, errors : BOOLEAN,
     available : SUBSET Assets, reserved : SUBSET Assets, todo : SUBSET Nat, late : SUBSET Orders,
     status : {"none", "ok", "warning", "unavailable"}, missing_locally : SUBSET Orders]

ReconInit ==
    /\ exchange = [o \in Orders |-> "none"]
    /\ extent \in Extents
    /\ free \in SUBSET (extent.symbols \cup {Cash})
    /\ rows = <<>>
    /\ rules \in (SUBSET extent.symbols) \ {{}}
    /\ client \in BOOLEAN
    /\ metadata = "saved"
    /\ at = "off"
    /\ run = NoRun

-----------------------------------------------------------------------------
(* The account, and the sessions that work on it.                          *)

\* late: the orders placed since their symbol was read (for OkMeansTracked).
Place(o) ==
    /\ o \in extent.orders /\ exchange[o] = "none"
    /\ exchange' = [exchange EXCEPT ![o] = "open"]
    /\ \E left \in {TRUE, ~extent.dry} :
         LET spent == IF o \in BuyOrders THEN Cash ELSE SymbolOf[o] IN
         /\ spent \in free
         /\ free' = IF left THEN free ELSE free \ {spent}
    /\ run' = IF run.reading[SymbolOf[o]] = "unread" THEN run
              ELSE [run EXCEPT !.late = @ \cup {o}]
    /\ UNCHANGED <<rows, rules, client, metadata, at, extent>>

FillHalf(o) ==
    /\ extent.halves /\ exchange[o] = "open"
    /\ exchange' = [exchange EXCEPT ![o] = "partially_filled"]
    /\ free' = free \cup {IF o \in BuyOrders THEN SymbolOf[o] ELSE Cash}
    /\ UNCHANGED <<rows, rules, client, metadata, at, run, extent>>

Fill(o) ==
    /\ exchange[o] \in Live
    /\ exchange' = [exchange EXCEPT ![o] = "filled"]
    /\ free' = free \cup {IF o \in BuyOrders THEN SymbolOf[o] ELSE Cash}
    /\ UNCHANGED <<rows, rules, client, metadata, at, run, extent>>

Cancel(o) ==
    /\ exchange[o] \in Live
    /\ exchange' = [exchange EXCEPT ![o] = "canceled"]
    /\ free' = free \cup {IF o \in BuyOrders THEN Cash ELSE SymbolOf[o]}
    /\ UNCHANGED <<rows, rules, client, metadata, at, run, extent>>

\* insert_execution_order, in the state that the order had when it was placed or
\* confirmed.
InsertRow(o) ==
    /\ exchange[o] # "none"
    /\ \A r \in DOMAIN rows : rows[r].order # o
    /\ \E row \in [order : {o}, xid : BOOLEAN, state : {"open", exchange[o]}] :
         /\ row.xid \/ row.state = "open"
         /\ rows' = Append(rows, row)
    /\ UNCHANGED <<account, rules, client, metadata, at, run, extent>>

\* persist_execution_order_changes of a session's refresh.
Refreshed(r) == [rows EXCEPT ![r].state = exchange[rows[r].order]]
RefreshElsewhere(r) ==
    /\ r \in OpenRows
    /\ rows[r].xid
    /\ rows' = Refreshed(r)
    /\ UNCHANGED <<account, rules, client, metadata, at, run, extent>>

Elsewhere ==
    \/ \E o \in Orders : Place(o) \/ FillHalf(o) \/ Fill(o) \/ Cancel(o)
                         \/ InsertRow(o)
    \/ \E r \in DOMAIN rows : RefreshElsewhere(r)

-----------------------------------------------------------------------------
(* A run.                                                                  *)

\* The engine starts and restores its runtime state.
StartUp ==
    /\ at = "off"
    /\ at' = "starting"
    /\ metadata' \in {"saved", "pending"}
    /\ UNCHANGED <<account, rows, rules, client, run, extent>>

\* fetch_open_execution_orders: the rows that are tracked.  Without a client
\* there is nothing to refresh them with.
Begins ==
    /\ at' = IF client THEN "snapshot" ELSE "compare"
    /\ run' = [NoRun EXCEPT !.todo = IF client THEN OpenRows ELSE {}]
    /\ UNCHANGED <<account, rows, rules, client, extent>>

\* main saves the state before it has the first run.
BeginFirst == at = "starting" /\ metadata' = "saved" /\ Begins

\* Five minutes are over, in a live mode.
BeginPeriodic == at = "loop" /\ UNCHANGED metadata /\ Begins

Unread(s) == s \in rules /\ run.reading[s] = "unread"

\* A fault for the checks: what is read replaces what was read before.
ReadLastSymbol(s) ==
    /\ at = "snapshot"
    /\ Unread(s) /\ \A q \in rules : Unread(q) => s <= q
    /\ run' = [run EXCEPT !.reading[s] = "ok", !.visible = LiveOrders(s)]
    /\ UNCHANGED <<account, rows, rules, client, metadata, at, extent>>

\* fetch_account_snapshot asks for the open orders of the symbols with a rule,
\* in the order of their names.
ReadSymbol(s) ==
    /\ at = "snapshot"
    /\ Unread(s) /\ \A q \in rules : Unread(q) => s <= q
    /\ run' = [run EXCEPT !.reading[s] = "ok", !.visible = @ \cup LiveOrders(s)]
    /\ UNCHANGED <<account, rows, rules, client, metadata, at, extent>>

\* account_snapshot_errors: that the exchange does not support a symbol is none.
SymbolFails(s) ==
    /\ at = "snapshot"
    /\ Unread(s) /\ \A q \in rules : Unread(q) => s <= q
    /\ \E failure \in {"error", "unsupported"} :
         run' = [run EXCEPT !.reading[s] = failure, !.errors = @ \/ failure = "error"]
    /\ UNCHANGED <<account, rows, rules, client, metadata, at, extent>>

SymbolsRead == at = "snapshot" /\ ~\E s \in rules : Unread(s)

ReadBalances ==
    /\ SymbolsRead
    /\ at' = "refresh"
    /\ run' = [run EXCEPT !.balances = TRUE, !.available = free, !.reserved = Reserved]
    /\ UNCHANGED <<account, rows, rules, client, metadata, extent>>

\* The balances could not be read; a server time or a wallet that could not is
\* an error like theirs.
BalancesFail ==
    /\ SymbolsRead
    /\ at' = "refresh"
    /\ \E read \in BOOLEAN :
         run' = [run EXCEPT !.errors = TRUE, !.balances = read,
                            !.available = IF read THEN free ELSE {},
                            !.reserved = IF read THEN Reserved ELSE {}]
    /\ UNCHANGED <<account, rows, rules, client, metadata, extent>>

\* The next tracked row, the newest first: it is brought up to date, or that
\* fails, as it does without an exchange id.
RefreshRow ==
    /\ at = "refresh"
    /\ run.todo # {}
    /\ LET r == CHOOSE r \in run.todo : \A q \in run.todo : q <= r IN
         \/ /\ rows[r].xid
            /\ rows' = Refreshed(r)
            /\ run' = [run EXCEPT !.todo = @ \ {r}]
         \/ /\ UNCHANGED rows
            /\ run' = [run EXCEPT !.todo = @ \ {r}, !.errors = TRUE]
    /\ UNCHANGED <<account, rules, client, metadata, at, extent>>

RowsRefreshed ==
    /\ at = "refresh"
    /\ run.todo = {}
    /\ at' = "compare"
    /\ UNCHANGED <<account, rows, rules, client, metadata, run, extent>>

\* The rows of a symbol among some, and its open orders that were read.
RowsFor(s, among) == {r \in among : SymbolOf[rows[r].order] = s}
VisibleOf(s) == {o \in run.visible : SymbolOf[o] = s}

\* fetch_latest_filled_execution_orders_by_symbol: the last filled row bought.
BoughtLast(s) ==
    LET filled == RowsFor(s, {r \in DOMAIN rows : rows[r].state = "filled"}) IN
    \E r \in filled : rows[r].order \in BuyOrders /\ \A q \in filled : q <= r

\* build_live_holdings_snapshot: the assets of the balances that are not zero.
Holdings == IF run.balances THEN run.available \cup run.reserved ELSE {}

\* collect_runtime_reconciliation_findings, of rows of which some are old.
Findings(old) ==
    [missing_locally |-> {o \in run.visible : ~HasRow(o, OpenRows)},
     missing_on_exchange |-> {r \in OpenRows : client /\ rows[r].xid /\ rows[r].order \notin run.visible},
     orders_without_exchange_id |-> {r \in OpenRows : ~rows[r].xid},
     stale_pending |-> old,
     partially_filled |-> {r \in OpenRows : rows[r].state = "partially_filled"},
     reserved_without_open_order |-> {a \in Holdings \cap run.reserved : VisibleOf(a) = {}},
     open_order_without_reserved |-> {a \in Holdings \ run.reserved : VisibleOf(a) # {}},
     unmanaged_live_holdings |-> {a \in Holdings : RowsFor(a, OpenRows) = {} /\ ~BoughtLast(a)},
     runtime_state_stale |-> metadata = "pending"]

\* A fault for the checks: a symbol that could not be read is passed over.
StatusOfFound(found) ==
    IF found # NoFindings THEN "warning" ELSE IF ~client THEN "unavailable" ELSE "ok"

\* The snapshot never fails as a whole: each of its calls has its own error.
Status(found) ==
    IF found # NoFindings \/ run.errors THEN "warning"
    ELSE IF ~client THEN "unavailable" ELSE "ok"

\* The rows are fetched again, compared with what was read, and the outcome is
\* inserted into reconciliation_results and state_reconciliation_runs.
Compare ==
    /\ at = "compare"
    /\ at' = "loop"
    /\ \E old \in {{}, OpenRows} :
         run' = [NoRun EXCEPT !.status = Status(Findings(old)),
                              !.missing_locally = Findings(old).missing_locally]
    /\ UNCHANGED <<account, rows, rules, client, metadata, extent>>

Run ==
    \/ BeginFirst \/ BeginPeriodic \/ ReadBalances \/ BalancesFail \/ RefreshRow \/ RowsRefreshed \/ Compare
    \/ \E s \in Pairs : ReadSymbol(s) \/ SymbolFails(s)

-----------------------------------------------------------------------------

\* Between two runs a reload gives a symbol a rule, or takes its rule away.
ChangeRules ==
    /\ at = "loop"
    /\ rules' \in (SUBSET extent.symbols) \ {{}}
    /\ UNCHANGED <<account, rows, client, metadata, at, run, extent>>

Stop ==
    /\ at # "off"
    /\ at' = "off"
    /\ run' = NoRun
    /\ UNCHANGED <<account, rows, rules, client, metadata, extent>>

ReconStep == StartUp \/ Run \/ Elsewhere

ReconNext == ReconStep \/ ChangeRules \/ Stop

ReconSpec == ReconInit /\ [][ReconNext]_recon

\* The engine stays in a live mode, unpaused, its rules as they are, and a call for the
\* open orders of a symbol does not fail for ever.
ReconFairSpec ==
    /\ ReconSpec
    /\ WF_recon(StartUp) /\ WF_recon(Run) /\ \A s \in Pairs : SF_recon(ReadSymbol(s))
    /\ <>[][ReconStep]_recon

-----------------------------------------------------------------------------

ReconTypeOK ==
    /\ exchange \in [Orders -> {"none"} \cup Live \cup Terminal]
    /\ free \subseteq Assets /\ rules \subseteq Pairs
    /\ rows \in Seq(Row)
    /\ client \in BOOLEAN /\ metadata \in {"saved", "pending"}
    /\ at \in {"off", "starting", "snapshot", "refresh", "compare", "loop"}
    /\ run \in Runs
    /\ extent \in Extent

\* A run may only say that all is well if every order that was there when its
\* symbol was read, and still is, has an open row with its id: but for the
\* orders of a symbol without a rule, or that the exchange says it does not
\* support.
OkMeansTracked ==
    at = "compare" /\ client /\ Status(Findings({})) = "ok" =>
        \A s \in rules : run.reading[s] # "unsupported" =>
            \A o \in LiveOrders(s) : HasRow(o, OpenRows) \/ o \in run.late

\* An order that no row knows does not stay unreported: it comes up in a run,
\* unless it is over, gets its row or loses its rule first.
Untracked(o) ==
    client /\ exchange[o] \in Live /\ SymbolOf[o] \in rules /\ ~HasRow(o, DOMAIN rows)
UntrackedReported ==
    \A o \in Orders : Untracked(o) ~> ~Untracked(o) \/ o \in run.missing_locally
=============================================================================
