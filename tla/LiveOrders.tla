----------------------------- MODULE LiveOrders -----------------------------
(***************************************************************************)
(* The life of a live order, from the request to the exchange to its row   *)
(* in execution_orders, with every process that works on it.               *)
(*                                                                         *)
(* Actors are the threads that run the handlers of execution_service.py:   *)
(* the console engine (market loop, hotkeys and Telegram commands run one  *)
(* after the other in main.py) and the Streamlit sessions.  They share the *)
(* SQLite table execution_orders and the exchange account, and nothing     *)
(* orders their steps.  An actor's session is the local memory of the      *)
(* handler it is running: a row it fetched, what the exchange told it, and *)
(* where it is between two calls.  One step is one call to the exchange or *)
(* one database transaction.                                               *)
(***************************************************************************)
EXTENDS ApiResults

CONSTANTS
    OrderId,     \* ids the exchange gives to orders
    RowId,       \* primary keys of execution_orders
    Symbols,     \* the symbols of config["rules"]
    Actors,      \* threads that run the order handlers
    AutoTraders, \* those of them that run the auto entry / auto exit pass
    None         \* Python's None

ASSUME NoneAssumption == None \notin OrderId \cup RowId \cup Symbols
ASSUME AutoTradersAssumption == AutoTraders \subseteq Actors

VARIABLES
    exchange,    \* exchange[o]: the order o as the exchange knows it
    rows,        \* rows[r]: the row r of execution_orders
    session,     \* session[a]: local memory of the handler actor a runs
    running      \* the market loop is not paused, and its mode is live or
                 \* shadow-live with a client

tables == <<exchange, rows, session>>

vars == <<exchange, rows, session, running>>

Lifecycle == INSTANCE OrderLifecycle WITH state <- [r \in RowId |-> rows[r].state]

OrderStates == Lifecycle!OrderStates
TerminalOrderStates == Lifecycle!TerminalOrderStates

-----------------------------------------------------------------------------
(* The exchange.                                                           *)

ClosedStatus == {"filled", "cancelled"}
LiveStatus == {"unfilled", "partial"}

\* "none" marks an id that has not been given out.  "listed" is whether the
\* order is still within what order_info and order_history answer about
\* (history is read with limit=50).
ExchangeOrder == [status : {"none"} \cup LiveStatus \cup ClosedStatus,
                  sym : Symbols \cup {None}, listed : BOOLEAN]

Live(o) == exchange[o].status \in LiveStatus
Closed(o) == exchange[o].status \in ClosedStatus

\* map_exchange_order_to_state on a payload that carries the status.
StateOf(status) ==
    CASE status = "filled"    -> "filled"
      [] status = "cancelled" -> "canceled"
      [] status = "partial"   -> "partially_filled"
      [] OTHER                -> "open"

\* The same on a row of open_orders or order_history, which may carry neither
\* status nor amounts: every such row is read as open.
RowStates(status) == {StateOf(status), "open"}

OpenOrdersOf(s) == {o \in OrderId : Live(o) /\ exchange[o].sym = s}

-----------------------------------------------------------------------------
(* Rows and sessions.                                                      *)

Row == [state : OrderStates \cup {Lifecycle!NoRow},
        xid : OrderId \cup {None}, sym : Symbols \cup {None}]

OpenRow(r) == rows[r].state \notin TerminalOrderStates \cup {Lifecycle!NoRow}

\* What an auto pass knows of one symbol: its open orders were not asked for
\* yet, were read and none found, or could not be read; or it is taken.
Reading == {"unread", "free", "error", "taken"}

\* pc is the next call of the handler:
\*   scan, pick                           looking for an auto order
\*   create, created, insert              submitting an order
\*   cancel, recancel                     cancelling one
\*   info, open, history                  refresh_live_order_from_exchange
\*   write                                persist_execution_order_changes
PC == {"idle", "scan", "pick", "create", "created", "insert", "cancel", "recancel",
       "info", "open", "history", "write"}

Session == [pc : PC,
            row : RowId \cup {None},       \* the row being refreshed or cancelled
            was : OrderStates \cup {None}, \* its state in the fetched record
            xid : OrderId \cup {None},     \* its exchange_order_id
            sym : Symbols \cup {None},     \* the symbol being ordered
            kind : {"manual", "exit", "entry"},  \* what is being ordered
            reading : [Symbols -> Reading],\* what an auto pass knows
            seen : OrderStates \cup {None},\* the state mapped from the exchange
            recheck : BOOLEAN,             \* the cancel's outcome was ambiguous
            missing : BOOLEAN,             \* order_info said there is no such order
            openRead : BOOLEAN]            \* open_orders was read, without a match

Idle == [pc |-> "idle", row |-> None, was |-> None, xid |-> None, sym |-> None,
         kind |-> "manual", reading |-> [s \in Symbols |-> "unread"], seen |-> None,
         recheck |-> FALSE, missing |-> FALSE, openRead |-> FALSE]

At(a, pc) == session[a].pc = pc

\* The handler goes on to pc, or ends: it returned or an exception left it.
Goto(a, pc) == session' = [session EXCEPT ![a].pc = pc]
End(a) == session' = [session EXCEPT ![a] = Idle]

Init ==
    /\ exchange = [o \in OrderId |-> [status |-> "none", sym |-> None, listed |-> TRUE]]
    /\ rows = [r \in RowId |-> [state |-> Lifecycle!NoRow, xid |-> None, sym |-> None]]
    /\ session = [a \in Actors |-> Idle]
    /\ running \in BOOLEAN

-----------------------------------------------------------------------------
(* Submitting.                                                             *)

\* A manual order (console hotkey, Telegram /buy and /sell, Streamlit form)
\* whose guardrails passed.  They do not look at the symbol's other orders.
BeginManual(a, s) ==
    /\ At(a, "idle")
    /\ session' = [session EXCEPT ![a] = [Idle EXCEPT !.pc = "create", !.sym = s]]
    /\ UNCHANGED <<exchange, rows>>

\* The auto exit / auto entry part of a loop of the engine begins.
BeginPass(a) ==
    /\ At(a, "idle")
    /\ a \in AutoTraders
    /\ running
    /\ session' = [session EXCEPT ![a] = [Idle EXCEPT !.pc = "scan", !.kind = "exit"]]
    /\ UNCHANGED <<exchange, rows>>

\* fetch_account_snapshot: one get_open_orders call for each symbol, whose
\* failure is recorded and passed over.
ReadOpenOrders(a, s) ==
    /\ At(a, "scan")
    /\ session[a].reading[s] = "unread"
    /\ \E reading \in {"error", IF OpenOrdersOf(s) = {} THEN "free" ELSE "taken"} :
         session' = [session EXCEPT ![a].reading[s] = reading]
    /\ UNCHANGED <<exchange, rows>>

\* A fault for the checks: the pass does not look into the table.
ReadRowsOfNobody(a) ==
    /\ At(a, "scan")
    /\ \A s \in Symbols : session[a].reading[s] # "unread"
    /\ Goto(a, "pick")
    /\ UNCHANGED <<exchange, rows>>

\* The open orders were asked for.  The guardrails require the open_orders
\* capability, OK or PARTIAL, which one symbol is enough for that could be read
\* or whose open orders the exchange does not support; the latter counts as an
\* error here.  fetch_open_execution_orders then adds the symbols with an open
\* row.
ReadRows(a) ==
    /\ At(a, "scan")
    /\ \A s \in Symbols : session[a].reading[s] # "unread"
    /\ session' = [session EXCEPT ![a].pc = "pick", ![a].reading =
            [s \in Symbols |-> IF \E r \in RowId : OpenRow(r) /\ rows[r].sym = s
                               THEN "taken" ELSE session[a].reading[s]]]
    /\ UNCHANGED <<exchange, rows>>

\* The first candidate of evaluate_live_exit_candidates, or of
\* evaluate_live_entry_candidates once no exit was submitted, passes the
\* guardrails.  Both pass over the symbols that are taken;
\* extract_open_orders_by_symbol has no entry for one that was not read.
Pick(a, s, kind) ==
    /\ At(a, "pick")
    /\ session[a].kind = "entry" => kind = "entry"
    /\ session[a].reading[s] # "taken"
    /\ session' = [session EXCEPT ![a].pc = "create", ![a].sym = s, ![a].kind = kind]
    /\ UNCHANGED <<exchange, rows>>

\* No candidate was found, a guardrail refused it or the snapshot failed.
PassWithoutOrder(a) ==
    /\ session[a].pc \in {"scan", "pick"}
    /\ End(a)
    /\ UNCHANGED <<exchange, rows>>

\* A submission failed.  An exit that failed leaves the pass to look for an
\* entry, on what it read before; the exit's symbol is held, and an entry
\* passes over the symbols that are.
Fails(a) ==
    IF session[a].kind = "exit"
    THEN session' = [session EXCEPT ![a] = [Idle EXCEPT !.pc = "pick", !.kind = "entry",
            !.reading = [session[a].reading EXCEPT ![session[a].sym] = "taken"]]]
    ELSE End(a)

\* The exchange after it accepted the orders of new.
WithOrders(new, s) ==
    [o \in OrderId |-> IF o \in new
                       THEN [status |-> "unfilled", sym |-> s, listed |-> TRUE]
                       ELSE exchange[o]]

\* The submitter call of _submit_order_with_safety_check, which ends in one of
\* the CreateResults of the client.  An ambiguous error
\* is probed and logged, then raised as a guardrail error; any other error is
\* raised as it is.  Either way there will be no row.  The id in the
\* answer is that of the order the last call made.
Create(a) ==
    /\ At(a, "create")
    /\ \E result \in CreateResults, new \in SUBSET OrderId, last \in OrderId \cup {None} :
         /\ \A o \in new : exchange[o].status = "none"
         /\ \/ result.made = 0 /\ new = {}
            \/ result.made = 1 /\ \E o \in OrderId : new = {o}
            \/ result.made = 2 /\ \E o, p \in OrderId : o # p /\ new = {o, p}
         /\ exchange' = WithOrders(new, session[a].sym)
         /\ \/ /\ result.reply = "id" /\ last \in new
               /\ session' = [session EXCEPT ![a].pc = "created", ![a].xid = last,
                                             ![a].was = "submitted"]
            \/ /\ result.reply = "noid" /\ last = None
               /\ session' = [session EXCEPT ![a].pc = "insert", ![a].seen = "submitted"]
            \/ /\ result.reply \in {"ambiguous", "error"} /\ last = None
               /\ Fails(a)
    /\ UNCHANGED rows

\* order_info right after the submission.  When it fails the exception leaves
\* the handler before the row is inserted.
ConfirmCreated(a) ==
    /\ At(a, "created")
    /\ LET seen == StateOf(exchange[session[a].xid].status) IN
         IF Lifecycle!MayMove(session[a].was, seen)
         THEN session' = [session EXCEPT ![a].pc = "insert", ![a].seen = seen]
         ELSE Fails(a)
    /\ UNCHANGED <<exchange, rows>>

ConfirmFails(a) ==
    /\ At(a, "created")
    /\ Fails(a)
    /\ UNCHANGED <<exchange, rows>>

\* A fault: the row gets the state the record had before the order was confirmed.
InsertEarlierState(a, r) ==
    /\ At(a, "insert")
    /\ rows[r].state = Lifecycle!NoRow
    /\ rows' = [rows EXCEPT ![r] = [state |-> session[a].was, xid |-> session[a].xid,
                                    sym |-> session[a].sym]]
    /\ End(a)
    /\ UNCHANGED exchange

\* insert_execution_order, then the update and the events that repeat it.
InsertRow(a, r) ==
    /\ At(a, "insert")
    /\ rows[r].state = Lifecycle!NoRow
    /\ rows' = [rows EXCEPT ![r] = [state |-> session[a].seen, xid |-> session[a].xid,
                                    sym |-> session[a].sym]]
    /\ End(a)
    /\ UNCHANGED exchange

-----------------------------------------------------------------------------
(* Refreshing and cancelling.                                              *)

\* A fault: partially filled orders are not among the open ones.
BeginOnUntouchedRow(a, r, pc) ==
    /\ At(a, "idle")
    /\ rows[r].state \in {"submitted", "open"}
    /\ rows[r].xid # None
    /\ session' = [session EXCEPT ![a] = [Idle EXCEPT !.pc = pc, !.row = r,
                        !.was = rows[r].state, !.xid = rows[r].xid]]
    /\ UNCHANGED <<exchange, rows>>

\* fetch_open_execution_orders gave row r to a handler that refreshes it (the
\* market loop while it is running, and at any time reconciliation, hotkey U,
\* the Live Ops and prune pages) or
\* cancels it (hotkey X, /cancel, the Live Ops and prune pages).  A row without
\* an exchange id raises at once, so no handler gets further with it.
BeginOnRow(a, r, pc) ==
    /\ At(a, "idle")
    /\ OpenRow(r)
    /\ rows[r].xid # None
    /\ session' = [session EXCEPT ![a] = [Idle EXCEPT !.pc = pc, !.row = r,
                        !.was = rows[r].state, !.xid = rows[r].xid]]
    /\ UNCHANGED <<exchange, rows>>

BeginRefresh(a, r) == BeginOnRow(a, r, "info")
BeginCancel(a, r) == BeginOnRow(a, r, "cancel")

\* One client.cancel_order call: up to three tries, two of them spelled alike,
\* on two paths each.  Whatever it answers, it may have cancelled an order that was live,
\* and an accepted request may still have to be carried out.
CancelCall(a, applied) ==
    IF applied
    THEN /\ Live(session[a].xid)
         /\ exchange' = [exchange EXCEPT ![session[a].xid].status = "cancelled"]
    ELSE UNCHANGED exchange

\* cancel_live_order: accepted, the order is refreshed; ambiguous, it is
\* refreshed before anything else is decided; any other error is raised.
Cancel(a) ==
    /\ At(a, "cancel")
    /\ \E applied \in BOOLEAN : CancelCall(a, applied)
    /\ \/ Goto(a, "info")
       \/ session' = [session EXCEPT ![a].pc = "info", ![a].recheck = TRUE]
       \/ End(a)
    /\ UNCHANGED rows

\* The one retry, after the recheck found the order still open.  An error of
\* any kind is raised now.
CancelAgain(a) ==
    /\ At(a, "recancel")
    /\ \E applied \in BOOLEAN : CancelCall(a, applied)
    /\ Goto(a, "info") \/ End(a)
    /\ UNCHANGED rows

\* A fault: the refreshed state is taken over without a look at the table.
ResolveAnyMove(a, seen) ==
    IF session[a].recheck /\ seen \notin {"canceled", "filled"}
    THEN session' = [session EXCEPT ![a].pc = "recancel", ![a].was = seen,
                        ![a].recheck = FALSE, ![a].missing = FALSE, ![a].openRead = FALSE]
    ELSE session' = [session EXCEPT ![a].pc = "write", ![a].seen = seen]

\* The refreshed state goes through transition_live_order_state, which raises
\* on a move the table does not have.  A recheck that found the order neither
\* canceled nor filled leads to the retry, any other refresh to the write.
Resolve(a, seen) ==
    IF ~Lifecycle!MayMove(session[a].was, seen)
    THEN End(a)
    ELSE IF session[a].recheck /\ seen \notin {"canceled", "filled"}
    THEN session' = [session EXCEPT ![a].pc = "recancel", ![a].was = seen,
                        ![a].recheck = FALSE, ![a].missing = FALSE, ![a].openRead = FALSE]
    ELSE session' = [session EXCEPT ![a].pc = "write", ![a].seen = seen]

OrderInfo(a) ==
    /\ At(a, "info")
    /\ exchange[session[a].xid].listed
    /\ Resolve(a, StateOf(exchange[session[a].xid].status))
    /\ UNCHANGED <<exchange, rows>>

\* order_info raised: a network or server error, or a text that says there is
\* no such order.  The last spelling of the symbol decides the text, so the
\* exchange may say so of an order it has.
OrderInfoFails(a) ==
    /\ At(a, "info")
    /\ \E missing \in BOOLEAN :
         session' = [session EXCEPT ![a].pc = "open", ![a].missing = missing]
    /\ UNCHANGED <<exchange, rows>>

\* The open_orders fallback.
OpenOrders(a) ==
    /\ At(a, "open")
    /\ LET o == session[a].xid IN
         IF Live(o)
         THEN \E seen \in RowStates(exchange[o].status) : Resolve(a, seen)
         ELSE session' = [session EXCEPT ![a].pc = "history", ![a].openRead = TRUE]
    /\ UNCHANGED <<exchange, rows>>

OpenOrdersFails(a) ==
    /\ At(a, "open")
    /\ Goto(a, "history")
    /\ UNCHANGED <<exchange, rows>>

\* A fault: absence is inferred although open_orders could not be read.
InferAbsenceFromHistory(a) ==
    /\ At(a, "history")
    /\ LET o == session[a].xid IN
         IF Closed(o) /\ exchange[o].listed
         THEN \E seen \in RowStates(exchange[o].status) : Resolve(a, seen)
         ELSE IF session[a].missing
         THEN Resolve(a, "canceled")
         ELSE End(a)
    /\ UNCHANGED <<exchange, rows>>

\* The order_history fallback.  Without a match there, the order is taken to
\* be canceled when order_info said it is missing and both lists were read
\* without it; otherwise the order_info error is raised.
OrderHistory(a) ==
    /\ At(a, "history")
    /\ LET o == session[a].xid IN
         IF Closed(o) /\ exchange[o].listed
         THEN \E seen \in RowStates(exchange[o].status) : Resolve(a, seen)
         ELSE IF session[a].missing /\ session[a].openRead
         THEN Resolve(a, "canceled")
         ELSE End(a)
    /\ UNCHANGED <<exchange, rows>>

OrderHistoryFails(a) ==
    /\ At(a, "history")
    /\ End(a)
    /\ UNCHANGED <<exchange, rows>>

\* A fault: UPDATE ... WHERE symbol = ?.
WriteRowsOfSymbol(a) ==
    /\ At(a, "write")
    /\ rows' = [r \in RowId |-> IF OpenRow(r) /\ rows[r].sym = rows[session[a].row].sym
                  THEN [rows[r] EXCEPT !.state = session[a].seen, !.xid = session[a].xid]
                  ELSE rows[r]]
    /\ End(a)
    /\ UNCHANGED exchange

\* update_execution_order: UPDATE ... WHERE id = ?, whatever the row holds now.
WriteRow(a) ==
    /\ At(a, "write")
    /\ rows' = [rows EXCEPT ![session[a].row].state = session[a].seen,
                            ![session[a].row].xid = session[a].xid]
    /\ End(a)
    /\ UNCHANGED exchange

-----------------------------------------------------------------------------
(* The environment.                                                        *)

\* The process stops, or the browser session is rerun, between two calls.
Crash(a) ==
    /\ ~At(a, "idle")
    /\ End(a)
    /\ UNCHANGED <<exchange, rows>>

SetStatus(o, status) ==
    /\ exchange' = [exchange EXCEPT ![o].status = status]
    /\ UNCHANGED <<rows, session>>

PartialFill(o) == exchange[o].status = "unfilled" /\ SetStatus(o, "partial")
Fill(o) == Live(o) /\ SetStatus(o, "filled")

\* Cancelled in the exchange's own application.
CancelElsewhere(o) == Live(o) /\ SetStatus(o, "cancelled")

\* A closed order falls out of what the exchange answers about.
Unlist(o) ==
    /\ Closed(o)
    /\ exchange[o].listed
    /\ exchange' = [exchange EXCEPT ![o].listed = FALSE]
    /\ UNCHANGED <<rows, session>>

-----------------------------------------------------------------------------

Submitting(a) ==
    \/ \E s \in Symbols : 
         \/ BeginManual(a, s) \/ ReadOpenOrders(a, s)
         \/ \E kind \in {"exit", "entry"} : Pick(a, s, kind)
    \/ BeginPass(a) \/ ReadRows(a) \/ PassWithoutOrder(a)
    \/ Create(a) \/ ConfirmCreated(a) \/ ConfirmFails(a)
    \/ \E r \in RowId : InsertRow(a, r)

Refreshing(a) ==
    \/ \E r \in RowId : BeginRefresh(a, r) \/ BeginCancel(a, r)
    \/ Cancel(a) \/ CancelAgain(a)
    \/ OrderInfo(a) \/ OrderInfoFails(a)
    \/ OpenOrders(a) \/ OpenOrdersFails(a)
    \/ OrderHistory(a) \/ OrderHistoryFails(a)
    \/ WriteRow(a)

Exchange(o) == PartialFill(o) \/ Fill(o) \/ CancelElsewhere(o) \/ Unlist(o)

\* A manual pause, a safety pause or a change of mode, or the end of one, between
\* two handlers of the engine.  An iteration that finds the loop paused or its
\* mode paper goes on without a refresh and without a pass.
Switch ==
    /\ \A a \in AutoTraders : At(a, "idle")
    /\ running' = ~running
    /\ UNCHANGED tables

Step ==
    \/ \E a \in Actors : Submitting(a) \/ Refreshing(a)
    \/ \E o \in OrderId : Exchange(o)

Next ==
    \/ (Step \/ \E a \in Actors : Crash(a)) /\ UNCHANGED running
    \/ Switch

Spec == Init /\ [][Next]_vars

-----------------------------------------------------------------------------
(* Properties of any number of actors.                                     *)

\* The tables and the sessions hold what the schema and the handlers put there.
TablesOK ==
    /\ exchange \in [OrderId -> ExchangeOrder]
    /\ rows \in [RowId -> Row]
    /\ session \in [Actors -> Session]

TypeOK == TablesOK /\ running \in BOOLEAN

\* What a record in a terminal state says about the exchange: filled means
\* filled, and canceled means cancelled unless the exchange no longer answers
\* about the order (the absence inference of refresh_live_order_from_exchange).
Truthful(s, o) ==
    /\ s = "filled" => exchange[o].status = "filled"
    /\ s = "canceled" => /\ Closed(o)
                         /\ exchange[o].listed => exchange[o].status = "cancelled"

\* A row never says an order is over that is not, in whatever order the
\* handlers of several processes read the exchange and write the table back:
\* stale records are written back, but a terminal state is never made up.
TerminalRowsTruthful ==
    \A r \in RowId : rows[r].state \in TerminalOrderStates => Truthful(rows[r].state, rows[r].xid)

\* No two rows stand for the same exchange order, whichever of the two orders
\* a repeated create request made is the one the answer names.
OneRowPerOrder ==
    \A r, q \in RowId : r # q /\ rows[r].xid # None => rows[r].xid # rows[q].xid

\* ORDER_STATE_TRANSITIONS gives a terminal state no successor.  With two
\* processes this fails: a record fetched earlier is written over it.
TerminalStatesAbsorbing ==
    [][\A r \in RowId : rows[r].state \in TerminalOrderStates => rows'[r].state = rows[r].state]_rows

-----------------------------------------------------------------------------
(* Properties of an engine that is alone with the table.                   *)

\* A pass never submits for a symbol that has an order on the exchange, but
\* for an order that no row knows (its submission failed half-way) on a symbol
\* whose open orders could not be read in this pass.
AutoOrderNeedsFreeSymbol ==
    \A a \in Actors : At(a, "create") /\ session[a].kind # "manual" =>
        \A o \in OpenOrdersOf(session[a].sym) :
            /\ session[a].reading[session[a].sym] = "error"
            /\ \A r \in RowId : rows[r].xid # o

\* Each row goes through the life cycle of the state table.
LifecycleSpec == Lifecycle!Spec

\* The scheduling of the engine: a handler that has begun is carried on; while
\* the market loop runs, each row that stays open is refreshed again and again;
\* and order_info does not fail for ever on an order the exchange still lists.
\* Nothing refreshes a row for sure while the loop is paused or in paper mode.
Continues(a) == ~At(a, "idle") /\ (Submitting(a) \/ Refreshing(a))

Fairness ==
    \A a \in AutoTraders :
        /\ WF_vars(Continues(a) /\ UNCHANGED running)
        /\ \A r \in RowId :
             /\ SF_vars(running /\ BeginRefresh(a, r) /\ UNCHANGED running)
             /\ SF_vars(session[a].row = r /\ OrderInfo(a) /\ UNCHANGED running)

\* A process is stopped and started as often as it may be, but not for ever.
CrashesEnd == <>[][Step \/ Switch]_vars

RunningSpec == Spec /\ Fairness /\ CrashesEnd

\* An order that is over on the exchange is over in its row in the end, unless
\* it falls out of what order_info answers first, or the loop is paused or taken
\* out of the live modes again: partial reads, rows without a status, refused
\* moves and cancels in between only delay it.
ClosedOrdersSettle ==
    \A r \in RowId, o \in OrderId :
        OpenRow(r) /\ rows[r].xid = o /\ Closed(o)
            ~> ~OpenRow(r) \/ ~exchange[o].listed \/ ~running
=============================================================================
