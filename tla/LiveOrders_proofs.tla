-------------------------- MODULE LiveOrders_proofs --------------------------
(***************************************************************************)
(* Theorems about LiveOrders, for any number of orders, rows, symbols and  *)
(* actors: the rows in a terminal state are truthful, no two rows stand    *)
(* for one order.  A single writer implements OrderLifecycle, and orders   *)
(* automatically only where no order is.                                   *)
(***************************************************************************)
EXTENDS LiveOrders, TLAPS

\* Definitions that only list values are expanded everywhere.
USE DEF TerminalOrderStates, Lifecycle!OrderStates, Lifecycle!OpenOrderStates,
        Lifecycle!TerminalOrderStates, Lifecycle!NoRow, LiveStatus, ClosedStatus

-----------------------------------------------------------------------------
(* The inductive invariant.                                                *)

\* A handler that works on a row it fetched.
OnRow(m) == m.pc \in {"cancel", "recancel", "info", "open", "history", "write"}

\* A handler whose order is on the exchange and not yet in the table.
Unsaved(m) == m.pc \in {"created", "insert"} /\ m.xid # None

Given(o) == exchange[o].status # "none"

\* What the session m knows about the row and the order it works on.  Facts
\* about the exchange are kept only as far as they cannot change any more.
HandlerOK(m) ==
    /\ OnRow(m) => /\ m.row \in RowId /\ m.xid \in OrderId /\ m.was \in OrderStates
                   /\ rows[m.row].state # Lifecycle!NoRow
                   /\ rows[m.row].xid = m.xid
    /\ m.pc \in {"idle", "scan", "pick", "create"} => m.xid = None
    /\ m.pc = "created" => m.xid \in OrderId /\ m.was = "submitted"
    /\ m.pc \in {"insert", "write"} => m.seen \in OrderStates \ {"created"}
    /\ m.pc \in {"insert", "write"} /\ m.seen \in TerminalOrderStates =>
            m.xid \in OrderId /\ Truthful(m.seen, m.xid)
    /\ m.pc \in {"cancel", "recancel", "info", "open"} => ~m.openRead
    /\ m.pc = "history" /\ m.openRead => Closed(m.xid)
    /\ m.xid # None => Given(m.xid)

RowOK(row) ==
    /\ row.state # "created"
    /\ row.xid # None => Given(row.xid)
    /\ row.state \in TerminalOrderStates => row.xid \in OrderId /\ Truthful(row.state, row.xid)

\* An order that is on its way into the table is there once.
Fresh ==
    /\ \A a \in Actors, r \in RowId : Unsaved(session[a]) => rows[r].xid # session[a].xid
    /\ \A a, b \in Actors : a # b /\ Unsaved(session[a]) /\ Unsaved(session[b])
                                => session[a].xid # session[b].xid
    /\ OneRowPerOrder

IInv ==
    /\ TablesOK
    /\ \A a \in Actors : HandlerOK(session[a])
    /\ \A r \in RowId : RowOK(rows[r])
    /\ Fresh

-----------------------------------------------------------------------------
(* What no step undoes.                                                    *)

\* An order that was given out stays given out, a closed one keeps its status
\* and is not listed again.
Evolves ==
    \A o \in OrderId :
        /\ Given(o) => Given(o)'
        /\ Closed(o) => exchange'[o].status = exchange[o].status
        /\ Closed(o) /\ exchange'[o].listed => exchange[o].listed

\* A row that was inserted stays, with its exchange id.
Kept ==
    \A r \in RowId : rows[r].state # Lifecycle!NoRow =>
        rows'[r].state # Lifecycle!NoRow /\ rows'[r].xid = rows[r].xid

\* What a record says of a closed order stays true.
LEMMA TruthfulStays ==
    ASSUME Evolves, NEW o \in OrderId, NEW s, Truthful(s, o)
    PROVE  Truthful(s, o)'
BY DEF Truthful, Evolves, Closed

LEMMA HandlerStays ==
    ASSUME Evolves, Kept, NEW m \in Session, HandlerOK(m)
    PROVE  HandlerOK(m)'
<1>1. OnRow(m) => /\ m.row \in RowId /\ m.xid \in OrderId /\ m.was \in OrderStates
                  /\ rows'[m.row].state # Lifecycle!NoRow
                  /\ rows'[m.row].xid = m.xid
  BY DEF HandlerOK, Kept
<1>2. m.pc \in {"insert", "write"} /\ m.seen \in TerminalOrderStates =>
            m.xid \in OrderId /\ Truthful(m.seen, m.xid)'
  BY TruthfulStays DEF HandlerOK
<1>3. m.xid # None => m.xid \in OrderId
  BY DEF Session
<1>4. m.pc = "history" /\ m.openRead => Closed(m.xid)'
  BY DEF HandlerOK, Evolves, Closed, OnRow
<1>5. m.xid # None => Given(m.xid)'
  BY <1>3 DEF HandlerOK, Evolves
<1> QED BY <1>1, <1>2, <1>4, <1>5 DEF HandlerOK, OnRow

LEMMA RowStays ==
    ASSUME Evolves, NEW row \in Row, RowOK(row)
    PROVE  RowOK(row)'
<1>1. row.xid # None => row.xid \in OrderId
  BY DEF Row
<1> QED BY <1>1, TruthfulStays DEF RowOK, Evolves

-----------------------------------------------------------------------------
(* The three kinds of steps.                                               *)

\* An actor calls the exchange: the rows stay.
Calls == UNCHANGED rows /\ Evolves /\ exchange' \in [OrderId -> ExchangeOrder]

LEMMA NoCall ==
    ASSUME IInv, UNCHANGED <<exchange, rows>>
    PROVE  Calls
BY DEF Calls, Evolves, Given, IInv, TablesOK

LEMMA CallStep ==
    ASSUME IInv, Calls,
           NEW a \in Actors, NEW m \in Session, session' = [session EXCEPT ![a] = m],
           HandlerOK(m)',
           Unsaved(m) => \/ Unsaved(session[a]) /\ m.xid = session[a].xid
                         \/ ~Given(m.xid)
    PROVE  IInv'
<1> USE DEF Calls
<1>1. TablesOK'
  BY DEF IInv, TablesOK
<1>2. Kept
  BY DEF Kept
<1>3. ASSUME NEW b \in Actors PROVE HandlerOK(session[b])'
  <2>1. CASE b = a
    BY <2>1 DEF IInv, TablesOK
  <2>2. CASE b # a
    <3>1. session'[b] = session[b] /\ session[b] \in Session /\ HandlerOK(session[b])
      BY <2>2 DEF IInv, TablesOK
    <3> QED BY <3>1, <1>2, HandlerStays
  <2> QED BY <2>1, <2>2
<1>4. ASSUME NEW r \in RowId PROVE RowOK(rows[r])'
  <2>1. rows'[r] = rows[r] /\ rows[r] \in Row /\ RowOK(rows[r])
    BY DEF IInv, TablesOK
  <2> QED BY <2>1, RowStays
<1>5. Fresh'
  <2>1. session'[a] = m /\ \A b \in Actors : b # a => session'[b] = session[b]
    BY DEF IInv, TablesOK
  <2>2. \A r \in RowId : rows[r].xid # None => Given(rows[r].xid)
    BY DEF IInv, RowOK
  <2>3. \A b \in Actors : session[b].xid # None => Given(session[b].xid)
    BY DEF IInv, HandlerOK
  <2>4. \A b \in Actors, r \in RowId : Unsaved(session'[b]) => rows[r].xid # session'[b].xid
    BY <2>1, <2>2 DEF IInv, Fresh, Unsaved
  <2>5. \A b \in Actors : b # a /\ Unsaved(session[b]) /\ Unsaved(m) => session[b].xid # m.xid
    BY <2>1, <2>3 DEF IInv, Fresh, Unsaved
  <2>6. \A b, c \in Actors : b # c /\ Unsaved(session'[b]) /\ Unsaved(session'[c])
                                => session'[b].xid # session'[c].xid
    BY <2>1, <2>5 DEF IInv, Fresh
  <2> QED BY <2>4, <2>6 DEF IInv, Fresh, OneRowPerOrder, Unsaved
<1> QED BY <1>1, <1>3, <1>4, <1>5 DEF IInv

\* An actor only changes its own memory.
LEMMA LocalStep ==
    ASSUME IInv, UNCHANGED <<exchange, rows>>,
           NEW a \in Actors, NEW m \in Session, session' = [session EXCEPT ![a] = m],
           HandlerOK(m),
           Unsaved(m) => Unsaved(session[a]) /\ m.xid = session[a].xid
    PROVE  IInv'
<1>1. Calls /\ Kept
  BY NoCall DEF Kept
<1>2. HandlerOK(m)'
  BY <1>1, HandlerStays DEF Calls
<1> QED BY <1>1, <1>2, CallStep

\* The exchange moves by itself.
LEMMA EnvironmentStep ==
    ASSUME IInv, Evolves, UNCHANGED <<rows, session>>, exchange' \in [OrderId -> ExchangeOrder]
    PROVE  IInv'
<1>1. Kept
  BY DEF Kept
<1>2. ASSUME NEW b \in Actors PROVE HandlerOK(session[b])'
  BY <1>1, HandlerStays DEF IInv, TablesOK
<1>3. ASSUME NEW r \in RowId PROVE RowOK(rows[r])'
  BY RowStays DEF IInv, TablesOK
<1> QED BY <1>2, <1>3 DEF IInv, TablesOK, Fresh, OneRowPerOrder, Unsaved

-----------------------------------------------------------------------------
(* The actions that submit an order.                                       *)

\* A session in which nothing is going on, or only the search for an order.
LEMMA Harmless ==
    ASSUME IInv, Calls, NEW a \in Actors, NEW m \in Session,
           session' = [session EXCEPT ![a] = m],
           m.pc \in {"idle", "scan", "pick", "create"}, m.xid = None
    PROVE  IInv'
BY CallStep DEF HandlerOK, OnRow, Unsaved

LEMMA IdleType == Idle \in Session /\ Idle.pc = "idle" /\ Idle.xid = None
BY DEF Idle, Session, PC, Reading

\* A handler ends.
LEMMA EndStep ==
    ASSUME IInv, Calls, NEW a \in Actors, End(a)
    PROVE  IInv'
BY IdleType, Harmless DEF End

\* A submission failed: the handler ends or goes back to look for an entry.
LEMMA FailsStep ==
    ASSUME IInv, Calls, NEW a \in Actors, Fails(a)
    PROVE  IInv'
<1> DEFINE now == session[a]
           read == [now.reading EXCEPT ![now.sym] = "taken"]
           m == [Idle EXCEPT !.pc = "pick", !.kind = "entry", !.reading = read]
<1>1. CASE End(a)
  BY <1>1, EndStep
<1>2. CASE session' = [session EXCEPT ![a] = m]
  <2>1. now.reading \in [Symbols -> Reading]
    BY DEF IInv, TablesOK, Session
  <2>2. read \in [Symbols -> Reading]
    BY <2>1 DEF Reading
  <2> HIDE DEF read
  <2>3. m \in Session /\ m.pc = "pick" /\ m.xid = None
    BY <2>2, IdleType DEF Idle, Session, PC
  <2> HIDE DEF m
  <2> QED BY <1>2, <2>3, Harmless
<1> QED BY <1>1, <1>2 DEF Fails

\* A create request makes new orders and touches no other.
LEMMA NewOrders ==
    ASSUME IInv, NEW new \in SUBSET OrderId, NEW s \in Symbols \cup {None},
           \A o \in new : ~Given(o), exchange' = WithOrders(new, s)
    PROVE  Evolves /\ exchange' \in [OrderId -> ExchangeOrder] /\ \A o \in new : Given(o)'
<1>1. exchange \in [OrderId -> ExchangeOrder]
  BY DEF IInv, TablesOK
<1>2. \A o \in OrderId : exchange'[o] = IF o \in new
            THEN [status |-> "unfilled", sym |-> s, listed |-> TRUE] ELSE exchange[o]
  BY DEF WithOrders
<1>3. Evolves
  BY <1>2 DEF Evolves, Given, Closed
<1>4. exchange' \in [OrderId -> ExchangeOrder]
  BY <1>1 DEF WithOrders, ExchangeOrder
<1> QED BY <1>2, <1>3, <1>4 DEF Given

LEMMA CreateStep ==
    ASSUME IInv, NEW a \in Actors, Create(a)
    PROVE  IInv'
<1> DEFINE now == session[a]
<1>1. PICK result \in CreateResults, new \in SUBSET OrderId, last \in OrderId \cup {None} :
        /\ \A o \in new : exchange[o].status = "none"
        /\ exchange' = WithOrders(new, now.sym)
        /\ \/ /\ last \in new
              /\ session' = [session EXCEPT ![a].pc = "created", ![a].xid = last,
                                            ![a].was = "submitted"]
           \/ session' = [session EXCEPT ![a].pc = "insert", ![a].seen = "submitted"]
           \/ Fails(a)
  BY DEF Create
<1>2. now \in Session /\ HandlerOK(now) /\ now.pc = "create" /\ now.xid = None
  BY DEF IInv, TablesOK, HandlerOK, Create, At
<1>3. Calls /\ \A o \in new : Given(o)'
  <2>1. now.sym \in Symbols \cup {None} /\ UNCHANGED rows
    BY <1>2 DEF Session, Create
  <2> QED BY <1>1, <2>1, NewOrders DEF Calls, Given
<1>4. CASE last \in new /\ session' = [session EXCEPT ![a].pc = "created", ![a].xid = last,
                                                      ![a].was = "submitted"]
  <2>1. last \in OrderId /\ "created" \in PC /\ "submitted" \in OrderStates
    BY <1>1, <1>4 DEF PC, OrderStates
  <2> DEFINE next == [now EXCEPT !.pc = "created", !.xid = last, !.was = "submitted"]
  <2>a. next \in Session
    BY <1>2, <2>1 DEF Session
  <2>b. next.pc = "created" /\ next.xid = last /\ next.was = "submitted"
    BY <1>2 DEF Session
  <2>c. session' = [session EXCEPT ![a] = next]
    BY <1>4
  <2> HIDE DEF next
  <2>2. PICK m \in Session : m = next
    BY <2>a
  <2>5. m.pc = "created" /\ m.xid = last /\ m.was = "submitted" /\ session' = [session EXCEPT ![a] = m]
    BY <2>2, <2>b, <2>c
  <2>3. last \in OrderId /\ Given(last)' /\ ~Given(last)
    BY <1>1, <1>3, <1>4 DEF Given
  <2>4. HandlerOK(m)'
    BY <2>5, <2>3 DEF HandlerOK, OnRow
  <2> QED BY <1>3, <2>3, <2>4, <2>5, CallStep
<1>5. CASE session' = [session EXCEPT ![a].pc = "insert", ![a].seen = "submitted"]
  <2>1. "insert" \in PC /\ "submitted" \in OrderStates
    BY DEF PC, OrderStates
  <2> DEFINE next == [now EXCEPT !.pc = "insert", !.seen = "submitted"]
  <2>a. next \in Session
    BY <1>2, <2>1 DEF Session
  <2>b. next.pc = "insert" /\ next.xid = None /\ next.seen = "submitted"
    BY <1>2 DEF Session
  <2>c. session' = [session EXCEPT ![a] = next]
    BY <1>5
  <2> HIDE DEF next
  <2>2. PICK m \in Session : m = next
    BY <2>a
  <2>4. m.pc = "insert" /\ m.xid = None /\ m.seen = "submitted" /\ session' = [session EXCEPT ![a] = m]
    BY <2>2, <2>b, <2>c
  <2>3. HandlerOK(m)' /\ ~Unsaved(m)
    BY <2>4 DEF HandlerOK, OnRow, Unsaved, OrderStates
  <2> QED BY <1>3, <2>3, <2>4, CallStep
<1>6. CASE Fails(a)
  BY <1>3, <1>6, FailsStep
<1> QED BY <1>1, <1>4, <1>5, <1>6

\* The row of a new order.
LEMMA InsertRowStep ==
    ASSUME IInv, NEW a \in Actors, NEW r \in RowId, InsertRow(a, r)
    PROVE  IInv'
<1> DEFINE now == session[a]
           row == [state |-> now.seen, xid |-> now.xid, sym |-> now.sym]
<1>1. now \in Session /\ HandlerOK(now) /\ now.pc = "insert"
  BY DEF IInv, TablesOK, InsertRow, At
<1>2. /\ rows' = [rows EXCEPT ![r] = row] /\ rows[r].state = Lifecycle!NoRow
      /\ session' = [session EXCEPT ![a] = Idle] /\ UNCHANGED exchange
  BY DEF InsertRow, End
<1>3. row \in Row /\ RowOK(row)
  BY <1>1 DEF Row, Session, RowOK, HandlerOK
<1> HIDE DEF row
<1>4. Evolves /\ Kept
  BY <1>2 DEF Evolves, Kept, Given, IInv, TablesOK
<1>5. TablesOK'
  BY <1>2, <1>3, IdleType DEF IInv, TablesOK
<1>6. ASSUME NEW b \in Actors PROVE HandlerOK(session[b])'
  <2>1. CASE b = a
    BY <1>2, <2>1, IdleType DEF IInv, TablesOK, HandlerOK, OnRow
  <2>2. CASE b # a
    <3>1. session'[b] = session[b] /\ session[b] \in Session /\ HandlerOK(session[b])
      BY <1>2, <2>2 DEF IInv, TablesOK
    <3> QED BY <1>4, <3>1, HandlerStays
  <2> QED BY <2>1, <2>2
<1>7. ASSUME NEW q \in RowId PROVE RowOK(rows[q])'
  <2>1. rows'[q] \in Row /\ RowOK(rows'[q])
    BY <1>2, <1>3 DEF IInv, TablesOK
  <2> QED BY <1>4, <2>1, RowStays
<1>8. Fresh'
  <2>1. /\ rows'[r].xid = now.xid /\ \A q \in RowId : q # r => rows'[q] = rows[q]
        /\ ~Unsaved(session'[a]) /\ \A b \in Actors : b # a => session'[b] = session[b]
    BY <1>2, IdleType DEF row, IInv, TablesOK, Unsaved
  <2>2. now.xid # None => Unsaved(now)
    BY <1>1 DEF Unsaved
  <2>3. \A b \in Actors : Unsaved(session'[b]) => b # a /\ Unsaved(session[b]) /\ session'[b] = session[b]
    BY <2>1
  <2>4. \A b \in Actors, q \in RowId : Unsaved(session'[b]) => rows'[q].xid # session'[b].xid
    BY <2>1, <2>2, <2>3 DEF IInv, Fresh, Unsaved
  <2>5. \A q, p \in RowId : q # p /\ rows'[q].xid # None => rows'[q].xid # rows'[p].xid
    BY <2>1, <2>2 DEF IInv, Fresh, OneRowPerOrder
  <2>6. \A b, c \in Actors : b # c /\ Unsaved(session'[b]) /\ Unsaved(session'[c])
                                => session'[b].xid # session'[c].xid
    BY <2>3 DEF IInv, Fresh
  <2> QED BY <2>4, <2>5, <2>6 DEF Fresh, OneRowPerOrder, Unsaved
<1> QED BY <1>5, <1>6, <1>7, <1>8 DEF IInv

LEMMA SubmittingStep ==
    ASSUME IInv, NEW a \in Actors, Submitting(a)
    PROVE  IInv'
<1> DEFINE now == session[a]
<1>0. /\ now \in Session /\ session \in [Actors -> Session] /\ HandlerOK(now)
      /\ now.pc \in {"scan", "pick", "create"} => now.xid = None
  BY DEF IInv, TablesOK, HandlerOK
<1>1. ASSUME NEW s \in Symbols, BeginManual(a, s) PROVE IInv'
  <2> DEFINE m == [Idle EXCEPT !.pc = "create", !.sym = s]
  <2>1. m \in Session /\ m.pc = "create" /\ m.xid = None
    BY IdleType DEF Idle, Session, PC
  <2>2. session' = [session EXCEPT ![a] = m] /\ UNCHANGED <<exchange, rows>>
    BY <1>1 DEF BeginManual
  <2> HIDE DEF m
  <2> QED BY <2>1, <2>2, Harmless, NoCall
<1>2. ASSUME NEW s \in Symbols, ReadOpenOrders(a, s) PROVE IInv'
  <2>0. PICK read \in Reading : session' = [session EXCEPT ![a].reading[s] = read]
    BY <1>2 DEF ReadOpenOrders, Reading
  <2> DEFINE readings == [now.reading EXCEPT ![s] = read]
             m == [now EXCEPT !.reading = readings]
  <2>1. readings \in [Symbols -> Reading]
    BY <1>0, <2>0 DEF Session
  <2>2. session' = [session EXCEPT ![a] = m] /\ UNCHANGED <<exchange, rows>>
    BY <1>2, <2>0 DEF ReadOpenOrders
  <2>3. now.pc = "scan"
    BY <1>2 DEF ReadOpenOrders, At
  <2> HIDE DEF readings
  <2>4. m \in Session /\ m.pc = "scan" /\ m.xid = None
    BY <1>0, <2>1, <2>3 DEF Session
  <2> HIDE DEF m
  <2> QED BY <2>2, <2>4, Harmless, NoCall
<1>3. ASSUME NEW s \in Symbols, NEW kind \in {"exit", "entry"}, Pick(a, s, kind) PROVE IInv'
  <2> DEFINE m == [now EXCEPT !.pc = "create", !.sym = s, !.kind = kind]
  <2>1. m \in Session /\ m.pc = "create" /\ m.xid = None
    BY <1>0, <1>3 DEF Pick, Session, PC, At
  <2>2. session' = [session EXCEPT ![a] = m] /\ UNCHANGED <<exchange, rows>>
    BY <1>3 DEF Pick
  <2> HIDE DEF m
  <2> QED BY <2>1, <2>2, Harmless, NoCall
<1>4. CASE BeginPass(a)
  <2> DEFINE m == [Idle EXCEPT !.pc = "scan", !.kind = "exit"]
  <2>1. m \in Session /\ m.pc = "scan" /\ m.xid = None
    BY IdleType DEF Idle, Session, PC
  <2>2. session' = [session EXCEPT ![a] = m] /\ UNCHANGED <<exchange, rows>>
    BY <1>4 DEF BeginPass
  <2> HIDE DEF m
  <2> QED BY <2>1, <2>2, Harmless, NoCall
<1>5. CASE ReadRows(a)
  <2> DEFINE read == [s \in Symbols |-> IF \E r \in RowId : OpenRow(r) /\ rows[r].sym = s
                                       THEN "taken" ELSE now.reading[s]]
             m == [now EXCEPT !.pc = "pick", !.reading = read]
  <2>1. read \in [Symbols -> Reading]
    BY <1>0 DEF Session, Reading
  <2>2. session' = [session EXCEPT ![a] = m] /\ UNCHANGED <<exchange, rows>>
    BY <1>5 DEF ReadRows
  <2>3. now.pc = "scan"
    BY <1>5 DEF ReadRows, At
  <2> HIDE DEF read
  <2>4. m \in Session /\ m.pc = "pick" /\ m.xid = None
    BY <1>0, <2>1, <2>3 DEF Session, PC
  <2> HIDE DEF m
  <2> QED BY <2>2, <2>4, Harmless, NoCall
<1>6. CASE PassWithoutOrder(a)
  BY <1>6, EndStep, NoCall DEF PassWithoutOrder
<1>7. CASE Create(a)
  BY <1>7, CreateStep
<1>8. CASE ConfirmCreated(a)
  <2>1. UNCHANGED <<exchange, rows>> /\ now.pc = "created" /\ now.xid \in OrderId
    BY <1>0, <1>8 DEF ConfirmCreated, At, HandlerOK
  <2> DEFINE seen == StateOf(exchange[now.xid].status)
             m == [now EXCEPT !.pc = "insert", !.seen = seen]
  <2>2. CASE Fails(a)
    BY <2>1, <2>2, FailsStep, NoCall
  <2>3. CASE session' = [session EXCEPT ![a] = m]
    <3>1. seen \in OrderStates \ {"created"} /\ (seen \in TerminalOrderStates => Truthful(seen, now.xid))
      BY <2>1 DEF StateOf, Truthful, Closed, OrderStates
    <3> HIDE DEF seen
    <3>a. seen \in OrderStates /\ "insert" \in PC
      BY <3>1 DEF PC
    <3>b. m \in Session
      BY <1>0, <3>a DEF Session
    <3>2. m \in Session /\ m.pc = "insert" /\ m.xid = now.xid /\ m.seen = seen
      BY <1>0, <3>b DEF Session
    <3> HIDE DEF m
    <3>3. HandlerOK(m)
      BY <1>0, <2>1, <3>1, <3>2 DEF HandlerOK, OnRow
    <3> QED BY <2>1, <2>3, <3>2, <3>3, LocalStep DEF Unsaved
  <2> QED BY <1>8, <2>2, <2>3 DEF ConfirmCreated
<1>9. CASE ConfirmFails(a)
  BY <1>0, <1>9, FailsStep, NoCall DEF ConfirmFails, At
<1>10. ASSUME NEW r \in RowId, InsertRow(a, r) PROVE IInv'
  BY <1>10, InsertRowStep
<1> QED BY <1>1, <1>2, <1>3, <1>4, <1>5, <1>6, <1>7, <1>8, <1>9, <1>10 DEF Submitting

-----------------------------------------------------------------------------
(* The actions that refresh or cancel one.                                 *)

\* A handler goes on with the row it has: only pc and the notes that the
\* invariant does not speak of change.
LEMMA GoOn ==
    ASSUME IInv, Calls, NEW a \in Actors, OnRow(session[a]),
           NEW m \in Session, session' = [session EXCEPT ![a] = m],
           m.pc \in {"recancel", "info", "open", "history"},
           m.row = session[a].row, m.xid = session[a].xid, m.was \in OrderStates,
           IF m.pc = "history" THEN m.openRead => Closed(m.xid)' ELSE ~m.openRead
    PROVE  IInv'
<1> DEFINE now == session[a]
<1>1. now \in Session /\ HandlerOK(now) /\ now.xid \in OrderId /\ now.row \in RowId
  BY DEF IInv, TablesOK, HandlerOK
<1>2. rows' = rows /\ Given(now.xid)'
  <2>1. now.xid # None
    BY <1>1, NoneAssumption
  <2> QED BY <1>1, <2>1 DEF HandlerOK, Calls, Evolves
<1>3. HandlerOK(m)'
  BY <1>1, <1>2 DEF HandlerOK, OnRow
<1> QED BY <1>3, CallStep DEF Unsaved

\* A state was mapped from what the exchange said.
LEMMA ResolveStep ==
    ASSUME IInv, UNCHANGED <<exchange, rows>>, NEW a \in Actors, OnRow(session[a]),
           NEW seen \in OrderStates \ {"created"}, Resolve(a, seen),
           seen \in TerminalOrderStates => Truthful(seen, session[a].xid)
    PROVE  IInv'
<1> DEFINE now == session[a]
           again == [now EXCEPT !.pc = "recancel", !.was = seen, !.recheck = FALSE,
                                !.missing = FALSE, !.openRead = FALSE]
           done == [now EXCEPT !.pc = "write", !.seen = seen]
<1>1. now \in Session /\ HandlerOK(now)
  BY DEF IInv, TablesOK
<1>2. seen \in OrderStates /\ "recancel" \in PC /\ "write" \in PC
  BY DEF PC
<1>3. CASE End(a)
  BY <1>3, EndStep, NoCall
<1>4. CASE session' = [session EXCEPT ![a] = again]
  <2>1. again \in Session
    BY <1>1, <1>2 DEF Session
  <2>2. again.pc = "recancel" /\ again.row = now.row /\ again.xid = now.xid /\ again.was = seen
      /\ ~again.openRead
    BY <1>1 DEF Session
  <2> HIDE DEF again
  <2> QED BY <1>2, <1>4, <2>1, <2>2, GoOn, NoCall
<1>5. CASE session' = [session EXCEPT ![a] = done]
  <2>1. done \in Session
    BY <1>1, <1>2 DEF Session
  <2>2. /\ done.pc = "write" /\ done.row = now.row /\ done.xid = now.xid
        /\ done.was = now.was /\ done.seen = seen
    BY <1>1 DEF Session
  <2> HIDE DEF done
  <2>3. HandlerOK(done)
    BY <1>1, <2>2 DEF HandlerOK, OnRow
  <2> QED BY <1>5, <2>1, <2>2, <2>3, LocalStep DEF Unsaved
<1>6. End(a) \/ session' = [session EXCEPT ![a] = again] \/ session' = [session EXCEPT ![a] = done]
  BY DEF Resolve
<1> QED BY <1>3, <1>4, <1>5, <1>6

\* One cancel call, whatever it does.
LEMMA CancelCalls ==
    ASSUME IInv, NEW a \in Actors, NEW applied \in BOOLEAN, CancelCall(a, applied),
           session[a].xid \in OrderId, UNCHANGED rows
    PROVE  Calls
<1>1. CASE UNCHANGED exchange
  BY <1>1, NoCall
<1>2. CASE exchange' = [exchange EXCEPT ![session[a].xid].status = "cancelled"] /\ Live(session[a].xid)
  BY <1>2 DEF Calls, Evolves, Given, Closed, Live, IInv, TablesOK, ExchangeOrder
<1> QED BY <1>1, <1>2 DEF CancelCall

\* The row as the handler wrote it back.
LEMMA WriteRowStep ==
    ASSUME IInv, NEW a \in Actors, WriteRow(a)
    PROVE  IInv'
<1> DEFINE now == session[a]
           row == [rows[now.row] EXCEPT !.state = now.seen, !.xid = now.xid]
<1>1. /\ now \in Session /\ HandlerOK(now) /\ now.pc = "write"
      /\ now.row \in RowId /\ rows[now.row] \in Row /\ RowOK(rows[now.row])
      /\ now.xid \in OrderId /\ rows[now.row].xid = now.xid
  BY DEF IInv, TablesOK, WriteRow, At, HandlerOK, OnRow
<1>2. /\ rows' = [rows EXCEPT ![now.row] = row]
      /\ session' = [session EXCEPT ![a] = Idle] /\ UNCHANGED exchange
  BY DEF WriteRow, End
<1>3. row \in Row /\ row.xid = now.xid /\ row.state = now.seen
  BY <1>1 DEF Row, Session, HandlerOK
<1>4. RowOK(row) /\ row.state # Lifecycle!NoRow
  BY <1>1, <1>3 DEF RowOK, HandlerOK, OrderStates
<1> HIDE DEF row
<1>5. Evolves /\ Kept
  BY <1>1, <1>2, <1>3, <1>4 DEF Evolves, Kept, Given, IInv, TablesOK
<1>6. TablesOK'
  BY <1>1, <1>2, <1>3, IdleType DEF IInv, TablesOK
<1>7. ASSUME NEW b \in Actors PROVE HandlerOK(session[b])'
  <2>1. CASE b = a
    BY <1>2, <2>1, IdleType DEF IInv, TablesOK, HandlerOK, OnRow
  <2>2. CASE b # a
    <3>1. session'[b] = session[b] /\ session[b] \in Session /\ HandlerOK(session[b])
      BY <1>2, <2>2 DEF IInv, TablesOK
    <3> QED BY <1>5, <3>1, HandlerStays
  <2> QED BY <2>1, <2>2
<1>8. ASSUME NEW q \in RowId PROVE RowOK(rows[q])'
  <2>1. rows'[q] \in Row /\ RowOK(rows'[q])
    BY <1>1, <1>2, <1>3, <1>4 DEF IInv, TablesOK
  <2> QED BY <1>5, <2>1, RowStays
<1>9. Fresh'
  <2>1. \A q \in RowId : rows'[q].xid = rows[q].xid
    BY <1>1, <1>2, <1>3 DEF IInv, TablesOK
  <2>2. \A b \in Actors : Unsaved(session'[b]) => session'[b] = session[b]
    BY <1>2, IdleType DEF IInv, TablesOK, Unsaved
  <2>3. \A b \in Actors, q \in RowId : Unsaved(session'[b]) => rows'[q].xid # session'[b].xid
    BY <2>1, <2>2 DEF IInv, Fresh
  <2>4. \A b, c \in Actors : b # c /\ Unsaved(session'[b]) /\ Unsaved(session'[c])
                                => session'[b].xid # session'[c].xid
    BY <2>2 DEF IInv, Fresh
  <2>5. \A q, p \in RowId : q # p /\ rows'[q].xid # None => rows'[q].xid # rows'[p].xid
    BY <2>1 DEF IInv, Fresh, OneRowPerOrder
  <2> QED BY <2>3, <2>4, <2>5 DEF Fresh, OneRowPerOrder, Unsaved
<1> QED BY <1>6, <1>7, <1>8, <1>9 DEF IInv

LEMMA RefreshingStep ==
    ASSUME IInv, NEW a \in Actors, Refreshing(a)
    PROVE  IInv'
<1> DEFINE now == session[a]
<1>0. /\ now \in Session /\ HandlerOK(now)
      /\ OnRow(now) => /\ now.xid \in OrderId /\ now.was \in OrderStates
                       /\ exchange[now.xid] \in ExchangeOrder /\ Given(now.xid)
  BY NoneAssumption DEF IInv, TablesOK, HandlerOK
<1>1. ASSUME NEW r \in RowId, NEW pc \in {"info", "cancel"}, BeginOnRow(a, r, pc) PROVE IInv'
  <2>1. /\ rows[r].xid \in OrderId /\ Given(rows[r].xid) /\ rows[r].state \in OrderStates
    BY <1>1 DEF BeginOnRow, OpenRow, IInv, TablesOK, Row, RowOK
  <2> DEFINE m == [Idle EXCEPT !.pc = pc, !.row = r, !.was = rows[r].state, !.xid = rows[r].xid]
  <2>2. session' = [session EXCEPT ![a] = m] /\ UNCHANGED <<exchange, rows>>
    BY <1>1 DEF BeginOnRow
  <2>3. m \in Session
    BY <2>1, IdleType DEF Session, PC
  <2>4. m.pc = pc /\ m.row = r /\ m.was = rows[r].state /\ m.xid = rows[r].xid /\ ~m.openRead
    BY DEF Idle
  <2> HIDE DEF m
  <2>5. HandlerOK(m) /\ ~Unsaved(m)
    BY <1>1, <2>1, <2>4 DEF HandlerOK, OnRow, Unsaved, BeginOnRow, OpenRow
  <2> QED BY <2>2, <2>3, <2>5, LocalStep
<1>2. ASSUME Calls, OnRow(now), ~now.openRead, NEW m \in Session,
             session' = [session EXCEPT ![a] = m], m.pc = "info",
             m.row = now.row, m.xid = now.xid, m.was = now.was, m.openRead = now.openRead
      PROVE  IInv'
  BY <1>0, <1>2, GoOn
<1>3. ASSUME Calls, OnRow(now), ~now.openRead, Goto(a, "info") PROVE IInv'
  <2> DEFINE m == [now EXCEPT !.pc = "info"]
  <2>1. m \in Session
    BY <1>0 DEF Session, PC
  <2>2. m.pc = "info" /\ m.row = now.row /\ m.xid = now.xid /\ m.was = now.was /\ m.openRead = now.openRead
    BY <1>0 DEF Session
  <2>3. session' = [session EXCEPT ![a] = m]
    BY <1>3 DEF Goto
  <2> HIDE DEF m
  <2> QED BY <1>2, <1>3, <2>1, <2>2, <2>3
<1>4. CASE Cancel(a)
  <2>1. OnRow(now) /\ ~now.openRead /\ Calls
    BY <1>0, <1>4, CancelCalls DEF Cancel, At, OnRow, HandlerOK
  <2> DEFINE m == [now EXCEPT !.pc = "info", !.recheck = TRUE]
  <2>2. CASE session' = [session EXCEPT ![a] = m]
    <3>1. m \in Session
      BY <1>0 DEF Session, PC
    <3>2. m.pc = "info" /\ m.row = now.row /\ m.xid = now.xid /\ m.was = now.was /\ m.openRead = now.openRead
      BY <1>0 DEF Session
    <3> HIDE DEF m
    <3> QED BY <1>2, <2>1, <2>2, <3>1, <3>2
  <2>3. Goto(a, "info") \/ session' = [session EXCEPT ![a] = m] \/ End(a)
    BY <1>4 DEF Cancel
  <2> QED BY <1>3, <2>1, <2>2, <2>3, EndStep
<1>5. CASE CancelAgain(a)
  <2>1. OnRow(now) /\ ~now.openRead /\ Calls
    BY <1>0, <1>5, CancelCalls DEF CancelAgain, At, OnRow, HandlerOK
  <2> QED BY <1>3, <1>5, <2>1, EndStep DEF CancelAgain
<1>6. CASE OrderInfo(a)
  <2>1. OnRow(now) /\ UNCHANGED <<exchange, rows>> /\ Resolve(a, StateOf(exchange[now.xid].status))
    BY <1>6 DEF OrderInfo, At, OnRow
  <2>2. \A s \in OrderStates : s = StateOf(exchange[now.xid].status) =>
            s # "created" /\ (s \in TerminalOrderStates => Truthful(s, now.xid))
    BY DEF StateOf, Truthful, Closed
  <2>3. StateOf(exchange[now.xid].status) \in OrderStates
    BY DEF StateOf, OrderStates
  <2> QED BY <2>1, <2>2, <2>3, ResolveStep
<1>7. CASE OrderInfoFails(a)
  <2>1. PICK missing \in BOOLEAN : session' = [session EXCEPT ![a].pc = "open", ![a].missing = missing]
    BY <1>7 DEF OrderInfoFails
  <2>2. OnRow(now) /\ ~now.openRead /\ UNCHANGED <<exchange, rows>>
    BY <1>0, <1>7 DEF OrderInfoFails, At, OnRow, HandlerOK
  <2> DEFINE m == [now EXCEPT !.pc = "open", !.missing = missing]
  <2>3. m \in Session
    BY <1>0 DEF Session, PC
  <2>4. m.pc = "open" /\ m.row = now.row /\ m.xid = now.xid /\ m.was = now.was /\ ~m.openRead
    BY <1>0, <2>2 DEF Session
  <2>5. session' = [session EXCEPT ![a] = m]
    BY <2>1
  <2> HIDE DEF m
  <2> QED BY <1>0, <2>2, <2>3, <2>4, <2>5, GoOn, NoCall
<1>8. CASE OpenOrders(a)
  <2>1. OnRow(now) /\ UNCHANGED <<exchange, rows>>
    BY <1>8 DEF OpenOrders, At, OnRow
  <2>2. ASSUME Live(now.xid), NEW seen \in RowStates(exchange[now.xid].status), Resolve(a, seen)
        PROVE  IInv'
    <3>1. seen \in OrderStates \ TerminalOrderStates /\ seen # "created"
      BY <2>2 DEF RowStates, StateOf, Live, OrderStates
    <3> QED BY <2>1, <2>2, <3>1, ResolveStep
  <2>3. ASSUME ~Live(now.xid), session' = [session EXCEPT ![a].pc = "history", ![a].openRead = TRUE]
        PROVE  IInv'
    <3> DEFINE m == [now EXCEPT !.pc = "history", !.openRead = TRUE]
    <3>1. m \in Session
      BY <1>0 DEF Session, PC
    <3>2. m.pc = "history" /\ m.row = now.row /\ m.xid = now.xid /\ m.was = now.was
      BY <1>0 DEF Session
    <3>3. session' = [session EXCEPT ![a] = m]
      BY <2>3
    <3>4. Closed(now.xid)
      BY <1>0, <2>1, <2>3 DEF Live, Closed, Given, ExchangeOrder
    <3> HIDE DEF m
    <3>5. exchange' = exchange
      BY <2>1
    <3>6. exchange'[m.xid].status \in ClosedStatus
      BY <3>2, <3>4, <3>5 DEF Closed
    <3> QED BY <1>0, <2>1, <3>1, <3>2, <3>3, <3>6, GoOn, NoCall DEF Closed
  <2> QED BY <1>8, <2>2, <2>3 DEF OpenOrders
<1>9. CASE OpenOrdersFails(a)
  <2>1. OnRow(now) /\ ~now.openRead /\ UNCHANGED <<exchange, rows>>
    BY <1>0, <1>9 DEF OpenOrdersFails, At, OnRow, HandlerOK
  <2> DEFINE m == [now EXCEPT !.pc = "history"]
  <2>2. m \in Session
    BY <1>0 DEF Session, PC
  <2>3. m.pc = "history" /\ m.row = now.row /\ m.xid = now.xid /\ m.was = now.was /\ ~m.openRead
    BY <1>0, <2>1 DEF Session
  <2>4. session' = [session EXCEPT ![a] = m]
    BY <1>9 DEF OpenOrdersFails, Goto
  <2> HIDE DEF m
  <2> QED BY <1>0, <2>1, <2>2, <2>3, <2>4, GoOn, NoCall
<1>10. CASE OrderHistory(a)
  <2>1. OnRow(now) /\ UNCHANGED <<exchange, rows>> /\ now.pc = "history"
    BY <1>10 DEF OrderHistory, At, OnRow
  <2>2. ASSUME Closed(now.xid), NEW seen \in RowStates(exchange[now.xid].status), Resolve(a, seen)
        PROVE  IInv'
    <3>1. seen \in OrderStates \ {"created"} /\ Truthful(seen, now.xid)
      BY <2>2 DEF RowStates, StateOf, Closed, Truthful, OrderStates
    <3> QED BY <2>1, <2>2, <3>1, ResolveStep
  <2>3. ASSUME ~(Closed(now.xid) /\ exchange[now.xid].listed), now.openRead, Resolve(a, "canceled")
        PROVE  IInv'
    <3>1. "canceled" \in OrderStates \ {"created"} /\ Truthful("canceled", now.xid)
      BY <1>0, <2>1, <2>3 DEF HandlerOK, Truthful, OrderStates
    <3> QED BY <2>1, <2>3, <3>1, ResolveStep
  <2>4. CASE End(a)
    BY <2>1, <2>4, EndStep, NoCall
  <2> QED BY <1>10, <2>2, <2>3, <2>4 DEF OrderHistory
<1>11. CASE OrderHistoryFails(a)
  BY <1>11, EndStep, NoCall DEF OrderHistoryFails
<1>12. CASE WriteRow(a)
  BY <1>12, WriteRowStep
<1> QED BY <1>1, <1>4, <1>5, <1>6, <1>7, <1>8, <1>9, <1>10, <1>11, <1>12
        DEF Refreshing, BeginRefresh, BeginCancel

-----------------------------------------------------------------------------
(* The theorems.                                                           *)

LEMMA ExchangeStep ==
    ASSUME IInv, NEW o \in OrderId, Exchange(o)
    PROVE  IInv'
<1>1. UNCHANGED <<rows, session>>
  BY DEF Exchange, PartialFill, Fill, CancelElsewhere, Unlist, SetStatus
<1>2. exchange' \in [OrderId -> ExchangeOrder]
  <2>1. exchange \in [OrderId -> ExchangeOrder]
    BY DEF IInv, TablesOK
  <2>2. CASE \E status \in {"partial", "filled", "cancelled"} : SetStatus(o, status)
    BY <2>1, <2>2 DEF SetStatus, ExchangeOrder
  <2>3. CASE Unlist(o)
    BY <2>1, <2>3 DEF Unlist, ExchangeOrder
  <2> QED BY <2>2, <2>3 DEF Exchange, PartialFill, Fill, CancelElsewhere
<1>3. Evolves
  BY DEF IInv, TablesOK, ExchangeOrder, Exchange, PartialFill, Fill, CancelElsewhere, Unlist, SetStatus,
         Evolves, Given, Closed, Live
<1> QED BY <1>1, <1>2, <1>3, EnvironmentStep

LEMMA InitIInv == Init => IInv
<1> SUFFICES ASSUME Init PROVE IInv
  OBVIOUS
<1>1. exchange \in [OrderId -> ExchangeOrder] /\ rows \in [RowId -> Row]
  BY DEF Init, ExchangeOrder, Row
<1>2. session \in [Actors -> Session] /\ \A a \in Actors : session[a] = Idle
  BY IdleType DEF Init
<1>3. \A a \in Actors : HandlerOK(session[a]) /\ ~Unsaved(session[a])
  BY <1>2, IdleType DEF HandlerOK, OnRow, Unsaved
<1>4. \A r \in RowId : RowOK(rows[r]) /\ rows[r].xid = None
  BY DEF Init, RowOK
<1> QED BY <1>1, <1>2, <1>3, <1>4 DEF IInv, TablesOK, Fresh, OneRowPerOrder

LEMMA NextIInv == IInv /\ [Next]_vars => IInv'
<1> SUFFICES ASSUME IInv, [Next]_vars PROVE IInv'
  OBVIOUS
<1>1. ASSUME NEW a \in Actors, Crash(a) PROVE IInv'
  BY <1>1, EndStep, NoCall DEF Crash
<1>2. CASE UNCHANGED tables
  BY <1>2, EnvironmentStep, NoCall DEF tables, Calls
<1> QED BY <1>1, <1>2, SubmittingStep, RefreshingStep, ExchangeStep DEF Next, Step, Switch, vars, tables

\* The invariant holds of the rows and of every session, at each step of any number of
\* processes.
THEOREM Invariance == Spec => []IInv
BY InitIInv, NextIInv, PTL DEF Spec

RunningOK == running \in BOOLEAN

\* Sessions, rows and orders keep their types.
THEOREM TypeCorrect == Spec => []TypeOK
<1>1. Init => RunningOK
  BY DEF Init, RunningOK
<1>2. RunningOK /\ [Next]_vars => RunningOK'
  <2>. SUFFICES ASSUME RunningOK, [Next]_vars PROVE running' \in BOOLEAN
    BY DEF RunningOK
  <2>1. UNCHANGED running \/ (running' = ~running)
    BY DEF Next, Switch, vars
  <2>2. CASE UNCHANGED running
    BY <2>2 DEF RunningOK
  <2>3. CASE running' = ~running
    BY <2>3, Zenon
  <2>. QED BY <2>1, <2>2, <2>3, Zenon
<1>3. IInv /\ RunningOK => TypeOK
  BY DEF IInv, RunningOK, TypeOK
<1>. QED BY <1>1, <1>2, <1>3, Invariance, PTL DEF Spec

\* A row never says that an order is over which is not, whatever the processes
\* that refresh and cancel orders do to one another.
THEOREM Truthfulness == Spec => []TerminalRowsTruthful
<1>1. IInv => TerminalRowsTruthful
  BY DEF IInv, RowOK, TerminalRowsTruthful
<1> QED BY <1>1, Invariance, PTL

\* No two rows stand for one order of the exchange.
THEOREM Uniqueness == Spec => []OneRowPerOrder
<1>1. IInv => OneRowPerOrder
  BY DEF IInv, Fresh
<1> QED BY <1>1, Invariance, PTL

-----------------------------------------------------------------------------
(* The refinement.                                                         *)

\* While no one else writes the table, the record a handler holds is ahead of
\* its row by moves of the state table only.  In a recheck of an ambiguous
\* cancel it gets ahead twice, so the moves must compose.
Ahead(m) ==
    OnRow(m) => /\ Lifecycle!MayMove(rows[m.row].state, m.was)
                /\ m.pc = "write" => Lifecycle!MayMove(rows[m.row].state, m.seen)

MInv == IInv /\ \A a \in Actors : Ahead(session[a])

\* The one place where the state table matters as a table: but for "created",
\* which is never stored, it is transitive.
LEMMA MovesCompose ==
    ASSUME NEW s, NEW t, NEW u, s # "created", Lifecycle!MayMove(s, t), Lifecycle!MayMove(t, u)
    PROVE  Lifecycle!MayMove(s, u)
BY DEF Lifecycle!MayMove, Lifecycle!Successors, Lifecycle!Terminated

\* An actor's step leaves its record ahead of its row in the same way, as long
\* as it does not touch the table.
LEMMA StaysAhead ==
    ASSUME MInv, NEW a \in Actors, UNCHANGED rows, NEW m,
           \/ ~OnRow(m)
           \/ m.pc # "write" /\ m.was = rows[m.row].state
           \/ /\ OnRow(session[a]) /\ m.row = session[a].row
              /\ \/ m.pc # "write" /\ m.was = session[a].was
                 \/ m.pc # "write" /\ Lifecycle!MayMove(session[a].was, m.was)
                 \/ m.was = session[a].was /\ Lifecycle!MayMove(session[a].was, m.seen)
    PROVE  Ahead(m)'
<1> DEFINE now == session[a]
           s == rows[now.row].state
<1>1. OnRow(now) => s # "created" /\ Lifecycle!MayMove(s, now.was)
  BY DEF MInv, IInv, HandlerOK, RowOK, Ahead
<1>2. OnRow(now) /\ Lifecycle!MayMove(now.was, m.was) => Lifecycle!MayMove(s, m.was)
  BY <1>1, MovesCompose
<1>3. OnRow(now) /\ Lifecycle!MayMove(now.was, m.seen) => Lifecycle!MayMove(s, m.seen)
  BY <1>1, MovesCompose
<1>4. \A x : Lifecycle!MayMove(x, x)
  BY DEF Lifecycle!MayMove
<1> QED BY <1>1, <1>2, <1>3, <1>4 DEF Ahead, OnRow

LEMMA SubmittingAhead ==
    ASSUME MInv, NEW a \in Actors, Submitting(a)
    PROVE  ~OnRow(session'[a])
<1> DEFINE now == session[a]
<1>1. session \in [Actors -> Session] /\ now \in Session
  BY DEF MInv, IInv, TablesOK
<1>2. Idle.pc = "idle" /\ (End(a) => ~OnRow(session'[a]))
  BY <1>1, IdleType DEF End, OnRow
<1>3. ASSUME Fails(a) PROVE ~OnRow(session'[a])
  <2>1. CASE now.kind = "exit"
    <3>1. PICK m : m = [Idle EXCEPT !.pc = "pick", !.kind = "entry",
                                    !.reading = [now.reading EXCEPT ![now.sym] = "taken"]]
      OBVIOUS
    <3>2. session' = [session EXCEPT ![a] = m]
      BY <1>3, <2>1, <3>1, Zenon DEF Fails
    <3>3. session'[a] = m
      BY <1>1, <3>2
    <3>4. m.pc = "pick"
      BY <3>1 DEF Idle
    <3> QED BY <3>3, <3>4 DEF OnRow
  <2>2. CASE now.kind # "exit"
    BY <1>3, <1>2, <2>2 DEF Fails
  <2> QED BY <2>1, <2>2
<1>4. ASSUME NEW s \in Symbols, BeginManual(a, s) PROVE ~OnRow(session'[a])
  BY <1>1, <1>4 DEF BeginManual, OnRow, Idle
<1>5. ASSUME NEW s \in Symbols, ReadOpenOrders(a, s) PROVE ~OnRow(session'[a])
  BY <1>1, <1>5 DEF ReadOpenOrders, OnRow, Session, At
<1>6. ASSUME NEW s \in Symbols, NEW kind \in {"exit", "entry"}, Pick(a, s, kind) PROVE ~OnRow(session'[a])
  BY <1>1, <1>6 DEF Pick, OnRow, Session
<1>7. CASE BeginPass(a)
  BY <1>1, <1>7 DEF BeginPass, OnRow, Idle
<1>8. CASE ReadRows(a)
  BY <1>1, <1>8 DEF ReadRows, OnRow, Session
<1>9. CASE Create(a)
  BY <1>1, <1>2, <1>3, <1>9 DEF Create, OnRow, Session
<1>10. CASE ConfirmCreated(a)
  BY <1>1, <1>2, <1>3, <1>10 DEF ConfirmCreated, OnRow, Session
<1> QED BY <1>2, <1>3, <1>4, <1>5, <1>6, <1>7, <1>8, <1>9, <1>10
        DEF Submitting, PassWithoutOrder, ConfirmFails, InsertRow

LEMMA RefreshingAhead ==
    ASSUME MInv, NEW a \in Actors, Refreshing(a), ~WriteRow(a)
    PROVE  Ahead(session[a])'
<1> DEFINE now == session[a]
<1>0. PICK m : m = session'[a]
  OBVIOUS
<1>1. session \in [Actors -> Session] /\ now \in Session
  BY DEF MInv, IInv, TablesOK
<1>2. UNCHANGED rows
  BY DEF Refreshing, BeginRefresh, BeginCancel, BeginOnRow, Cancel, CancelAgain, OrderInfo, OrderInfoFails,
         OpenOrders, OpenOrdersFails, OrderHistory, OrderHistoryFails
<1>3. Idle.pc = "idle" /\ (End(a) => ~OnRow(m))
  BY <1>0, <1>1, IdleType DEF End, OnRow
<1>4. ASSUME NEW r \in RowId, NEW pc \in {"info", "cancel"}, BeginOnRow(a, r, pc)
      PROVE  m.pc # "write" /\ m.was = rows[m.row].state
  BY <1>0, <1>1, <1>4 DEF BeginOnRow, Idle
<1>5. ASSUME NEW pc \in {"info", "history"}, Goto(a, pc)
      PROVE  m.pc # "write" /\ m.row = now.row /\ m.was = now.was
  BY <1>0, <1>1, <1>5 DEF Goto, Session
<1>6. ASSUME NEW seen, Resolve(a, seen), OnRow(now)
      PROVE  \/ ~OnRow(m)
             \/ /\ m.row = now.row
                /\ \/ m.pc # "write" /\ Lifecycle!MayMove(now.was, m.was)
                   \/ m.was = now.was /\ Lifecycle!MayMove(now.was, m.seen)
  BY <1>0, <1>1, <1>3, <1>6 DEF Resolve, Session
<1>m. Ahead(m)' => Ahead(session[a])'
  BY <1>0 DEF Ahead
<1>7. CASE Cancel(a) \/ CancelAgain(a)
  <2>1. OnRow(now)
    BY <1>7 DEF Cancel, CancelAgain, At, OnRow
  <2>2. ASSUME session' = [session EXCEPT ![a].pc = "info", ![a].recheck = TRUE]
        PROVE  m.pc # "write" /\ m.row = now.row /\ m.was = now.was
    BY <1>0, <1>1, <2>2 DEF Session
  <2> QED BY <1>2, <1>m, <1>3, <1>5, <1>7, <2>1, <2>2, StaysAhead DEF Cancel, CancelAgain
<1>8. CASE OrderInfo(a) \/ OrderInfoFails(a)
  <2>1. OnRow(now)
    BY <1>8 DEF OrderInfo, OrderInfoFails, At, OnRow
  <2>2. ASSUME NEW missing \in BOOLEAN, session' = [session EXCEPT ![a].pc = "open", ![a].missing = missing]
        PROVE  m.pc # "write" /\ m.row = now.row /\ m.was = now.was
    BY <1>0, <1>1, <2>2 DEF Session
  <2> QED BY <1>2, <1>m, <1>6, <1>8, <2>1, <2>2, StaysAhead DEF OrderInfo, OrderInfoFails
<1>9. CASE OpenOrders(a) \/ OpenOrdersFails(a) \/ OrderHistory(a) \/ OrderHistoryFails(a)
  <2>1. OnRow(now)
    BY <1>9 DEF OpenOrders, OpenOrdersFails, OrderHistory, OrderHistoryFails, At, OnRow
  <2>2. ASSUME session' = [session EXCEPT ![a].pc = "history", ![a].openRead = TRUE]
        PROVE  m.pc # "write" /\ m.row = now.row /\ m.was = now.was
    BY <1>0, <1>1, <2>2 DEF Session
  <2>3. \/ \E seen : Resolve(a, seen)
        \/ Goto(a, "history")
        \/ End(a)
        \/ session' = [session EXCEPT ![a].pc = "history", ![a].openRead = TRUE]
    BY <1>9 DEF OpenOrders, OpenOrdersFails, OrderHistory, OrderHistoryFails
  <2> QED BY <1>2, <1>m, <1>3, <1>5, <1>6, <2>1, <2>2, <2>3, StaysAhead
<1> QED BY <1>2, <1>m, <1>4, <1>7, <1>8, <1>9, StaysAhead DEF Refreshing, BeginRefresh, BeginCancel

\* A step of the only actor, or of the exchange.
LEMMA NextAhead ==
    ASSUME \A a, b \in Actors : a = b, MInv, [Next]_vars
    PROVE  MInv'
<1>1. IInv'
  BY NextIInv DEF MInv
<1>2. ASSUME NEW a \in Actors, ~OnRow(session'[a]) PROVE \A b \in Actors : Ahead(session[b])'
  BY <1>2 DEF Ahead
<1>3. ASSUME NEW a \in Actors, Submitting(a) PROVE \A b \in Actors : Ahead(session[b])'
  BY <1>2, <1>3, SubmittingAhead
<1>4. ASSUME NEW a \in Actors, End(a) PROVE ~OnRow(session'[a])
  BY <1>4, IdleType DEF End, OnRow, MInv, IInv, TablesOK
<1>5. ASSUME NEW a \in Actors, Refreshing(a) \/ Crash(a) PROVE \A b \in Actors : Ahead(session[b])'
  BY <1>2, <1>4, <1>5, RefreshingAhead DEF WriteRow, Crash
<1>6. ASSUME UNCHANGED <<rows, session>> PROVE \A b \in Actors : Ahead(session[b])'
  BY <1>6 DEF MInv, Ahead
<1>7. ASSUME NEW o \in OrderId, Exchange(o) PROVE UNCHANGED <<rows, session>>
  BY <1>7 DEF Exchange, PartialFill, Fill, CancelElsewhere, Unlist, SetStatus
<1>8. \A b \in Actors : Ahead(session[b])'
  BY <1>3, <1>5, <1>6, <1>7 DEF Next, Step, Switch, vars, tables
<1> QED BY <1>1, <1>8 DEF MInv

\* What a step does to the states of the rows.
LEMMA NextLifecycle ==
    ASSUME MInv, [Next]_vars
    PROVE  [Lifecycle!Next]_[r \in RowId |-> rows[r].state]
<1> DEFINE state == [r \in RowId |-> rows[r].state]
<1>1. rows \in [RowId -> Row]
  BY DEF MInv, IInv, TablesOK
<1>2. ASSUME NEW a \in Actors, NEW r \in RowId, InsertRow(a, r) PROVE Lifecycle!Next
  <2>1. session[a].seen \in OrderStates \ {"created"}
    BY <1>2 DEF MInv, IInv, HandlerOK, InsertRow, At
  <2>2. session[a].seen \in Lifecycle!Successors("submitted") \cup {"submitted"}
    BY <2>1 DEF Lifecycle!Successors, Lifecycle!Terminated, OrderStates
  <2>3. state[r] = Lifecycle!NoRow /\ state' = [state EXCEPT ![r] = session[a].seen]
    BY <1>1, <1>2 DEF InsertRow
  <2> QED BY <2>2, <2>3 DEF Lifecycle!Next, Lifecycle!Insert
<1>3. ASSUME NEW a \in Actors, WriteRow(a) PROVE Lifecycle!Next \/ state' = state
  <2> DEFINE r == session[a].row
             s == session[a].seen
  <2>1. /\ r \in RowId /\ state[r] # Lifecycle!NoRow /\ Lifecycle!MayMove(state[r], s)
    BY <1>3 DEF MInv, IInv, HandlerOK, Ahead, OnRow, WriteRow, At
  <2>2. state' = [state EXCEPT ![r] = s]
    BY <1>1, <1>3, <2>1 DEF WriteRow, Row
  <2>3. s = state[r] \/ s \in Lifecycle!Successors(state[r])
    BY <2>1 DEF Lifecycle!MayMove
  <2> HIDE DEF state, s, r
  <2>4. CASE s = state[r]
    BY <2>1, <2>2, <2>4 DEF state
  <2>5. CASE s \in Lifecycle!Successors(state[r])
    BY <2>1, <2>2, <2>5 DEF Lifecycle!Next, Lifecycle!Move, state
  <2> QED BY <2>3, <2>4, <2>5
<1>4. ASSUME UNCHANGED rows PROVE state' = state
  BY <1>4
<1>5. ASSUME NEW a \in Actors, Submitting(a), \A r \in RowId : ~InsertRow(a, r) PROVE UNCHANGED rows
  BY <1>5 DEF Submitting, BeginManual, ReadOpenOrders, Pick, BeginPass, ReadRows, PassWithoutOrder,
              Create, ConfirmCreated, ConfirmFails
<1>6. ASSUME NEW a \in Actors, Refreshing(a), ~WriteRow(a) PROVE UNCHANGED rows
  BY <1>6 DEF Refreshing, BeginRefresh, BeginCancel, BeginOnRow, Cancel, CancelAgain, OrderInfo,
              OrderInfoFails, OpenOrders, OpenOrdersFails, OrderHistory, OrderHistoryFails
<1>7. ASSUME NEW o \in OrderId, Exchange(o) PROVE UNCHANGED rows
  BY <1>7 DEF Exchange, PartialFill, Fill, CancelElsewhere, Unlist, SetStatus
<1> QED BY <1>2, <1>3, <1>4, <1>5, <1>6, <1>7 DEF Next, Step, Switch, Crash, vars, tables

\* With one process that submits, refreshes and cancels, each row of
\* execution_orders goes through the life cycle that ORDER_STATE_TRANSITIONS
\* promises, crashes included.
THEOREM SingleWriterRefines ==
    ASSUME \A a, b \in Actors : a = b
    PROVE  Spec => LifecycleSpec
<1>1. Init => MInv
  BY InitIInv, IdleType DEF Init, MInv, Ahead, OnRow
<1>2. MInv /\ [Next]_vars => MInv'
  BY NextAhead
<1>3. Init => Lifecycle!Init
  BY DEF Init, Lifecycle!Init
<1>4. MInv /\ [Next]_vars => [Lifecycle!Next]_[r \in RowId |-> rows[r].state]
  BY NextLifecycle
<1> QED BY <1>1, <1>2, <1>3, <1>4, PTL DEF Spec, LifecycleSpec, Lifecycle!Spec

-----------------------------------------------------------------------------
(* What an automatic order looked at.                                      *)

\* An order and its row are of one symbol, and no row is rejected or failed:
\* such an order leaves the handler before the table.
KnownRow(row) ==
    /\ row.state = Lifecycle!NoRow => row.xid = None
    /\ row.xid # None => exchange[row.xid].sym = row.sym
    /\ row.state \notin {"rejected", "failed"}

Known(m) ==
    /\ Unsaved(m) => exchange[m.xid].sym = m.sym
    /\ m.pc \in {"insert", "write"} => m.seen \notin {"rejected", "failed"}

Looking(m) == m.pc = "pick" \/ (m.pc \in {"create", "created"} /\ m.kind # "manual")

\* An order that nobody took note of, on a symbol that could not be read.
Overlooked(m, s, o) == m.reading[s] = "error" /\ \A r \in RowId : rows[r].xid # o

\* What a pass has read stays true until it orders, as no one else orders.
PassOK(m) ==
    /\ m.pc = "scan" => \A s \in Symbols : m.reading[s] = "free" => OpenOrdersOf(s) = {}
    /\ Looking(m) => \A s \in Symbols :
        m.reading[s] # "taken" /\ ~(m.pc = "created" /\ s = m.sym) =>
            \A o \in OpenOrdersOf(s) : Overlooked(m, s, o)
    /\ Looking(m) /\ m.pc = "create" => m.sym \in Symbols /\ m.reading[m.sym] # "taken"

FInv ==
    /\ IInv
    /\ \A r \in RowId : KnownRow(rows[r])
    /\ \A a \in Actors : Known(session[a]) /\ PassOK(session[a])

\* No order appears, and none changes its symbol.
Shrinks ==
    \A o \in OrderId : (Given(o) => exchange'[o].sym = exchange[o].sym) /\ (Live(o)' => Live(o))

LEMMA NotOpen ==
    ASSUME FInv, NEW s \in Symbols, NEW o \in OpenOrdersOf(s), NEW r \in RowId, rows[r].xid = o
    PROVE  OpenRow(r) /\ rows[r].sym = s
<1>1. o \in OrderId /\ Live(o) /\ exchange[o].sym = s /\ o # None
  BY NoneAssumption DEF OpenOrdersOf
<1>2. KnownRow(rows[r]) /\ RowOK(rows[r]) /\ rows[r] \in Row
  BY DEF FInv, IInv, TablesOK
<1>3. rows[r].sym = s /\ rows[r].state # Lifecycle!NoRow
  BY <1>1, <1>2 DEF KnownRow
<1>4. rows[r].state \notin {"filled", "canceled"}
  BY <1>1, <1>2 DEF RowOK, Truthful, Live, Closed
<1>. QED BY <1>2, <1>3, <1>4 DEF KnownRow, OpenRow, Row

\* A step of the only actor that leaves the table alone.
LEMMA NoRowTouched ==
    ASSUME \A x, y \in Actors : x = y, FInv, IInv', UNCHANGED rows,
           \A o \in OrderId : Given(o) => exchange'[o].sym = exchange[o].sym,
           NEW a \in Actors, Known(session[a])', PassOK(session[a])'
    PROVE  FInv'
<1>1. \A r \in RowId : rows[r] \in Row /\ RowOK(rows[r]) /\ KnownRow(rows[r])
  BY DEF FInv, IInv, TablesOK
<1>2. \A r \in RowId : rows[r].xid # None => rows[r].xid \in OrderId /\ Given(rows[r].xid)
  BY <1>1 DEF Row, RowOK
<1>3. \A r \in RowId : KnownRow(rows[r])'
  BY <1>1, <1>2 DEF KnownRow
<1>. QED BY <1>3 DEF FInv

\* A step that adds no order to the exchange either.
LEMMA NothingNew ==
    ASSUME \A x, y \in Actors : x = y, FInv, IInv', Shrinks, UNCHANGED rows,
           NEW a \in Actors, Known(session'[a]), PassOK(session'[a]),
           session'[a].xid # None => session'[a].xid \in OrderId /\ Given(session'[a].xid)
    PROVE  FInv'
<1>. DEFINE m == session'[a]
<1>2. Known(session[a])'
  BY DEF Known, Shrinks, Unsaved
<1>3. \A s \in Symbols : OpenOrdersOf(s)' \subseteq OpenOrdersOf(s)
  <2>1. \A o \in OrderId : Live(o)' => Given(o)
    BY DEF Live, Shrinks, Given
  <2>. QED BY <2>1 DEF OpenOrdersOf, Shrinks
<1>4. PassOK(session[a])'
  BY <1>3 DEF PassOK, Looking, Overlooked
<1>. QED BY <1>2, <1>4, NoRowTouched DEF Shrinks

\* Where the search for an order leads before the exchange is called.
LEMMA SearchFree ==
    ASSUME \A x, y \in Actors : x = y, FInv, IInv', NEW a \in Actors,
           \/ \E s \in Symbols :
                \/ BeginManual(a, s) \/ ReadOpenOrders(a, s)
                \/ \E kind \in {"exit", "entry"} : Pick(a, s, kind)
           \/ BeginPass(a) \/ ReadRows(a)
    PROVE  FInv'
<1>. DEFINE now == session[a]
            m == session'[a]
<1>0. /\ now \in Session /\ session \in [Actors -> Session] /\ now.xid = None
      /\ UNCHANGED <<exchange, rows>> /\ PassOK(now)
  BY DEF FInv, IInv, TablesOK, HandlerOK, BeginManual, ReadOpenOrders, Pick, BeginPass, ReadRows, At
<1>1. Shrinks
  BY <1>0 DEF Shrinks, Live
<1>2. Idle.kind = "manual" /\ Idle.xid = None /\ \A s \in Symbols : Idle.reading[s] = "unread"
  BY DEF Idle
<1>3. ASSUME m.pc \in {"scan", "pick", "create"}, m.xid = None, PassOK(m) PROVE FInv'
  <2>1. Known(m)
    BY <1>3 DEF Known, Unsaved
  <2>. QED BY <1>0, <1>1, <1>3, <2>1, NothingNew
<1>4. ASSUME NEW s \in Symbols, BeginManual(a, s) PROVE FInv'
  <2>1. m.pc = "create" /\ m.kind = "manual" /\ m.xid = None
    BY <1>0, <1>4 DEF BeginManual, Idle
  <2>. QED BY <1>3, <2>1 DEF PassOK, Looking
<1>5. CASE BeginPass(a)
  <2>1. m.pc = "scan" /\ m.xid = None /\ \A s \in Symbols : m.reading[s] = "unread"
    BY <1>0, <1>5 DEF BeginPass, Idle
  <2>. QED BY <1>3, <2>1 DEF PassOK, Looking
<1>6. ASSUME NEW s \in Symbols, ReadOpenOrders(a, s) PROVE FInv'
  <2>0. now.pc = "scan"
    BY <1>6 DEF ReadOpenOrders, At
  <2>1. PICK read \in {"error", "free", "taken"} :
          /\ session' = [session EXCEPT ![a].reading[s] = read]
          /\ read = "free" => OpenOrdersOf(s) = {}
    BY <1>6 DEF ReadOpenOrders
  <2>2. /\ m.pc = "scan" /\ m.xid = None
        /\ \A t \in Symbols : m.reading[t] = IF t = s THEN read ELSE now.reading[t]
    BY <1>0, <2>0, <2>1 DEF Session
  <2>3. PassOK(m)
    BY <1>0, <2>0, <2>1, <2>2 DEF PassOK, Looking
  <2>. QED BY <1>3, <2>2, <2>3
<1>7. CASE ReadRows(a)
  <2>1. /\ now.pc = "scan" /\ m.pc = "pick" /\ m.xid = None
        /\ \A s \in Symbols : m.reading[s] = IF \E r \in RowId : OpenRow(r) /\ rows[r].sym = s
                                             THEN "taken" ELSE now.reading[s]
        /\ \A s \in Symbols : now.reading[s] \in {"error", "free", "taken"}
    BY <1>0, <1>7 DEF ReadRows, At, Session, Reading
  <2>2. ASSUME NEW s \in Symbols, m.reading[s] # "taken", NEW o \in OpenOrdersOf(s)
        PROVE  Overlooked(m, s, o)
    <3>1. m.reading[s] = now.reading[s] /\ \A r \in RowId : ~(OpenRow(r) /\ rows[r].sym = s)
      BY <2>1, <2>2
    <3>2. now.reading[s] = "error"
      BY <1>0, <2>1, <2>2, <3>1 DEF PassOK
    <3>3. \A r \in RowId : rows[r].xid # o
      BY <2>2, <3>1, NotOpen
    <3>. QED BY <3>1, <3>2, <3>3 DEF Overlooked
  <2>3. PassOK(m)
    BY <2>1, <2>2 DEF PassOK
  <2>. QED BY <1>3, <2>1, <2>3
<1>8. ASSUME NEW s \in Symbols, NEW kind \in {"exit", "entry"}, Pick(a, s, kind) PROVE FInv'
  <2>1. /\ now.pc = "pick" /\ now.reading[s] # "taken"
        /\ m.pc = "create" /\ m.xid = None /\ m.sym = s /\ m.reading = now.reading
    BY <1>0, <1>8 DEF Pick, At, Session
  <2>2. Looking(now)
    BY <2>1 DEF Looking
  <2>3. PassOK(m)
    BY <1>0, <2>1, <2>2 DEF PassOK, Looking, Overlooked
  <2>. QED BY <1>3, <2>1, <2>3
<1>. QED BY <1>4, <1>5, <1>6, <1>7, <1>8

\* A handler ends, whatever it did to the exchange but order.
LEMMA EndFree ==
    ASSUME \A x, y \in Actors : x = y, FInv, IInv', UNCHANGED rows,
           \A o \in OrderId : Given(o) => exchange'[o].sym = exchange[o].sym,
           NEW a \in Actors, session'[a].pc = "idle"
    PROVE  FInv'
<1>1. Known(session[a])' /\ PassOK(session[a])'
  BY DEF Known, PassOK, Looking, Unsaved
<1>. QED BY <1>1, NoRowTouched

\* A submission failed; the orders it may have left are of its own symbol.
LEMMA FailsFree ==
    ASSUME \A x, y \in Actors : x = y, FInv, IInv', UNCHANGED rows, NEW a \in Actors, Fails(a),
           session[a].pc \in {"create", "created"},
           \A o \in OrderId : Given(o) => exchange'[o].sym = exchange[o].sym,
           \A s \in Symbols : s # session[a].sym => OpenOrdersOf(s)' \subseteq OpenOrdersOf(s)
    PROVE  FInv'
<1>. DEFINE now == session[a]
            m == session'[a]
            read == [now.reading EXCEPT ![now.sym] = "taken"]
<1>0. now \in Session /\ session \in [Actors -> Session] /\ PassOK(now)
  BY DEF FInv, IInv, TablesOK
<1>1. CASE now.kind = "exit"
  <2>0. PICK t : t = [Idle EXCEPT !.pc = "pick", !.kind = "entry", !.reading = read]
    OBVIOUS
  <2>1. session' = [session EXCEPT ![a] = t]
    BY <1>1, <2>0, Zenon DEF Fails
  <2>2. m = t /\ m.pc = "pick" /\ m.xid = None /\ m.reading = read
    BY <1>0, <2>0, <2>1 DEF Idle
  <2>3. \A s \in Symbols : m.reading[s] # "taken" => s # now.sym /\ m.reading[s] = now.reading[s]
    <3>1. now.reading \in [Symbols -> Reading]
      BY <1>0 DEF Session
    <3>. QED BY <2>2, <3>1
  <2>4. Looking(now)
    BY <1>1 DEF Looking
  <2>5. PassOK(session[a])'
    BY <1>0, <2>2, <2>3, <2>4 DEF PassOK, Overlooked
  <2>6. Known(session[a])'
    BY <2>2 DEF Known, Unsaved
  <2>. QED BY <2>5, <2>6, NoRowTouched
<1>2. CASE now.kind # "exit"
  <2>1. m.pc = "idle"
    BY <1>0, <1>2, IdleType DEF Fails, End
  <2>. QED BY <2>1, EndFree
<1>. QED BY <1>1, <1>2

LEMMA CreateFree ==
    ASSUME \A x, y \in Actors : x = y, FInv, IInv', NEW a \in Actors, Create(a)
    PROVE  FInv'
<1>. DEFINE now == session[a]
            m == session'[a]
<1>0. /\ now \in Session /\ session \in [Actors -> Session] /\ PassOK(now)
      /\ now.pc = "create" /\ now.xid = None /\ UNCHANGED rows
  BY DEF FInv, IInv, TablesOK, HandlerOK, Create, At
<1>1. PICK new \in SUBSET OrderId, last \in OrderId \cup {None} :
        /\ \A o \in new : exchange[o].status = "none"
        /\ exchange' = WithOrders(new, now.sym)
        /\ \/ /\ last \in new
              /\ session' = [session EXCEPT ![a].pc = "created", ![a].xid = last,
                                            ![a].was = "submitted"]
           \/ session' = [session EXCEPT ![a].pc = "insert", ![a].seen = "submitted"]
           \/ Fails(a)
  BY DEF Create
<1>2. \A o \in OrderId : exchange'[o] = IF o \in new
            THEN [status |-> "unfilled", sym |-> now.sym, listed |-> TRUE] ELSE exchange[o]
  BY <1>1 DEF WithOrders
<1>3. \A o \in OrderId : Given(o) => exchange'[o].sym = exchange[o].sym
  BY <1>1, <1>2 DEF Given
<1>4. \A s \in Symbols : s # now.sym => OpenOrdersOf(s)' \subseteq OpenOrdersOf(s)
  BY <1>2 DEF OpenOrdersOf, Live
<1>5. CASE Fails(a)
  BY <1>0, <1>3, <1>4, <1>5, FailsFree
<1>6. CASE session' = [session EXCEPT ![a].pc = "insert", ![a].seen = "submitted"]
  <2>1. m.pc = "insert" /\ m.xid = None /\ m.seen = "submitted"
    BY <1>0, <1>6 DEF Session
  <2>2. Known(session[a])' /\ PassOK(session[a])'
    BY <2>1 DEF Known, PassOK, Looking, Unsaved
  <2>. QED BY <1>0, <1>3, <2>2, NoRowTouched
<1>7. CASE last \in new /\ session' = [session EXCEPT ![a].pc = "created", ![a].xid = last,
                                                      ![a].was = "submitted"]
  <2>1. /\ m.pc = "created" /\ m.xid = last /\ m.sym = now.sym /\ m.kind = now.kind
        /\ m.reading = now.reading
    BY <1>0, <1>7 DEF Session
  <2>2. Known(session[a])'
    BY <1>2, <1>7, <2>1 DEF Known
  <2>3. Looking(m) => Looking(now)
    BY <1>0, <2>1 DEF Looking
  <2>4. PassOK(session[a])'
    BY <1>0, <1>4, <2>1, <2>3 DEF PassOK, Overlooked, Looking
  <2>. QED BY <1>0, <1>3, <2>2, <2>4, NoRowTouched
<1>. QED BY <1>1, <1>5, <1>6, <1>7

LEMMA ConfirmFree ==
    ASSUME \A x, y \in Actors : x = y, FInv, IInv', NEW a \in Actors, ConfirmCreated(a) \/ ConfirmFails(a)
    PROVE  FInv'
<1>. DEFINE now == session[a]
            m == session'[a]
<1>0. /\ now \in Session /\ session \in [Actors -> Session] /\ Known(now)
      /\ now.pc = "created" /\ now.xid \in OrderId /\ Given(now.xid) /\ UNCHANGED <<exchange, rows>>
  BY NoneAssumption DEF FInv, IInv, TablesOK, HandlerOK, ConfirmCreated, ConfirmFails, At
<1>1. CASE Fails(a)
  <2>1. \A s \in Symbols : OpenOrdersOf(s)' \subseteq OpenOrdersOf(s)
    BY <1>0 DEF OpenOrdersOf, Live
  <2>. QED BY <1>0, <1>1, <2>1, FailsFree
<1>2. CASE ~Fails(a)
  <2>. DEFINE seen == StateOf(exchange[now.xid].status)
  <2>1. session' = [session EXCEPT ![a].pc = "insert", ![a].seen = seen]
    BY <1>2 DEF ConfirmCreated, ConfirmFails
  <2>2. m.pc = "insert" /\ m.xid = now.xid /\ m.sym = now.sym /\ m.seen = seen
    BY <1>0, <2>1 DEF Session
  <2>3. seen \notin {"rejected", "failed"}
    BY DEF StateOf
  <2>. HIDE DEF seen
  <2>4. Known(session[a])' /\ PassOK(session[a])'
    BY <1>0, <2>2, <2>3, NoneAssumption DEF Known, PassOK, Looking, Unsaved
  <2>. QED BY <1>0, <2>4, NoRowTouched
<1>. QED BY <1>1, <1>2

\* The row of an order has the order's symbol.
LEMMA InsertFree ==
    ASSUME \A x, y \in Actors : x = y, FInv, IInv', NEW a \in Actors, NEW r \in RowId, InsertRow(a, r)
    PROVE  FInv'
<1>. DEFINE now == session[a]
            row == [state |-> now.seen, xid |-> now.xid, sym |-> now.sym]
<1>0. /\ now \in Session /\ session \in [Actors -> Session] /\ Known(now) /\ HandlerOK(now)
      /\ now.pc = "insert" /\ UNCHANGED exchange /\ rows \in [RowId -> Row]
      /\ rows' = [rows EXCEPT ![r] = row] /\ session'[a] = Idle
  BY DEF FInv, IInv, TablesOK, InsertRow, At, End
<1>1. KnownRow(row)
  BY <1>0 DEF KnownRow, Known, Unsaved, HandlerOK, OrderStates
<1>2. \A q \in RowId : KnownRow(rows[q])'
  <2>. HIDE DEF row
  <2>1. \A q \in RowId : KnownRow(rows'[q])
    BY <1>0, <1>1 DEF FInv
  <2>. QED BY <1>0, <2>1 DEF KnownRow
<1>3. Known(session[a])' /\ PassOK(session[a])'
  BY <1>0, IdleType DEF Known, PassOK, Looking, Unsaved
<1>. QED BY <1>2, <1>3 DEF FInv

LEMMA WriteFree ==
    ASSUME \A x, y \in Actors : x = y, FInv, IInv', NEW a \in Actors, WriteRow(a)
    PROVE  FInv'
<1>. DEFINE now == session[a]
            row == [rows[now.row] EXCEPT !.state = now.seen, !.xid = now.xid]
<1>0. /\ now \in Session /\ session \in [Actors -> Session] /\ Known(now) /\ HandlerOK(now)
      /\ now.pc = "write" /\ UNCHANGED exchange /\ rows \in [RowId -> Row]
      /\ rows' = [rows EXCEPT ![now.row] = row] /\ session'[a] = Idle
  BY DEF FInv, IInv, TablesOK, WriteRow, At, End
<1>1. now.row \in RowId /\ rows[now.row].xid = now.xid /\ KnownRow(rows[now.row]) /\ rows[now.row] \in Row
  BY <1>0 DEF HandlerOK, OnRow, FInv
<1>2. row.state = now.seen /\ row.xid = now.xid /\ row.sym = rows[now.row].sym
  BY <1>1 DEF Row
<1>3. KnownRow(row)
  <2>. HIDE DEF row
  <2>. QED BY <1>0, <1>1, <1>2 DEF KnownRow, Known, HandlerOK, OrderStates
<1>4. \A q \in RowId : KnownRow(rows[q])'
  <2>. HIDE DEF row
  <2>1. \A q \in RowId : KnownRow(rows'[q])
    BY <1>0, <1>1, <1>3 DEF FInv
  <2>. QED BY <1>0, <2>1 DEF KnownRow
<1>5. Known(session[a])' /\ PassOK(session[a])'
  BY <1>0, IdleType DEF Known, PassOK, Looking, Unsaved
<1>. QED BY <1>4, <1>5 DEF FInv

\* Refreshing and cancelling look for nothing, and map no order to "rejected".
LEMMA RefreshFree ==
    ASSUME \A x, y \in Actors : x = y, FInv, IInv', NEW a \in Actors, Refreshing(a), ~WriteRow(a)
    PROVE  FInv'
<1>. DEFINE now == session[a]
<1>0. PICK m : m = session'[a]
  OBVIOUS
<1>1. /\ session \in [Actors -> Session] /\ now \in Session /\ exchange \in [OrderId -> ExchangeOrder]
      /\ HandlerOK(now)
  BY DEF FInv, IInv, TablesOK
<1>. DEFINE Apart == /\ m.pc \notin {"scan", "pick", "create", "created", "insert"}
                     /\ m.pc = "write" => m.seen \notin {"rejected", "failed"}
<1>2. ASSUME Apart, UNCHANGED rows, \A o \in OrderId : exchange'[o].sym = exchange[o].sym PROVE FInv'
  <2>1. Known(session[a])' /\ PassOK(session[a])'
    BY <1>0, <1>2 DEF Known, PassOK, Looking, Unsaved
  <2>. QED BY <1>2, <2>1, NoRowTouched
<1>3. ASSUME End(a) PROVE Apart
  BY <1>0, <1>1, <1>3, IdleType DEF End
<1>4. ASSUME NEW pc \in {"info", "history"}, Goto(a, pc) PROVE Apart
  BY <1>0, <1>1, <1>4 DEF Goto, Session
<1>5. ASSUME NEW seen, seen \notin {"rejected", "failed"}, Resolve(a, seen) PROVE Apart
  BY <1>0, <1>1, <1>3, <1>5 DEF Resolve, Session
<1>6. \A status : StateOf(status) \notin {"rejected", "failed"}
  BY DEF StateOf
<1>7. ASSUME NEW r \in RowId, NEW pc \in {"info", "cancel"}, BeginOnRow(a, r, pc) PROVE FInv'
  <2>1. m.pc = pc
    BY <1>0, <1>1, <1>7 DEF BeginOnRow, Idle
  <2>. QED BY <1>2, <1>7, <2>1 DEF BeginOnRow
<1>8. CASE Cancel(a) \/ CancelAgain(a)
  <2>1. PICK applied \in BOOLEAN : CancelCall(a, applied)
    BY <1>8 DEF Cancel, CancelAgain
  <2>2. \A o \in OrderId : exchange'[o].sym = exchange[o].sym
    BY <1>1, <2>1 DEF CancelCall, ExchangeOrder
  <2>3. ASSUME session' = [session EXCEPT ![a].pc = "info", ![a].recheck = TRUE] PROVE Apart
    BY <1>0, <1>1, <2>3 DEF Session
  <2>4. Apart /\ UNCHANGED rows
    BY <1>3, <1>4, <1>8, <2>3 DEF Cancel, CancelAgain
  <2>. QED BY <1>2, <2>2, <2>4
<1>9. CASE OrderInfo(a) \/ OrderInfoFails(a)
  <2>1. ASSUME NEW missing \in BOOLEAN, session' = [session EXCEPT ![a].pc = "open", ![a].missing = missing]
        PROVE  Apart
    BY <1>0, <1>1, <2>1 DEF Session
  <2>2. Apart /\ UNCHANGED <<exchange, rows>>
    BY <1>5, <1>6, <1>9, <2>1 DEF OrderInfo, OrderInfoFails
  <2>. QED BY <1>2, <2>2
<1>10. CASE OpenOrders(a) \/ OpenOrdersFails(a) \/ OrderHistory(a) \/ OrderHistoryFails(a)
  <2>1. ASSUME session' = [session EXCEPT ![a].pc = "history", ![a].openRead = TRUE] PROVE Apart
    BY <1>0, <1>1, <2>1 DEF Session
  <2>2. \A status : \A seen \in RowStates(status) : seen \notin {"rejected", "failed"}
    BY <1>6 DEF RowStates
  <2>3. /\ \/ \E seen : seen \notin {"rejected", "failed"} /\ Resolve(a, seen)
           \/ Goto(a, "history")
           \/ End(a)
           \/ session' = [session EXCEPT ![a].pc = "history", ![a].openRead = TRUE]
        /\ UNCHANGED <<exchange, rows>>
    BY <1>10, <2>2 DEF OpenOrders, OpenOrdersFails, OrderHistory, OrderHistoryFails
  <2>4. Apart
    BY <1>3, <1>4, <1>5, <2>1, <2>3
  <2>. QED BY <1>2, <2>3, <2>4
<1>. QED BY <1>7, <1>8, <1>9, <1>10 DEF Refreshing, BeginRefresh, BeginCancel

\* The exchange by itself makes no order.
LEMMA ExchangeFree ==
    ASSUME FInv, IInv', Shrinks, UNCHANGED <<rows, session>>
    PROVE  FInv'
<1>1. /\ \A r \in RowId : rows[r] \in Row /\ RowOK(rows[r]) /\ KnownRow(rows[r])
      /\ \A a \in Actors : session[a] \in Session /\ HandlerOK(session[a]) /\ Known(session[a])
                           /\ PassOK(session[a])
  BY DEF FInv, IInv, TablesOK
<1>2. \A r \in RowId : rows[r].xid # None => rows[r].xid \in OrderId /\ Given(rows[r].xid)
  BY <1>1 DEF Row, RowOK
<1>3. \A a \in Actors : session[a].xid # None => session[a].xid \in OrderId /\ Given(session[a].xid)
  BY <1>1 DEF Session, HandlerOK
<1>4. \A s \in Symbols : OpenOrdersOf(s)' \subseteq OpenOrdersOf(s)
  <2>1. \A o \in OrderId : Live(o)' => Given(o)
    BY DEF Live, Shrinks, Given
  <2>. QED BY <2>1 DEF OpenOrdersOf, Shrinks
<1>5. \A r \in RowId : KnownRow(rows[r])'
  BY <1>1, <1>2 DEF KnownRow, Shrinks
<1>6. \A a \in Actors : Known(session[a])'
  BY <1>1, <1>3 DEF Known, Unsaved, Shrinks
<1>7. \A a \in Actors : PassOK(session[a])'
  BY <1>1, <1>4 DEF PassOK, Looking, Overlooked
<1>. QED BY <1>5, <1>6, <1>7 DEF FInv

LEMMA NextFree ==
    ASSUME \A x, y \in Actors : x = y, FInv, [Next]_vars
    PROVE  FInv'
<1>1. IInv'
  BY NextIInv DEF FInv
<1>2. ASSUME NEW a \in Actors, End(a), UNCHANGED <<exchange, rows>> PROVE FInv'
  <2>1. session'[a].pc = "idle"
    BY <1>2, IdleType DEF End, FInv, IInv, TablesOK
  <2>. QED BY <1>1, <1>2, <2>1, EndFree
<1>3. ASSUME NEW a \in Actors, Submitting(a) PROVE FInv'
  BY <1>1, <1>2, <1>3, SearchFree, CreateFree, ConfirmFree, InsertFree DEF Submitting, PassWithoutOrder
<1>4. ASSUME NEW a \in Actors, Refreshing(a) PROVE FInv'
  BY <1>1, <1>4, RefreshFree, WriteFree
<1>5. ASSUME NEW a \in Actors, Crash(a) PROVE FInv'
  BY <1>2, <1>5 DEF Crash
<1>6. ASSUME NEW o \in OrderId, Exchange(o) PROVE FInv'
  <2>1. exchange \in [OrderId -> ExchangeOrder]
    BY DEF FInv, IInv, TablesOK
  <2>2. Shrinks /\ UNCHANGED <<rows, session>>
    BY <1>6, <2>1 DEF Exchange, PartialFill, Fill, CancelElsewhere, Unlist, SetStatus, Shrinks, Live,
                      Closed, ExchangeOrder
  <2>. QED BY <1>1, <2>2, ExchangeFree
<1>7. CASE UNCHANGED tables
  BY <1>1, <1>7, ExchangeFree DEF tables, Shrinks, Live
<1>. QED BY <1>3, <1>4, <1>5, <1>6, <1>7 DEF Next, Step, Switch, vars, tables

\* With one process that orders, an automatic order goes to a symbol without
\* one, but for an order without a row on a symbol that could not be read:
\* whatever the exchange does meanwhile, and wherever the process is stopped.
THEOREM AutoOrdersGoToFree ==
    ASSUME \A a, b \in Actors : a = b
    PROVE  Spec => []AutoOrderNeedsFreeSymbol
<1>1. Init => FInv
  <2>. SUFFICES ASSUME Init PROVE FInv
    OBVIOUS
  <2>1. \A a \in Actors : Known(session[a]) /\ PassOK(session[a])
    BY IdleType DEF Init, Known, PassOK, Looking, Unsaved
  <2>2. \A r \in RowId : KnownRow(rows[r])
    BY DEF Init, KnownRow
  <2>. QED BY <2>1, <2>2, InitIInv DEF FInv
<1>2. FInv /\ [Next]_vars => FInv'
  BY NextFree
<1>3. FInv => AutoOrderNeedsFreeSymbol
  BY DEF FInv, PassOK, Looking, Overlooked, AutoOrderNeedsFreeSymbol, At
<1>. QED BY <1>1, <1>2, <1>3, PTL DEF Spec
=============================================================================
