--------------------------- MODULE OrderLifecycle ---------------------------
(***************************************************************************)
(* What services/execution_service.py promises about one row of the table  *)
(* execution_orders: once inserted, a row moves only along                 *)
(* ORDER_STATE_TRANSITIONS, and the four terminal states are never left.   *)
(* LiveOrders is the detailed specification that implements this one when  *)
(* the rows have a single writer.                                          *)
(***************************************************************************)
CONSTANT RowId          \* primary keys of execution_orders

VARIABLE state          \* state[r]: the column "state" of row r

OpenOrderStates == {"created", "submitted", "open", "partially_filled"}

TerminalOrderStates == {"filled", "canceled", "rejected", "failed"}

OrderStates == OpenOrderStates \cup TerminalOrderStates

\* A row id whose row has not been inserted yet.
NoRow == "absent"

Terminated == {"filled", "canceled", "failed"}

\* ORDER_STATE_TRANSITIONS.get(s, set())
Successors(s) ==
    CASE s = "created"          -> {"submitted", "rejected", "failed", "canceled"}
      [] s = "submitted"        -> {"open", "partially_filled", "rejected"} \cup Terminated
      [] s = "open"             -> {"partially_filled"} \cup Terminated
      [] s = "partially_filled" -> Terminated
      [] OTHER                  -> {}

\* The test transition_live_order_state makes before it changes a record: a
\* state may always be re-entered, any other move must be in the table.
MayMove(s, t) == t = s \/ t \in Successors(s)

-----------------------------------------------------------------------------

Init == state = [r \in RowId |-> NoRow]

\* A submission that succeeded inserts its row in the state it has reached;
\* "created" never reaches the database, the row is written after the
\* exchange has answered.
Insert(r) ==
    /\ state[r] = NoRow
    /\ \E s \in Successors("submitted") \cup {"submitted"} :
         state' = [state EXCEPT ![r] = s]

Move(r) ==
    /\ state[r] # NoRow
    /\ \E s \in Successors(state[r]) : state' = [state EXCEPT ![r] = s]

Next == \E r \in RowId : Insert(r) \/ Move(r)

Spec == Init /\ [][Next]_state
=============================================================================
