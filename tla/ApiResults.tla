----------------------------- MODULE ApiResults -----------------------------
(***************************************************************************)
(* What a handler of execution_service.py can learn from one call of       *)
(* BitkubPrivateClient that places an order.  LiveOrders uses it in place  *)
(* of the call; ApiClient, which models the call, is shown to stay in it.  *)
(***************************************************************************)
EXTENDS Naturals

\* PLACE_BID_PATHS and PLACE_ASK_PATHS: the current path and the legacy one.
Paths == 2

\* How many orders the call left on the exchange, and what it told its caller:
\* an id, a result without one, an error that _submit_order_with_safety_check
\* takes as ambiguous, or an error that it does not.
CreateResults ==
    [made : 1..Paths, reply : {"id", "noid"}] \cup
    [made : 0..Paths, reply : {"ambiguous", "error"}]
=============================================================================
