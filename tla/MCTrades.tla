------------------------------ MODULE MCTrades ------------------------------
(* Paper and live trades share no variable: a behavior is one of PaperTrading  *)
(* or one of LiveTrades.                                                       *)
(*                                                                             *)
(* A live buy of 8 THB, 4 of which are the fee, yields 4, 2 or 1 coins at the  *)
(* prices 1, 2 and 4: all shares of costs and fees are whole.                  *)
EXTENDS PaperTrading, LiveTrades, TLC

CONSTANT Parts    \* which of the two there are

VARIABLE part

MCPaper == {[pnl |-> 2, fee |-> 1], [pnl |-> -3, fee |-> 1]}

Base == [symbols |-> {1}, modes |-> {"live"}, orders |-> 3, days |-> 1, sales |-> 0,
         rates |-> {}, told |-> {"executions"}, halves |-> FALSE, better |-> FALSE, pauses |-> FALSE, pages |-> FALSE]

\* The loop alone with two symbols; the operator's orders on two days; orders that
\* are executed in two steps; the modes, pauses and paper trades; the page.
MCScopes ==
    {[Base EXCEPT !.symbols = {1, 2}, !.orders = 4],
     [Base EXCEPT !.orders = 4, !.days = 2, !.rates = {1, 4}],
     [Base EXCEPT !.rates = {1, 4}, !.halves = TRUE],
     [Base EXCEPT !.orders = 4, !.told = Tellings, !.better = TRUE],
     [Base EXCEPT !.rates = {2}, !.told = Tellings, !.halves = TRUE, !.better = TRUE],
     [Base EXCEPT !.orders = 2, !.modes = {"paper", "live", "shadow-live"}, !.days = 2,
                  !.sales = 1, !.rates = {2}, !.pauses = TRUE],
     [Base EXCEPT !.days = 2, !.rates = {2}, !.pages = TRUE],
     [Base EXCEPT !.orders = 1, !.modes = {"paper", "live"}, !.days = 2, !.sales = 2,
                  !.pages = TRUE]}

\* The part that a behavior leaves alone has one state.
MCInit ==
    /\ part \in Parts /\ Init /\ LiveInit
    /\ part = "paper" => scope = CHOOSE s \in MCScopes : s.modes = {"live"}

MCNext ==
    \/ part = "paper" /\ Next /\ UNCHANGED <<part, live>>
    \/ part = "live" /\ LiveNext /\ UNCHANGED <<part, vars>>

\* The symbols of the paper trades are alike.
Alike == Permutations(Symbols)

MCSpec == MCInit /\ [][MCNext]_<<part, vars, live>>
=============================================================================
