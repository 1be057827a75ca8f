---------------------------- MODULE MCLiveOrders ----------------------------
(* Two orders and two rows are the least with which a create request that is *)
(* sent twice, a second row and the choice of a wrong one can happen; two    *)
(* symbols, with which one can be read while the other cannot.               *)
EXTENDS LiveOrders, Naturals, TLC

\* The ids of the exchange, those of the table and the symbols are alike.
Alike == Permutations(OrderId) \cup Permutations(RowId) \cup Permutations(Symbols)

(* Symmetry is not sound for liveness.  There the ids and symbols are numbers   *)
(* that are used in their order, which leaves one of the behaviors that are     *)
(* alike.                                                                       *)
InOrder ==
    /\ \A o, p \in OrderId : p < o /\ exchange[o].status # "none" => exchange[p].status # "none"
    /\ \A o \in OrderId, s, t \in Symbols :
        t < s /\ exchange[o].sym = s => \E p \in OrderId : p < o /\ exchange[p].sym = t
    /\ \A r, q \in RowId : q < r /\ rows[r].xid # None => rows[q].xid # None

NumberedSpec == Init /\ [][Next /\ InOrder']_vars /\ Fairness /\ CrashesEnd

\* A loop that is not running only does less: for the safety of the rows it is
\* enough to look at one that runs.
SteadySpec == Init /\ running = TRUE /\ [][Next /\ UNCHANGED running]_vars
=============================================================================
