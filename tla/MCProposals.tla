--------------------------- MODULE MCProposals ---------------------------
(* Two sessions propose, and decide on, the same symbol in every order; one    *)
(* alone lives to see a dismissal end, and applies what it has for two symbols. *)
EXTENDS Proposals, ProposalTiers

ProposalScopes ==
    {[time |-> 1, what |-> Rules, sessions |-> Sessions, symbols |-> {1},
      recomputes |-> 2, clicks |-> 1, cuts |-> 0],
     [time |-> 2, what |-> {1}, sessions |-> Sessions, symbols |-> {1},
      recomputes |-> 1, clicks |-> 2, cuts |-> 0],
     [time |-> 2, what |-> {1}, sessions |-> Sessions, symbols |-> {1},
      recomputes |-> 2, clicks |-> 1, cuts |-> 0],
     [time |-> 3, what |-> {1, Prune}, sessions |-> {1}, symbols |-> {1},
      recomputes |-> 2, clicks |-> 2, cuts |-> 0],
     [time |-> 1, what |-> Rules \cup {Prune}, sessions |-> {1}, symbols |-> Symbols,
      recomputes |-> 1, clicks |-> 1, cuts |-> 1]}

-----------------------------------------------------------------------------
(* What Proposals_proofs proves of every rating, evaluated on the few that lie *)
(* on both sides of its bounds.                                                *)

Profits == {-100, -1, 0, 1, 50, 75, 100, 200}
Replays == [pnl : Profits, trades : {0, 4, 5, 9, 10}, win : {0, 1, 44, 45, 54, 55, 64, 65}, fee : Fees]
Rows == [prune : BOOLEAN, high : BOOLEAN, pnl : {-1, 0, 1}, fee : Fees]
Known == [rows : SUBSET [id : 0..2, partial : BOOLEAN], visible : SUBSET {1, 2}, available : 0..1,
          reserved : 0..1, bought : BOOLEAN, snapshot : {"read", "requires_symbol", "error", "none"}]

ASSUME ProfitRates ==
    \A best \in Replays, more \in Profits, baseline \in {-100, 0, 50, 100}, fresh \in Freshness :
        more >= best.pnl =>
            Rank(UpdateTier(best, baseline, fresh))
                <= Rank(UpdateTier([best EXCEPT !.pnl = more], baseline, fresh))

ASSUME BlocksRate ==
    \A k \in Known :
        IF HardBlocks(k) # {} THEN \A row \in Rows : PruneTier(row, k) = "BLOCKED"
        ELSE /\ k.snapshot = "read" => RowIds(k) = k.visible
             /\ k.snapshot \in {"error", "requires_symbol"} => k.rows = {}
             /\ ~GhostReserved(k)

ASSUME PrunesRate ==
    \A row \in Rows : \A k \in {j \in Known : j.rows = {} /\ HardBlocks(j) = {}} :
        IsPrune(row) => PruneTier(row, k) \in {"RECOMMENDED", "AUTO_APPROVE"}
=============================================================================
