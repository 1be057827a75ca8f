---------------------------- MODULE ProposalTiers ----------------------------
(***************************************************************************)
(* How the Strategy Inbox rates what it proposes: strategy_proposal_service*)
(* scores a rule update by its replay and a prune by the tuning row, and   *)
(* ui/streamlit/symbol_state.py says what stands against a prune.  An      *)
(* AUTO_APPROVE proposal is ticked in the form, a BLOCKED one cannot be    *)
(* applied.                                                                *)
(*                                                                         *)
(* Amounts are whole baht, the win rate a whole per cent, and a score is in*)
(* thousandths, the precision it is rounded to.                            *)
(***************************************************************************)
EXTENDS Integers

Fees == {"", "FEE_OK", "FEE_HEAVY", "THIN_EDGE", "LOSS_AFTER_FEES"}
Freshness == {"Fresh", "Stale", "Missing"}

AtMost(bound, x) == IF x < bound THEN x ELSE bound
AtLeast(bound, x) == IF x > bound THEN x ELSE bound

Confidence(score) == AtLeast(0, AtMost(1000, score))

-----------------------------------------------------------------------------
(* Rule updates.                                                           *)

\* The best variant of a comparison.
Replay == [pnl : Int, trades : Nat, win : 0..100, fee : Fees]

\* edge / 200 and best_pnl / 500
EdgeScore(edge) == AtMost(300, AtLeast(-300, 5 * edge))
PnlScore(pnl) == AtMost(150, AtLeast(-200, 2 * pnl))

TradesScore(trades) ==
    IF trades >= 10 THEN 200 ELSE IF trades >= 5 THEN 100 ELSE IF trades = 0 THEN -150 ELSE 0

WinScore(win) ==
    IF win >= 65 THEN 150 ELSE IF win >= 55 THEN 100 ELSE IF 0 < win /\ win < 45 THEN -100 ELSE 0

FeeScore(fee) ==
    IF fee = "FEE_OK" THEN 150 ELSE IF fee = "FEE_HEAVY" THEN 50
    ELSE IF fee \in {"THIN_EDGE", "LOSS_AFTER_FEES"} THEN -300 ELSE 0

AgeScore(fresh) == IF fresh = "Stale" THEN -100 ELSE IF fresh = "Missing" THEN -300 ELSE 0

\* compute_rule_update_confidence
UpdateConfidence(best, baseline, fresh) ==
    Confidence(400 + EdgeScore(best.pnl - baseline) + PnlScore(best.pnl) + TradesScore(best.trades)
                   + WinScore(best.win) + FeeScore(best.fee) + AgeScore(fresh))

\* The warnings of build_rule_update_proposal.
UpdateWarned(best) == best.trades < 5 \/ best.fee \in {"THIN_EDGE", "LOSS_AFTER_FEES"}

\* classify_rule_update_tier; missing candles are a hard block.
UpdateTierAt(confidence, best, baseline, fresh) ==
    IF fresh = "Missing" THEN "BLOCKED"
    ELSE IF fresh = "Stale" \/ best.fee = "LOSS_AFTER_FEES" \/ best.pnl <= 0 THEN "NEEDS_REVIEW"
    ELSE IF confidence >= 800 /\ best.pnl >= baseline /\ ~UpdateWarned(best) THEN "AUTO_APPROVE"
    ELSE IF confidence >= 600 THEN "RECOMMENDED" ELSE "NEEDS_REVIEW"

\* build_rule_update_proposal
UpdateTier(best, baseline, fresh) ==
    UpdateTierAt(UpdateConfidence(best, baseline, fresh), best, baseline, fresh)

-----------------------------------------------------------------------------
(* Prunes.                                                                 *)

\* What the page knows of a symbol.  rows: its open execution_orders, with the
\* id of the exchange or 0; visible: the ids of its open orders; snapshot: they
\* were read in one call for all symbols, the exchange wants a call for each, the
\* call failed, or there is no account; bought: its last filled row bought.
Knowledge ==
    [rows : SUBSET [id : Nat, partial : BOOLEAN], visible : SUBSET (Nat \ {0}), available : Nat,
     reserved : Nat, bought : BOOLEAN, snapshot : {"read", "requires_symbol", "error", "none"}]

Visible(k) == IF k.snapshot = "read" THEN k.visible ELSE {}
RowIds(k) == {r.id : r \in k.rows} \ {0}
Reserved(k) == k.snapshot # "none" /\ k.reserved > 0
Held(k) == k.snapshot # "none" /\ k.available + k.reserved > 0

\* The findings about the symbol that want a review.
Unresolved(k) ==
    {c \in {"partially_filled", "missing_on_exchange", "missing_locally", "orders_without_exchange_id",
            "reserved_without_open_order", "open_order_without_reserved", "unmanaged_live_holdings"} :
        CASE c = "partially_filled" -> \E r \in k.rows : r.partial
          [] c = "missing_on_exchange" -> k.snapshot # "none" /\ ~(RowIds(k) \subseteq Visible(k))
          [] c = "missing_locally" -> ~(Visible(k) \subseteq RowIds(k))
          [] c = "orders_without_exchange_id" -> \E r \in k.rows : r.id = 0
          [] c = "reserved_without_open_order" -> Reserved(k) /\ Visible(k) = {}
          [] c = "open_order_without_reserved" -> Held(k) /\ ~Reserved(k) /\ Visible(k) # {}
          [] c = "unmanaged_live_holdings" -> Held(k) /\ k.rows = {} /\ ~k.bought}

\* SOFT_REVIEW_REASONS
Soft == {"coverage is partial", "query returned an error"}

\* review_reasons of build_symbol_operational_state
ReviewReasons(k) ==
    Unresolved(k)
    \cup (IF k.snapshot = "requires_symbol" THEN Soft ELSE {})
    \cup (IF k.snapshot = "error" THEN {"query returned an error"} ELSE {})

\* has_real_open_orders, and has_ghost_reserved: the reserved baht are summed over
\* the rows, so that only coins can be reserved without one.
OpenOrders(k) == k.rows # {}
GhostReserved(k) == Reserved(k) /\ ~OpenOrders(k)

\* assess_prune_readiness
HardBlocks(k) ==
    (IF \E r \in k.rows : r.partial THEN {"partial fill is still unresolved"} ELSE {})
    \cup (ReviewReasons(k) \ Soft)
    \cup (IF OpenOrders(k) THEN ReviewReasons(k) \cap Soft ELSE {})

\* What strategy_lab_service recommends for a symbol, and how it did.
Tuning == [prune : BOOLEAN, high : BOOLEAN, pnl : Int, fee : Fees]

\* compute_prune_confidence: a recompute has one result for both of its results.
PruneConfidence(row) ==
    Confidence(300 + (IF row.prune THEN 300 ELSE 0) + (IF row.high THEN 200 ELSE 0)
                   + (IF row.pnl <= 0 THEN 200 ELSE 0)
                   + (IF row.fee \in {"THIN_EDGE", "LOSS_AFTER_FEES"} THEN 150 ELSE 0))

\* _tuning_row_is_prune: the others are compared for an update.
IsPrune(row) == row.prune \/ row.high

\* build_prune_proposal and classify_prune_tier
PruneTier(row, k) ==
    IF HardBlocks(k) # {} THEN "BLOCKED"
    ELSE IF PruneConfidence(row) >= 700 THEN "AUTO_APPROVE"
    ELSE IF PruneConfidence(row) >= 500 THEN "RECOMMENDED" ELSE "NEEDS_REVIEW"

-----------------------------------------------------------------------------

\* From what the operator should look at to what is ticked.
Rank(tier) ==
    CASE tier = "BLOCKED" -> 0 [] tier = "NEEDS_REVIEW" -> 1
      [] tier = "RECOMMENDED" -> 2 [] tier = "AUTO_APPROVE" -> 3
=============================================================================
