-------------------------- MODULE LiveGuardrails ---------------------------
(***************************************************************************)
(* The checks of execution_service that decide which live order may be     *)
(* sent: the guardrails, the validation of a request, the price band that  *)
(* the pages suggest a rate from, and the candidates of the automatic      *)
(* exit.  Amounts are whole coins and whole baht; percentages are exact.   *)
(***************************************************************************)
EXTENDS Integers

CONSTANTS
    Budget,       \* budget_thb of every rule, and the amount of a manual buy
    BuyFee,       \* the fee of a filled buy, taken out of its amount
    MaxOrder,     \* live_max_order_thb
    MinCash,      \* live_min_thb_balance
    Tolerance,    \* live_slippage_tolerance_percent
    LossLimit,    \* live_daily_loss_limit_thb
    SellAbove,    \* sell_above of every rule
    StopLoss,     \* stop_loss_percent
    TakeProfit    \* take_profit_percent

-----------------------------------------------------------------------------
(* Requests.                                                               *)

\* The coins of a buy: what is left of the amount after the fee, at the rate.
Qty(rate) == (Budget - BuyFee) \div rate

\* The amount of a buy is in THB, that of a sell in coins.
BuyRequest(s, rate) == [sym |-> s, side |-> "buy", amt |-> Budget, rate |-> rate]

SellRequest(s, amt, rate) == [sym |-> s, side |-> "sell", amt |-> amt, rate |-> rate]

\* A manual order is the preset or the form's content; only its side decides
\* how it is built.
ManualRequest(s, side, amt, rate) ==
    IF side = "buy" THEN BuyRequest(s, rate) ELSE SellRequest(s, amt, rate)

\* requested_notional_thb
Notional(r) == IF r.side = "buy" THEN r.amt ELSE r.amt * r.rate

-----------------------------------------------------------------------------
(* Guardrails.  The kill switch is on, the private API is configured and   *)
(* its open orders can be read.                                            *)

\* The blocked reasons but for the one about the balance, which is dropped
\* again for a sell.
Unblocked(mode, paused, pnl) ==
    /\ mode \in {"live", "shadow-live"}
    /\ paused = {}
    /\ pnl > -LossLimit

EnoughCash(thb) == thb >= MinCash

\* A rate in units of 1/unit baht is not further from a price than the tolerance.
InBand(rate, unit, price) ==
    /\ (rate - unit * price) * 100 <= Tolerance * unit * price
    /\ (unit * price - rate) * 100 <= Tolerance * unit * price

\* validate_manual_live_order_guardrails: a manual order has no price band.
ManualFits(r, thb, qty) ==
    /\ Notional(r) <= MaxOrder
    /\ r.side = "buy" => EnoughCash(thb) /\ thb >= Notional(r)
    /\ r.side = "sell" => qty >= r.amt

\* validate_live_buy_request_guardrails
BuyFits(r, thb, price) ==
    /\ EnoughCash(thb)
    /\ Notional(r) <= MaxOrder
    /\ thb >= Notional(r)
    /\ InBand(r.rate, 1, price)

\* validate_live_sell_request_guardrails
SellFits(r, qty, price) ==
    /\ Notional(r) <= MaxOrder
    /\ qty >= r.amt
    /\ InBand(r.rate, 1, price)

\* The ends of the band in hundredths of a baht.
BandLow(price) == price * (100 - Tolerance)
BandHigh(price) == price * (100 + Tolerance)

\* build_live_price_band_resolution: the wanted rate, moved to the nearer end of
\* the band if it is outside; none without a price, or with one that is stale.
Suggested(rate, price, stale) ==
    IF price <= 0 \/ stale THEN {}
    ELSE IF 100 * rate < BandLow(price) THEN {BandLow(price)}
    ELSE IF 100 * rate > BandHigh(price) THEN {BandHigh(price)}
    ELSE {100 * rate}

-----------------------------------------------------------------------------
(* The automatic exit.                                                     *)

\* The reason to sell at the price what was bought at the entry rate.
ExitReason(entry, price) ==
    IF price * 100 <= entry * (100 - StopLoss) THEN "STOP_LOSS"
    ELSE IF price >= SellAbove THEN "SELL_ZONE"
    ELSE IF price * 100 >= entry * (100 + TakeProfit) THEN "TAKE_PROFIT"
    ELSE "WAIT"

\* The rate of the sell: in the sell zone that of the rule, else the price.
ExitRate(entry, price) ==
    IF ExitReason(entry, price) = "SELL_ZONE" THEN SellAbove ELSE price
=============================================================================
