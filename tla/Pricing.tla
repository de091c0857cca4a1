------------------------------ MODULE Pricing ------------------------------
(***************************************************************************)
(* utils/price.rs and packages/lib/src/price_oracle/model/price.rs: which  *)
(* stored quotes a pool handler may act on, and what an amount is worth.   *)
(*                                                                         *)
(* A price map (PriceMapResponse) is a function from denoms to a display   *)
(* price in atomics; 0 stands both for an absent entry and for a zero      *)
(* price, which every reader in utils/ treats alike.  A stored quote keeps *)
(* its expiration time as well; usd = 0 is a denom never posted.           *)
(***************************************************************************)
EXTENDS Accrual

CONSTANTS
    LENDING,        \* the lending denom
    Collaterals,    \* denoms that can be collateral
    UNIT            \* UNIT[d] = 10^precision of denom d in the oracle's mapping

Denoms == Collaterals \cup {LENDING}

ASSUME PricingAssumption ==
    /\ LENDING \notin Collaterals
    /\ UNIT \in [Denoms -> Nat \ {0}]

Quotes == [usd : Atomics, expiration : Nat]
PriceMap == [Denoms -> Atomics]

\* AssetPriceResponseV1::value_usd: display price * amount / 10^precision.
value_usd(prices, d, amount) == (prices[d] * amount) \div UNIT[d]

\* AssetPriceResponseV1::is_stale.
is_stale(quote, at) == at >= quote.expiration

\* liquidation_price_too_old: expired for max_secs or longer.
liquidation_price_too_old(quote, at, max_secs) ==
    is_stale(quote, at) /\ saturating_sub(at, quote.expiration) >= max_secs

-----------------------------------------------------------------------------
\* The quote of a handler that grants credit: only fresh ones count.
fresh(quotes, at, d) == quotes[d].usd > 0 /\ ~is_stale(quotes[d], at)

\* get_asset_prices_for_borrower.  It fails unless the lending denom is fresh.
borrower_prices(quotes, at) ==
    [d \in Denoms |-> IF fresh(quotes, at, d) THEN quotes[d].usd ELSE 0]

\* The quote of a liquidation: also a stale one, within the last-known bound.
usable(quotes, at, max_secs, d) ==
    quotes[d].usd > 0 /\ ~liquidation_price_too_old(quotes[d], at, max_secs)

\* get_asset_prices_for_liquidation: prices, unpriceable holdings, and the
\* prices with the too-old quotes put back (for the owner gate alone).
liquidation_prices(quotes, at, max_secs) ==
    [d \in Denoms |-> IF usable(quotes, at, max_secs, d) THEN quotes[d].usd ELSE 0]

unpriceable(quotes, at, max_secs, held) ==
    {a \in Collaterals : held[a] > 0 /\ ~usable(quotes, at, max_secs, a)}

prices_with_unpriceable_last_known(quotes) == [d \in Denoms |-> quotes[d].usd]
=============================================================================
