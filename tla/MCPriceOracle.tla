---------------------------- MODULE MCPriceOracle ----------------------------
(***************************************************************************)
(* A small instance of PriceOracle for TLC: bitcoin with two denoms that   *)
(* may be mapped to it, posts that are dated now, back, ahead and too far  *)
(* ahead, one under the name of an alias, and messages that are refused.   *)
(***************************************************************************)
EXTENDS PriceOracle

CONSTANTS btc, nbtc, wbtc, boss, heir

Update(asset, usd, as_of) == [asset |-> asset, usd |-> usd, as_of |-> as_of]
Remap(alt, id, precision, threshold) ==
    [ alt_asset_id |-> alt,
      mapping |-> [ asset_id |-> id, precision |-> precision,
                    staleness_threshold_seconds |-> threshold ] ]

MCPosts ==
    { <<Update(btc, 10, NOW)>>,
      <<Update(btc, 20, 1)>>,
      <<Update(btc, 20, 4)>>,
      <<Update(btc, 20, 20)>>,                          \* too far ahead
      <<Update(nbtc, 7, NOW), Update(btc, 10, NOW)>>,
      <<Update(nbtc, 7, NOW), Update(btc, 0, NOW)>>,    \* refused as a whole
      <<Update(btc, 7, NOW), Update(btc, 8, NOW)>> }    \* a duplicate

MCRemaps ==
    { <<>>,
      <<Remap(nbtc, btc, 2, 2), Remap(wbtc, btc, 1, 2)>>,
      <<Remap(btc, nbtc, 0, 1)>>,                       \* a chain, or a cycle
      <<Remap(wbtc, btc, 3, 2)>> }                      \* too precise

MCRemovals == {{}, {nbtc}, {btc, nbtc}}
=============================================================================
