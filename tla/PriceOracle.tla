----------------------------- MODULE PriceOracle -----------------------------
(***************************************************************************)
(* contracts/price_oracle: prices stored by asset, and mappings that let a *)
(* denom answer with the price of a display asset.  The owner posts prices *)
(* with the time they are from, which may lie in the past and, a little,   *)
(* in the future; posts arrive late and out of order.                      *)
(*                                                                         *)
(* Both maps are functions on the assets they hold.  Asset names are never *)
(* empty here, and GetPrices, which no contract calls, is left out.        *)
(***************************************************************************)
EXTENDS Ownership, Integers, Sequences, Functions

CONSTANTS
    Assets,             \* names a price or a mapping may be stored under
    Owners,             \* accounts that own the oracle, or try to
    FirstOwner,
    MAX_PRICE_AGE,      \* 30 days
    MAX_PRICE_LEAD,     \* 5 minutes
    DEFAULT_PRICE_STALENESS_THRESHOLD_SECONDS,
    MAX_ASSET_MAPPING_PRECISION,
    Posts,              \* sequences of price updates a message may carry
    Remaps,             \* sequences of mappings a message may save
    Removals,           \* sets of mappings it may remove first
    LongestThreshold,   \* bound on the staleness thresholds, which the code leaves open
    LastPost,           \* bound on the time of messages
    MaxTime             \* bound on the block time

NOW == -1               \* an update without as_of

PriceUpdateV1 == [asset : Assets, usd : Nat, as_of : Nat \cup {NOW}]
AssetMappingV1 == [asset_id : Assets, precision : Nat, staleness_threshold_seconds : Nat]
SaveAssetMappingRequestV1 == [alt_asset_id : Assets, mapping : AssetMappingV1]

ASSUME OracleAssumption ==
    /\ NO_ONE \notin Owners
    /\ FirstOwner \in Owners
    /\ MAX_PRICE_AGE \in Nat /\ MAX_PRICE_LEAD \in Nat
    /\ DEFAULT_PRICE_STALENESS_THRESHOLD_SECONDS \in Nat
    /\ MAX_ASSET_MAPPING_PRECISION \in Nat
    /\ Posts \subseteq Seq(PriceUpdateV1)
    /\ Remaps \subseteq Seq(SaveAssetMappingRequestV1)
    /\ Removals \subseteq SUBSET Assets
    /\ LongestThreshold \in Nat
    /\ DEFAULT_PRICE_STALENESS_THRESHOLD_SECONDS <= LongestThreshold
    /\ \A r \in Remaps : \A i \in DOMAIN r :
          r[i].mapping.staleness_threshold_seconds <= LongestThreshold
    /\ LastPost \in Nat /\ MaxTime \in Nat

VARIABLES
    now,                \* block time, in seconds
    prices,             \* PRICES_V1
    mappings,           \* ASSET_MAPPINGS_V1
    oracle_ownership    \* cw_ownable

oracle_vars == <<now, prices, mappings, oracle_ownership>>

OracleInit ==
    /\ now = 0
    /\ prices = <<>>
    /\ mappings = <<>>
    /\ oracle_ownership = initialize_owner(FirstOwner)

-----------------------------------------------------------------------------
validate_name_uniqueness(names) ==
    \A i, j \in DOMAIN names : names[i] = names[j] => i = j

\* Slip: no bound on how far ahead of the block a price may be.
valid_update_any_lead(update) ==
    update.usd > 0 /\ (update.as_of # NOW => update.as_of >= now - MAX_PRICE_AGE)

\* PriceUpdateV1::validate.
valid_update(update) ==
    /\ update.usd > 0
    /\ update.as_of # NOW =>
          /\ update.as_of >= now - MAX_PRICE_AGE
          /\ update.as_of <= now + MAX_PRICE_LEAD

\* From<(&Env, &PriceUpdateV1)> for PriceV1.
PriceV1(update) ==
    [ price_usd          |-> update.usd,
      as_of_epoch_second |-> IF update.as_of = NOW THEN now ELSE update.as_of ]

\* The rows a list of requests leaves, each under the name it is stored by.
StoredBy(names, rows) ==
    [a \in Range(names) |-> rows[CHOOSE i \in DOMAIN names : names[i] = a]]

\* save, row by row: a new row replaces the old one of that name.
saved(new, old) ==
    [a \in DOMAIN new \cup DOMAIN old |-> IF a \in DOMAIN new THEN new[a] ELSE old[a]]

\* try_update_asset_prices: one bad update refuses them all.  A price is stored
\* under the name it is posted for, whatever that name is mapped to.
UpdateAssetPrices(sender, updates) ==
    LET assets == [i \in DOMAIN updates |-> updates[i].asset] IN
    /\ now <= LastPost
    /\ assert_owner(oracle_ownership, sender)
    /\ validate_name_uniqueness(assets)
    /\ \A i \in DOMAIN updates : valid_update(updates[i])
    /\ prices' = saved(StoredBy(assets, [i \in DOMAIN updates |-> PriceV1(updates[i])]), prices)
    /\ UNCHANGED <<now, mappings, oracle_ownership>>

\* try_update_asset_mappings: removals first.
UpdateAssetMappings(sender, to_update, to_remove) ==
    LET alt_ids == [i \in DOMAIN to_update |-> to_update[i].alt_asset_id] IN
    /\ now <= LastPost
    /\ assert_owner(oracle_ownership, sender)
    /\ validate_name_uniqueness(alt_ids)
    /\ \A i \in DOMAIN to_update : to_update[i].mapping.precision <= MAX_ASSET_MAPPING_PRECISION
    /\ mappings' = saved(StoredBy(alt_ids, [i \in DOMAIN to_update |-> to_update[i].mapping]),
                         Restrict(mappings, DOMAIN mappings \ to_remove))
    /\ UNCHANGED <<now, prices, oracle_ownership>>

UpdateOwnership(sender, heir) ==
    /\ now <= LastPost
    /\ \/ /\ can_transfer_ownership(oracle_ownership, sender, NEVER, now)
          /\ oracle_ownership' = transfer_ownership(oracle_ownership, heir, NEVER)
       \/ /\ can_accept_ownership(oracle_ownership, sender, now)
          /\ oracle_ownership' = accept_ownership(oracle_ownership)
    /\ UNCHANGED <<now, prices, mappings>>

Tick ==
    /\ now < MaxTime
    /\ now' = now + 1
    /\ UNCHANGED <<prices, mappings, oracle_ownership>>

OracleMessage ==
    \E sender \in Owners :
        \/ \E updates \in Posts : UpdateAssetPrices(sender, updates)
        \/ \E to_update \in Remaps, to_remove \in Removals :
              UpdateAssetMappings(sender, to_update, to_remove)
        \/ \E heir \in Owners : UpdateOwnership(sender, heir)

OracleNext == OracleMessage \/ Tick

\* Blocks keep coming; nobody has to post.
OracleSpec == OracleInit /\ [][OracleNext]_oracle_vars /\ WF_oracle_vars(Tick)

-----------------------------------------------------------------------------
\* get_or_default_asset_mapping_v1.
asset_mapping(a) ==
    IF a \in DOMAIN mappings THEN mappings[a]
    ELSE [ asset_id |-> a, precision |-> 0,
           staleness_threshold_seconds |-> DEFAULT_PRICE_STALENESS_THRESHOLD_SECONDS ]

\* Slip: the price lives from the block on, not from the time it is from.
into_response_from_block(mapping, price) ==
    [ display_price_usd        |-> price.price_usd,
      precision                |-> mapping.precision,
      as_of_epoch_second       |-> price.as_of_epoch_second,
      expiration_epoch_seconds |-> now + mapping.staleness_threshold_seconds ]

\* IntoAssetPriceResponse.
into_response(mapping, price) ==
    [ display_price_usd        |-> price.price_usd,
      precision                |-> mapping.precision,
      as_of_epoch_second       |-> price.as_of_epoch_second,
      expiration_epoch_seconds |->
          price.as_of_epoch_second + mapping.staleness_threshold_seconds ]

\* The asset whose price a lookup of a reads; one step only, mappings do not chain.
display_asset(a) == asset_mapping(a).asset_id

quotable(a) == display_asset(a) \in DOMAIN prices

\* query_prices_by_assets, with skip_missing; without it a missing price fails.
GetPricesByAsset(assets) ==
    [a \in {x \in assets : quotable(x)} |-> into_response(asset_mapping(a), prices[display_asset(a)])]

\* What a pool that asks about denoms sees; 0 where the oracle has no answer.
QuotesOf(denoms) ==
    LET answers == GetPricesByAsset(denoms)
    IN  [d \in denoms |-> IF d \in DOMAIN answers
                          THEN [ usd |-> answers[d].display_price_usd,
                                 expiration |-> answers[d].expiration_epoch_seconds ]
                          ELSE [usd |-> 0, expiration |-> 0]]

is_stale(a) == now >= QuotesOf({a})[a].expiration

-----------------------------------------------------------------------------
\* The oracle keeps the pool's side of the bargain (try_update_asset_prices,
\* try_update_asset_mappings): whatever is posted, mapped and unmapped, late and
\* in any order, no answer changes by itself, and none is given a life beyond
\* the lead a price may have plus the longest threshold in use.
Feed == INSTANCE QuoteFeed WITH
    Watched <- Assets, quotes <- QuotesOf(Assets),
    LongestLife <- MAX_PRICE_LEAD + LongestThreshold

ImplementsQuoteFeed == Feed!FeedSpec

\* A late post may put an older price in the place of a newer one, but it never
\* makes a quote live longer, let alone fresh again: an expiration moves on only
\* with a price of a later time, whichever name it was posted under, or with a
\* changed mapping (expiration is counted from as_of, not from the block).
OnlyNewerPricesLiveLonger ==
    [][ \A a \in Assets :
          (/\ quotable(a)
           /\ QuotesOf(Assets)'[a].expiration > QuotesOf(Assets)[a].expiration) =>
              \/ asset_mapping(a)' # asset_mapping(a)
              \/ prices'[display_asset(a)].as_of_epoch_second
                    > prices[display_asset(a)].as_of_epoch_second ]_oracle_vars

\* The oracle fails safe: once nobody posts any more, every quote goes stale and
\* stays so, however far ahead of its block a price was dated.
SilenceGoesStale == <>[](\A a \in Assets : is_stale(a))
=============================================================================
