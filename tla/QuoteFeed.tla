------------------------------ MODULE QuoteFeed ------------------------------
(***************************************************************************)
(* What the pool takes for granted of the price oracle: while time passes  *)
(* nothing changes, and when something is published at a moment, no quote  *)
(* it changes lives longer than a known time from there.  It promises      *)
(* nothing about order: a quote may be replaced by an older one, by one    *)
(* that has expired, or by none (usd = 0).  These are the steps Tick and   *)
(* PostPrice of Pool; several denoms published at once are as many         *)
(* PostPrice steps at one block time.                                      *)
(***************************************************************************)
EXTENDS Integers

CONSTANTS
    Watched,            \* the denoms the pool asks about
    LongestLife         \* how far from the block time a quote may expire

VARIABLES
    now,
    quotes

Unquoted == [usd |-> 0, expiration |-> 0]

FeedInit ==
    /\ now \in Nat
    /\ quotes = [d \in Watched |-> Unquoted]

TimePasses == now' > now /\ UNCHANGED quotes

Publish ==
    /\ UNCHANGED now
    /\ quotes' \in [Watched -> [usd : Nat, expiration : Nat]]
    /\ \A d \in Watched :
          quotes'[d] # quotes[d] => quotes'[d].expiration <= now + LongestLife

FeedSpec == FeedInit /\ [][TimePasses \/ Publish]_<<now, quotes>>
=============================================================================
