-------------------------------- MODULE Pool --------------------------------
(***************************************************************************)
(* contracts/pool_v2 as a whole: every execute message, in any order and   *)
(* from any account, with time, quotes and plain bank sends in between,    *)
(* and what must hold whatever the order.                                  *)
(*                                                                         *)
(* Inputs hands out the arguments the environment may choose; an empty set *)
(* disables a message.  Amounts, times, prices and settings come from it   *)
(* only; MaxTime, MaxScaled, MaxHeld, MaxVersion and MaxCash bound what    *)
(* would otherwise grow for ever.                                          *)
(***************************************************************************)
EXTENDS LenderOps, LiquidationOps, ReserveOps, GovernanceOps

CONSTANTS
    Inputs,             \* record of the argument sets, see InputsAssumption
    MaxTime             \* bound on the block time

ASSUME InputsAssumption ==
    /\ Inputs.lends \subseteq Amount
    /\ Inputs.redemptions \subseteq Amount      \* owner withdrawals, 0 = all
    /\ Inputs.units \subseteq Amount            \* repo units sent to the pool
    /\ Inputs.requests \subseteq Amount         \* underlying asked for with them
    /\ Inputs.recipients \subseteq Lenders
    /\ Inputs.commits \subseteq BOOLEAN
    /\ Inputs.borrows \subseteq Amount
    /\ Inputs.repayments \subseteq Amount
    /\ Inputs.deposits \subseteq [Collaterals -> Amount]
    /\ Inputs.removals \subseteq [Collaterals -> Amount]
    /\ Inputs.seizures \subseteq [Collaterals -> Amount]
    /\ Inputs.payments \subseteq Amount         \* coins sent with a liquidation
    /\ Inputs.sales \subseteq [Collaterals -> Int]
    /\ Inputs.deadlines \subseteq Nat
    /\ Inputs.reliefs \subseteq Amount          \* deficit to eliminate or socialize
    /\ Inputs.donations \subseteq Amount
    /\ Inputs.curves \subseteq RateParams
    /\ \A u \in Inputs.updates : updated_config(InitialConfig, u) \in Config
    /\ \A l \in Inputs.listings : \A a \in DOMAIN l.to_update : l.to_update[a] \in Atomics
    /\ Inputs.states \subseteq {Active, Frozen, Paused}
    /\ Inputs.attrs \subseteq SUBSET STRING
    /\ Inputs.flags \subseteq BOOLEAN
    /\ Inputs.heirs \subseteq Accounts
    /\ Inputs.steps \subseteq Nat \ {0}
    /\ Inputs.prices \subseteq Denoms \X Atomics    \* 0: the quote is gone
    /\ Inputs.lifetimes \subseteq Int

-----------------------------------------------------------------------------
\* Time passes between transactions.
Tick(seconds) ==
    /\ now + seconds <= MaxTime
    /\ now' = now + seconds
    /\ UNCHANGED <<quotes, config_vars, reserve, token, bank, position_vars, sale_vars>>

\* The oracle's owner posts a price, which may have expired already, or takes
\* away the mapping that led to it (PriceOracle).
PostPrice(d, usd, lifetime) ==
    /\ now + lifetime >= 0
    /\ quotes' = [quotes EXCEPT ![d] = [usd |-> usd, expiration |-> now + lifetime]]
    /\ UNCHANGED <<now, config_vars, reserve, token, bank, position_vars, sale_vars>>

LenderStep ==
    \/ \E l \in Lenders, x \in Inputs.lends : Lend(l, x)
    \/ \E s \in Operators, l \in Lenders, x \in Inputs.redemptions, c \in Inputs.commits :
          Withdraw(s, l, x, c)
    \/ \E l \in Lenders, u \in Inputs.units, c \in Inputs.commits : WithdrawExact(l, u, c)
    \/ \E l \in Lenders, u \in Inputs.units, x \in Inputs.requests, c \in Inputs.commits :
          WithdrawCw20(l, u, x, c)
    \/ \E l \in Lenders, u \in Inputs.units, m \in Inputs.recipients : TransferExact(l, u, m)
    \/ \E l \in Lenders, u \in Inputs.units, m \in Inputs.recipients, x \in Inputs.requests :
          TransferCw20(l, u, m, x)

BorrowerStep ==
    \/ \E b \in Borrowers, x \in Inputs.borrows : Borrow(b, x)
    \/ \E b \in Borrowers, x \in Inputs.repayments : Repay(b, x)
    \/ \E b \in Borrowers, coins \in Inputs.deposits : AddCollateral(b, coins)
    \/ \E b \in Borrowers, coins \in Inputs.removals : RemoveCollateral(b, coins)
    \/ \E b \in Borrowers, delta \in Inputs.sales, t \in Inputs.deadlines,
          v \in 1 .. MaxVersion : AdjustDirectedCollateralSale(b, delta, t, v)

LiquidationStep ==
    \E s \in Operators, b \in Borrowers, z \in Inputs.seizures, x \in Inputs.payments :
        Liquidate(s, b, z, x)

ReserveStep ==
    \/ \E s \in Operators, x \in Inputs.reliefs : EliminateDeficitFromReserve(s, x)
    \/ \E s \in Operators, x \in Inputs.reliefs, y \in Inputs.reliefs :
          EliminateDeficitFromBank(s, x, y)
    \/ \E s \in Operators, x \in Inputs.reliefs : SocializeDeficit(s, x)
    \/ \E s \in Operators : WithdrawReserve(s)
    \/ \E s \in Operators, p \in Inputs.curves : UpdateRateParams(s, p)
    \/ \E x \in Inputs.donations : Donate(x)

GovernanceStep ==
    \/ \E s \in Operators, u \in Inputs.updates : UpdateContractConfig(s, u)
    \/ \E s \in Operators, l \in Inputs.listings :
          UpdateSupportedCollateral(s, l.to_update, l.to_remove)
    \/ \E s \in Operators, x \in Inputs.states : SetOperationalState(s, x)
    \/ \E s \in Operators, x \in Inputs.attrs : SetLenderRequiredAttrs(s, x)
    \/ \E s \in Operators, x \in Inputs.attrs : SetBorrowerRequiredAttrs(s, x)
    \/ \E s \in Operators, a \in Lenders, f \in Inputs.flags :
          SetLenderRequireCommitOnExit(s, a, f)
    \/ \E s \in Operators, a \in Borrowers, f \in Inputs.flags :
          SetBorrowerRequireCommit(s, a, f)
    \/ \E s \in Operators, a \in Inputs.heirs, t \in Inputs.deadlines : TransferOwnership(s, a, t)
    \/ \E s \in Accounts : AcceptOwnership(s)

WorldStep ==
    \/ \E seconds \in Inputs.steps : Tick(seconds)
    \/ \E p \in Inputs.prices, t \in Inputs.lifetimes : PostPrice(p[1], p[2], t)

Next == LenderStep \/ BorrowerStep \/ LiquidationStep \/ ReserveStep
           \/ GovernanceStep \/ WorldStep

Spec == Init /\ [][Next]_vars
=============================================================================
