-------------------------- MODULE PoolStepTheorems --------------------------
(***************************************************************************)
(* What a step of the pool never does: theorems about two successive       *)
(* states, each from the inductive invariant and a lemma per kind of step. *)
(* The second half is about money: what a lender's units are worth, what   *)
(* the pool holds beyond its obligations (Margin), and the fees.           *)
(***************************************************************************)
EXTENDS PoolProofs

-----------------------------------------------------------------------------
\* A loss shared among the lenders: a slice of the deficit, or the residue of
\* a borrower written off where losses are taken at once.
LossShared ==
    \/ socialized
    \/ /\ contract.bad_debt_loss_allocation = ImmediateLiquidityIndexHaircut
       /\ \E b \in Borrowers : written_off(b)

\* What a step can do to the indexes, the curve, the loss settings and the
\* deficit.  Either it works on the accrued reserve at the present time, or
\* it leaves the stored reserve and the curve alone.
loss_settings(c) ==
    <<c.bad_debt_loss_allocation, c.liquidation_access, c.max_liquidation_staleness_seconds>>

Accrues ==
    /\ now' = now
    /\ reserve'.borrow_index = accrued.borrow_index
    /\ reserve'.last_updated_at = accrued.last_updated_at
    /\ contract'.rate_params = contract.rate_params \/ reserve' = accrued
    /\ loss_settings(contract') = loss_settings(contract)
    /\ reserve'.liquidity_index <= accrued.liquidity_index
    /\ reserve'.liquidity_index = accrued.liquidity_index \/ LossShared
    /\ reserve'.accrued_reserve <= accrued.accrued_reserve
    /\ \/ reserve'.deficit_underlying <= reserve.deficit_underlying
       \/ contract.bad_debt_loss_allocation = DeferredToDeficit

Waits ==
    /\ now' >= now
    /\ reserve' = reserve
    /\ contract'.rate_params = contract.rate_params
    /\ \/ loss_settings(contract') = loss_settings(contract)
       \/ /\ allocation_may_change(contract')
          /\ permissionless_config_ok(contract', reserve.deficit_underlying)

\* A handler that leaves time, settings, index and deficit alone accrues.
LEMMA AccruesPlainly ==
    ASSUME Inv, now' = now, contract' = contract,
           reserve'.borrow_index = accrued.borrow_index,
           reserve'.last_updated_at = accrued.last_updated_at,
           reserve'.liquidity_index <= accrued.liquidity_index,
           reserve'.liquidity_index = accrued.liquidity_index \/ LossShared,
           reserve'.accrued_reserve <= accrued.accrued_reserve,
           reserve'.deficit_underlying <= accrued.deficit_underlying
    PROVE  Accrues
BY AccruedFacts DEF Accrues

\* A step that leaves the clock, the settings and the reserve alone.
LEMMA WaitsPlainly ==
    ASSUME Inv, UNCHANGED <<now, contract, reserve>>
    PROVE  Waits
BY DEF Inv, TypeOK, Waits

\* Messages of lenders work on the accrued reserve.
LEMMA LenderStepKind ==
    ASSUME Inv, LenderStep
    PROVE  Accrues \/ Waits
<1>1. /\ accrued \in Reserve /\ accrued.deficit_underlying \in Nat
      /\ accrued.liquidity_index \in Nat /\ accrued.accrued_reserve \in Nat
  BY AccruedFacts
<1>2. ASSUME NEW scaled, NEW x, PayOutLiquidity(accrued, scaled, x),
             UNCHANGED <<world_vars, config_vars>>
      PROVE  Accrues
  BY <1>1, <1>2, AccruesPlainly DEF PayOutLiquidity, Reserve, world_vars, config_vars
<1>3. ASSUME NEW l, NEW u, NEW scaled, NEW c, WithdrawUnits(accrued, l, u, scaled, c)
      PROVE  Accrues
  BY <1>2, <1>3 DEF WithdrawUnits
<1>4. ASSUME NEW l, NEW u, NEW m, NEW scaled, ForwardUnits(l, u, m, scaled)
      PROVE  Waits
  BY <1>4, WaitsPlainly DEF ForwardUnits, world_vars, config_vars
<1>5. CASE \E l \in Lenders, x \in Inputs.lends : Lend(l, x)
  <2>1. PICK l \in Lenders, x \in Inputs.lends : Lend(l, x)
    BY <1>5
  <2> DEFINE scaled == underlying_to_scaled_liquidity(x, accrued.liquidity_index)
  <2>2. /\ reserve' = [accrued EXCEPT !.total_scaled_liquidity = @ + scaled]
        /\ UNCHANGED <<world_vars, config_vars>>
    BY <2>1 DEF Lend
  <2> HIDE DEF scaled
  <2> QED
    BY <1>1, <2>2, AccruesPlainly DEF Reserve, world_vars, config_vars
<1>6. CASE \E s \in Operators, l \in Lenders, x \in Inputs.redemptions, c \in Inputs.commits :
               Withdraw(s, l, x, c)
  BY <1>2, <1>6 DEF Withdraw
<1>7. CASE \E l \in Lenders, u \in Inputs.units, c \in Inputs.commits : WithdrawExact(l, u, c)
  BY <1>3, <1>7 DEF WithdrawExact
<1>8. CASE \E l \in Lenders, u \in Inputs.units, x \in Inputs.requests, c \in Inputs.commits :
               WithdrawCw20(l, u, x, c)
  BY <1>3, <1>8 DEF WithdrawCw20
<1>9. CASE \E l \in Lenders, u \in Inputs.units, m \in Inputs.recipients : TransferExact(l, u, m)
  BY <1>4, <1>9 DEF TransferExact
<1>10. CASE \E l \in Lenders, u \in Inputs.units, m \in Inputs.recipients, x \in Inputs.requests :
                TransferCw20(l, u, m, x)
  BY <1>4, <1>10 DEF TransferCw20
<1> QED
  BY <1>5, <1>6, <1>7, <1>8, <1>9, <1>10 DEF LenderStep

\* Messages of borrowers do too, or leave the reserve alone.
LEMMA BorrowerStepKind ==
    ASSUME Inv, BorrowerStep
    PROVE  Accrues \/ Waits
<1>1. /\ accrued \in Reserve /\ accrued.deficit_underlying \in Nat
      /\ accrued.liquidity_index \in Nat /\ accrued.accrued_reserve \in Nat
  BY AccruedFacts
<1>2. ASSUME NEW total, reserve' = [accrued EXCEPT !.total_scaled_borrow = total],
             UNCHANGED <<world_vars, config_vars>>
      PROVE  Accrues
  BY <1>1, <1>2, AccruesPlainly DEF Reserve, world_vars, config_vars
<1>3. CASE \E b \in Borrowers, x \in Inputs.borrows : Borrow(b, x)
  BY <1>2, <1>3 DEF Borrow
<1>4. CASE \E b \in Borrowers, x \in Inputs.repayments : Repay(b, x)
  BY <1>2, <1>4 DEF Repay
<1>5. CASE \E b \in Borrowers, coins \in Inputs.deposits : AddCollateral(b, coins)
  BY <1>5, WaitsPlainly DEF AddCollateral, world_vars, config_vars
<1>6. CASE \E b \in Borrowers, coins \in Inputs.removals : RemoveCollateral(b, coins)
  BY <1>1, <1>6, AccruesPlainly DEF RemoveCollateral, world_vars, config_vars
<1>7. CASE \E b \in Borrowers, delta \in Inputs.sales, t \in Inputs.deadlines,
               v \in 1 .. MaxVersion : AdjustDirectedCollateralSale(b, delta, t, v)
  BY <1>7, WaitsPlainly DEF AdjustDirectedCollateralSale, world_vars, config_vars
<1> QED
  BY <1>3, <1>4, <1>5, <1>6, <1>7 DEF BorrowerStep

\* A write-off empties the borrower: the residue goes with what it could not
\* be covered by.
LEMMA WriteOffEmpties ==
    ASSUME Inv, NEW s \in Operators, NEW b \in Borrowers,
           NEW seize \in [Collaterals -> Nat], NEW sent \in Nat,
           Liquidate(s, b, seize, sent), figures(b, seize, sent).bad_debt
    PROVE  written_off(b)
<1> DEFINE f == figures(b, seize, sent)
<1>1. /\ f.held = borrower_collateral[b]
      /\ f.scaled = scaled_borrow[b] /\ f.scaled \in Nat
      /\ f.bad_debt
  BY FiguresFacts
<1>2. /\ f.scaled > 0
      /\ scaled_borrow' = [scaled_borrow EXCEPT ![b] = IF f.bad_debt THEN 0 ELSE f.residue]
      /\ borrower_collateral' =
             [borrower_collateral EXCEPT ![b] =
                 [a \in Collaterals |-> saturating_sub(@[a], outgoing(f)[a])]]
  BY DEF Liquidate, can_liquidate, has_position
<1> HIDE DEF f
<1>3. scaled_borrow[b] > 0 /\ scaled_borrow'[b] = 0
  BY <1>1, <1>2 DEF Inv, TypeOK
<1>4. \A a \in Collaterals : borrower_collateral'[b][a] = 0
  BY <1>1, <1>2 DEF Inv, TypeOK, Amount, outgoing, saturating_sub
<1> QED
  BY <1>3, <1>4 DEF written_off, is_empty

\* A liquidation adds to the deficit only where the settings defer losses, and
\* lowers the liquidity index only to share one out.
LEMMA LiquidateKind ==
    ASSUME Inv, NEW s \in Operators, NEW b \in Borrowers,
           NEW seize \in [Collaterals -> Nat], NEW sent \in Nat,
           Liquidate(s, b, seize, sent)
    PROVE  Accrues
<1> DEFINE f == figures(b, seize, sent)
<1>1. /\ f.r = accrued
      /\ f.scaled \in Nat /\ f.removed \in Nat
      /\ f.residue = f.scaled - f.removed
      /\ f.bad_debt \in BOOLEAN
  BY FiguresFacts
<1>2. /\ f.residue >= 0
      /\ books_balance(f)
      /\ reserve' = books_after(f)
      /\ UNCHANGED <<world_vars, config_vars>>
  BY DEF Liquidate, can_liquidate
<1> HIDE DEF f
<1>3. /\ f.residue \in Nat
      /\ (IF f.bad_debt THEN f.scaled ELSE f.removed) <= f.r.total_scaled_borrow
      /\ f.bad_debt /\ contract.bad_debt_loss_allocation = ImmediateLiquidityIndexHaircut
             => ~haircut_fails(f.r, loss(f))
  BY <1>1, <1>2 DEF books_balance
<1>4. contract.bad_debt_loss_allocation \in {DeferredToDeficit, ImmediateLiquidityIndexHaircut}
  BY DEF Inv, TypeOK, Config
<1>5. accrued \in Reserve /\ Sound(accrued) /\ accrued.deficit_underlying = reserve.deficit_underlying
      /\ accrued.deficit_underlying \in Nat
  BY AccruedFacts
<1>6. /\ books_after(f).borrow_index = accrued.borrow_index
      /\ books_after(f).last_updated_at = accrued.last_updated_at
      /\ ~(f.bad_debt /\ contract.bad_debt_loss_allocation = DeferredToDeficit)
           => books_after(f).deficit_underlying = accrued.deficit_underlying
      /\ ~(f.bad_debt /\ contract.bad_debt_loss_allocation = ImmediateLiquidityIndexHaircut)
           => books_after(f).liquidity_index = accrued.liquidity_index
      /\ books_after(f).liquidity_index <= accrued.liquidity_index
      /\ books_after(f).accrued_reserve = accrued.accrued_reserve
      /\ accrued.accrued_reserve \in Nat
  BY <1>1, <1>3, <1>4, <1>5, AccruedFacts, BooksAfterFacts
<1>7. f.bad_debt => written_off(b)
  BY WriteOffEmpties DEF f
<1> QED
  BY <1>2, <1>5, <1>6, <1>7 DEF Accrues, LossShared, world_vars, config_vars

\* No loss, no haircut.
LEMMA UnsharedLoss ==
    ASSUME NEW r PROVE apply_pro_rata_liquidity_index_haircut(r, 0) = r
BY DEF apply_pro_rata_liquidity_index_haircut

\* Messages about the reserve do too, or leave it alone.
LEMMA ReserveStepKind ==
    ASSUME Inv, ReserveStep
    PROVE  Accrues \/ Waits
<1>1. /\ accrued \in Reserve
      /\ accrued.deficit_underlying \in Nat /\ accrued.accrued_reserve \in Nat
      /\ accrued.liquidity_index \in Nat
      /\ Sound(accrued)
      /\ accrued.deficit_underlying = reserve.deficit_underlying
  BY AccruedFacts
<1>2. Inputs.reliefs \subseteq Nat
  BY InputsAssumption DEF Amount
<1>3. ASSUME NEW fees \in Nat, fees <= accrued.accrued_reserve, NEW cleared \in Nat,
             \/ reserve' = [accrued EXCEPT !.deficit_underlying = @ - cleared,
                                           !.accrued_reserve = fees]
             \/ reserve' = [accrued EXCEPT !.deficit_underlying = @ - cleared]
             \/ reserve' = [accrued EXCEPT !.accrued_reserve = fees],
             UNCHANGED <<world_vars, config_vars>>
      PROVE  Accrues
  <2>1. now' = now /\ contract' = contract
    BY <1>3 DEF world_vars, config_vars
  <2>2. CASE reserve' = [accrued EXCEPT !.deficit_underlying = @ - cleared,
                                        !.accrued_reserve = fees]
    BY <1>1, <1>3, <2>1, <2>2, AccruesPlainly DEF Reserve
  <2>3. CASE reserve' = [accrued EXCEPT !.deficit_underlying = @ - cleared]
    BY <1>1, <2>1, <2>3, AccruesPlainly DEF Reserve
  <2>4. CASE reserve' = [accrued EXCEPT !.accrued_reserve = fees]
    BY <1>1, <1>3, <2>1, <2>4, AccruesPlainly DEF Reserve
  <2> QED
    BY <1>3, <2>2, <2>3, <2>4
<1>4. CASE \E s \in Operators, x \in Inputs.reliefs : EliminateDeficitFromReserve(s, x)
  <2>1. PICK s \in Operators, x \in Inputs.reliefs : EliminateDeficitFromReserve(s, x)
    BY <1>4
  <2> DEFINE clear == lesser(lesser(accrued.deficit_underlying, x), accrued.accrued_reserve)
             fees  == accrued.accrued_reserve - clear
  <2>2. clear \in Nat /\ fees \in Nat /\ fees <= accrued.accrued_reserve
    BY <1>1, <1>2, <2>1 DEF lesser
  <2>3. /\ reserve' = [accrued EXCEPT !.deficit_underlying = @ - clear, !.accrued_reserve = fees]
        /\ UNCHANGED <<world_vars, config_vars>>
    BY <2>1 DEF EliminateDeficitFromReserve
  <2> HIDE DEF clear, fees
  <2> QED
    BY <1>3, <2>2, <2>3
<1>5. CASE \E s \in Operators, x \in Inputs.reliefs, y \in Inputs.reliefs :
               EliminateDeficitFromBank(s, x, y)
  <2>1. PICK s \in Operators, x \in Inputs.reliefs, y \in Inputs.reliefs :
                 EliminateDeficitFromBank(s, x, y)
    BY <1>5
  <2> DEFINE applied == lesser(lesser(accrued.deficit_underlying, x), y)
  <2>2. applied \in Nat
    BY <1>1, <1>2, <2>1 DEF lesser
  <2>3. /\ reserve' = [accrued EXCEPT !.deficit_underlying = @ - applied]
        /\ UNCHANGED <<world_vars, config_vars>>
    BY <2>1 DEF EliminateDeficitFromBank
  <2> HIDE DEF applied
  <2>4. accrued.accrued_reserve <= accrued.accrued_reserve
    BY <1>1
  <2> QED
    BY <1>1, <1>3, <2>2, <2>3, <2>4
<1>6. CASE \E s \in Operators, x \in Inputs.reliefs : SocializeDeficit(s, x)
  <2>1. PICK s \in Operators, x \in Inputs.reliefs : SocializeDeficit(s, x)
    BY <1>6
  <2> DEFINE amount == lesser(x, accrued.deficit_underlying)
             h == apply_pro_rata_liquidity_index_haircut(accrued, amount)
  <2>2. amount \in Nat
    BY <1>1, <1>2, <2>1 DEF lesser
  <2>3. /\ ~haircut_fails(accrued, amount)
        /\ reserve' = [h EXCEPT !.deficit_underlying = @ - amount]
        /\ UNCHANGED <<world_vars, config_vars>> /\ bank' = bank
    BY <2>1 DEF SocializeDeficit
  <2> HIDE DEF amount
  <2>4. /\ h \in Reserve /\ h = [accrued EXCEPT !.liquidity_index = h.liquidity_index]
        /\ h.liquidity_index <= accrued.liquidity_index
    BY <1>1, <2>2, <2>3, HaircutKeepsReserve, HaircutLowersTheIndex
  <2> HIDE DEF h
  <2>5. /\ h.borrow_index = accrued.borrow_index
        /\ h.last_updated_at = accrued.last_updated_at
        /\ h.deficit_underlying = accrued.deficit_underlying
        /\ h.accrued_reserve = accrued.accrued_reserve
    BY <1>1, <2>4 DEF Reserve
  <2>6. /\ reserve'.borrow_index = h.borrow_index
        /\ reserve'.last_updated_at = h.last_updated_at
        /\ reserve'.liquidity_index = h.liquidity_index
        /\ reserve'.deficit_underlying = h.deficit_underlying - amount
        /\ reserve'.accrued_reserve = h.accrued_reserve
    BY <2>3, <2>4 DEF Reserve
  <2>7. reserve'.liquidity_index = accrued.liquidity_index \/ LossShared
    <3>1. CASE amount = 0
      BY <2>6, <3>1, <1>1, UnsharedLoss DEF h
    <3>2. CASE amount > 0
      BY <1>1, <2>2, <2>3, <2>5, <2>6, <3>2 DEF LossShared, socialized
    <3> QED
      BY <2>2, <3>1, <3>2
  <2> QED
    BY <1>1, <2>2, <2>3, <2>4, <2>5, <2>6, <2>7, AccruesPlainly DEF world_vars, config_vars
<1>7. CASE \E s \in Operators : WithdrawReserve(s)
  <2>1. PICK s \in Operators : WithdrawReserve(s)
    BY <1>7
  <2> DEFINE free   == saturating_sub(bank[LENDING] + borrow_u128(accrued), liquidity_u128(accrued))
             backed == lesser(accrued.accrued_reserve, free)
             pay    == lesser(backed, bank[LENDING])
             fees   == backed - pay
  <2>2. /\ reserve' = [accrued EXCEPT !.accrued_reserve = fees]
        /\ UNCHANGED <<world_vars, config_vars>>
    BY <2>1 DEF WithdrawReserve
  <2>3. free \in Nat /\ bank[LENDING] \in Nat
    <3>1. bank[LENDING] \in Nat
      BY DEF Inv, TypeOK, Denoms, Amount
    <3>2. liquidity_u128(accrued) \in Nat /\ borrow_u128(accrued) \in Nat
      BY AccruedFacts, ConversionTypes DEF liquidity_u128, borrow_u128
    <3> QED
      BY <3>1, <3>2 DEF saturating_sub
  <2> HIDE DEF free
  <2>4. fees \in Nat /\ fees <= accrued.accrued_reserve
    BY <1>1, <2>3 DEF lesser
  <2> HIDE DEF fees
  <2> QED
    BY <1>3, <2>2, <2>4
<1>8. CASE \E s \in Operators, p \in Inputs.curves : UpdateRateParams(s, p)
  <2>1. PICK p \in Inputs.curves : /\ reserve' = accrued
                                   /\ contract' = [contract EXCEPT !.rate_params = p]
                                   /\ UNCHANGED world_vars
    BY <1>8 DEF UpdateRateParams
  <2>2. loss_settings(contract') = loss_settings(contract)
    BY <2>1 DEF loss_settings, Inv, TypeOK, Config
  <2> QED
    BY <1>1, <2>1, <2>2 DEF Accrues, world_vars
<1>9. CASE \E x \in Inputs.donations : Donate(x)
  BY <1>9, WaitsPlainly DEF Donate, world_vars, config_vars
<1> QED
  BY <1>4, <1>5, <1>6, <1>7, <1>8, <1>9 DEF ReserveStep

\* Messages of the owner that keep the curve leave the reserve alone.
LEMMA GovernanceStepKind ==
    ASSUME Inv, GovernanceStep
    PROVE  Waits
<1>1. contract \in Config /\ now \in Nat
  BY DEF Inv, TypeOK
<1>2. ASSUME NEW c, ChangeContract(c), c.rate_params = contract.rate_params,
             \/ loss_settings(c) = loss_settings(contract)
             \/ /\ allocation_may_change(c)
                /\ permissionless_config_ok(c, reserve.deficit_underlying)
      PROVE  Waits
  BY <1>1, <1>2 DEF Waits, ChangeContract, BooksUnchanged, world_vars
<1>3. CASE \E s \in Operators, u \in Inputs.updates : UpdateContractConfig(s, u)
  <2>1. PICK u \in Inputs.updates :
                 LET c == updated_config(contract, u)
                 IN  /\ allocation_may_change(c)
                     /\ valid_config(c, reserve.deficit_underlying)
                     /\ ChangeContract(c)
    BY <1>3 DEF UpdateContractConfig
  <2>2. updated_config(contract, u).rate_params = contract.rate_params
    BY <1>1, UpdatedConfigType
  <2> QED
    BY <1>2, <2>1, <2>2 DEF valid_config
<1>4. CASE \E s \in Operators, l \in Inputs.listings :
               UpdateSupportedCollateral(s, l.to_update, l.to_remove)
  <2>1. PICK supported : ChangeContract([contract EXCEPT !.supported = supported])
    BY <1>4 DEF UpdateSupportedCollateral
  <2> QED
    BY <1>1, <1>2, <2>1 DEF loss_settings, Config
<1>5. CASE \E s \in Operators, x \in Inputs.states : SetOperationalState(s, x)
  BY <1>1, <1>2, <1>5 DEF SetOperationalState, loss_settings, Config
<1>6. CASE \E s \in Operators, x \in Inputs.attrs : SetLenderRequiredAttrs(s, x)
  BY <1>1, <1>2, <1>6 DEF SetLenderRequiredAttrs, loss_settings, Config
<1>7. CASE \E s \in Operators, x \in Inputs.attrs : SetBorrowerRequiredAttrs(s, x)
  BY <1>1, <1>2, <1>7 DEF SetBorrowerRequiredAttrs, loss_settings, Config
<1>8. CASE \E s \in Operators, a \in Lenders, f \in Inputs.flags :
               SetLenderRequireCommitOnExit(s, a, f)
  BY <1>8, WaitsPlainly DEF SetLenderRequireCommitOnExit, BooksUnchanged, world_vars
<1>9. CASE \E s \in Operators, a \in Borrowers, f \in Inputs.flags :
               SetBorrowerRequireCommit(s, a, f)
  BY <1>9, WaitsPlainly DEF SetBorrowerRequireCommit, BooksUnchanged, world_vars
<1>10. CASE \E s \in Operators, a \in Inputs.heirs, t \in Inputs.deadlines :
                TransferOwnership(s, a, t)
  BY <1>10, WaitsPlainly DEF TransferOwnership, ChangeOwnership, BooksUnchanged, world_vars
<1>11. CASE \E s \in Accounts : AcceptOwnership(s)
  BY <1>11, WaitsPlainly DEF AcceptOwnership, ChangeOwnership, BooksUnchanged, world_vars
<1> QED
  BY <1>3, <1>4, <1>5, <1>6, <1>7, <1>8, <1>9, <1>10, <1>11 DEF GovernanceStep

\* Every step is of one of these kinds.
LEMMA StepKind ==
    ASSUME Inv, [Next]_vars
    PROVE  Accrues \/ Waits
<1>1. CASE LiquidationStep
  <2>1. Inputs.seizures \subseteq [Collaterals -> Nat] /\ Inputs.payments \subseteq Nat
    BY InputsAssumption DEF Amount
  <2> QED
    BY <1>1, <2>1, LiquidateKind DEF LiquidationStep
<1>2. CASE WorldStep
  <2>1. CASE \E seconds \in Inputs.steps : Tick(seconds)
    BY <2>1, InputsAssumption DEF Tick, Waits, config_vars, Inv, TypeOK
  <2>2. CASE \E p \in Inputs.prices, t \in Inputs.lifetimes : PostPrice(p[1], p[2], t)
    BY <2>2, WaitsPlainly DEF PostPrice, config_vars
  <2> QED
    BY <1>2, <2>1, <2>2 DEF WorldStep
<1>3. CASE UNCHANGED vars
  BY <1>3, WaitsPlainly DEF vars
<1> QED
  BY <1>1, <1>2, <1>3, LenderStepKind, BorrowerStepKind, ReserveStepKind, GovernanceStepKind
  DEF Next

-----------------------------------------------------------------------------
\* The borrow index, accrued to the block time, never falls below 1 nor moves
\* backwards: not by a message, not by a new curve, not by waiting.
LEMMA BorrowIndexStep ==
    ASSUME Inv, [Next]_vars
    PROVE  accrued.borrow_index >= ONE /\ accrued'.borrow_index >= accrued.borrow_index
<1>1. /\ Inv'
      /\ accrued.borrow_index \in Nat /\ accrued.borrow_index >= ONE
      /\ accrued.last_updated_at >= now
  BY NextInv, AccruedFacts
<1>2. accrued' = compute_effective_reserve(reserve', now', contract'.rate_params)
  BY DEF accrued
<1>3. reserve' \in Reserve /\ now' \in Nat
  BY <1>1 DEF Inv, TypeOK
<1>4. CASE Accrues
  <2>1. reserve'.last_updated_at >= now' /\ reserve'.borrow_index = accrued.borrow_index
    BY <1>1, <1>4 DEF Accrues
  <2>2. accrued' = reserve'
    BY <1>2, <1>3, <2>1, AccrualIsIdempotent
  <2> QED
    BY <1>1, <2>1, <2>2
<1>5. CASE Waits
  <2>1. /\ now' >= now /\ reserve' = reserve /\ contract'.rate_params = contract.rate_params
        /\ reserve \in Reserve /\ Sound(reserve) /\ now \in Nat
        /\ contract.rate_params \in RateParams /\ valid_rate_params(contract.rate_params)
    BY <1>5 DEF Waits, Inv, TypeOK, Config
  <2>2. accrued' = compute_effective_reserve(reserve, now', contract.rate_params)
    BY <1>2, <2>1
  <2>3. compute_effective_reserve(reserve, now, contract.rate_params).borrow_index
          <= compute_effective_reserve(reserve, now', contract.rate_params).borrow_index
    BY <1>3, <2>1, AccrualIsMonotone
  <2> QED
    BY <1>1, <1>3, <2>2, <2>3 DEF accrued
<1> QED
  BY <1>4, <1>5, StepKind

\* The same, as a property of every behaviour.
THEOREM BorrowIndexIsMonotone == Spec => BorrowIndexNeverFalls
<1>1. Inv /\ [Next]_vars
        => [ accrued.borrow_index >= ONE /\ accrued'.borrow_index >= accrued.borrow_index ]_vars
  BY BorrowIndexStep
<1> QED
  BY <1>1, InvIsInvariant, PTL DEF Spec, BorrowIndexNeverFalls

-----------------------------------------------------------------------------
\* The lenders' index, accrued to the block time, falls only in a step that
\* shares out a loss: no withdrawal, donation, fee or new setting lowers it.
LEMMA LenderValueStep ==
    ASSUME Inv, [Next]_vars, accrued'.liquidity_index < accrued.liquidity_index
    PROVE  LossShared
<1>1. /\ Inv'
      /\ accrued.liquidity_index \in Nat
      /\ accrued.last_updated_at >= now
  BY NextInv, AccruedFacts
<1>2. accrued' = compute_effective_reserve(reserve', now', contract'.rate_params)
  BY DEF accrued
<1>3. reserve' \in Reserve /\ now' \in Nat
  BY <1>1 DEF Inv, TypeOK
<1>4. CASE Accrues
  <2>1. reserve'.last_updated_at >= now'
    BY <1>1, <1>4 DEF Accrues
  <2>2. accrued' = reserve'
    BY <1>2, <1>3, <2>1, AccrualIsIdempotent
  <2>3. reserve'.liquidity_index = accrued.liquidity_index \/ LossShared
    BY <1>4 DEF Accrues
  <2> QED
    BY <1>1, <2>2, <2>3
<1>5. CASE Waits
  <2>1. /\ now' >= now /\ reserve' = reserve /\ contract'.rate_params = contract.rate_params
        /\ reserve \in Reserve /\ Sound(reserve) /\ now \in Nat
        /\ contract.rate_params \in RateParams /\ valid_rate_params(contract.rate_params)
    BY <1>5 DEF Waits, Inv, TypeOK, Config
  <2>2. accrued' = compute_effective_reserve(reserve, now', contract.rate_params)
    BY <1>2, <2>1
  <2>3. compute_effective_reserve(reserve, now, contract.rate_params).liquidity_index
          <= compute_effective_reserve(reserve, now', contract.rate_params).liquidity_index
    BY <1>3, <2>1, AccrualIsMonotone
  <2>4. accrued'.liquidity_index \in Nat
    BY <1>1, AccruedFacts, <1>3, <1>2, <2>1, AccrualKeepsReserve DEF Reserve, Atomics
  <2> QED
    BY <1>1, <2>2, <2>3, <2>4 DEF accrued
<1> QED
  BY <1>4, <1>5, StepKind

\* The same, as a property of every behaviour.
THEOREM LenderValueIsKept == Spec => LenderValueFallsOnlyByLoss
<1>1. Inv /\ [Next]_vars
        => [ accrued'.liquidity_index < accrued.liquidity_index =>
               \/ socialized
               \/ /\ contract.bad_debt_loss_allocation = ImmediateLiquidityIndexHaircut
                  /\ \E b \in Borrowers : written_off(b) ]_vars
  BY LenderValueStep DEF LossShared
<1> QED
  BY <1>1, InvIsInvariant, PTL DEF Spec, LenderValueFallsOnlyByLoss

-----------------------------------------------------------------------------
\* No second is charged twice: what a step stores is accrued to the time it is
\* stored with, so that accruing again at that time adds nothing.
LEMMA InterestStep ==
    ASSUME Inv, [Next]_vars, now' = now
    PROVE  /\ accrued'.borrow_index = accrued.borrow_index
           /\ accrued'.liquidity_index <= accrued.liquidity_index
           /\ accrued'.accrued_reserve <= accrued.accrued_reserve
<1>1. /\ Inv'
      /\ accrued.liquidity_index \in Nat /\ accrued.accrued_reserve \in Nat
      /\ accrued.last_updated_at >= now
  BY NextInv, AccruedFacts
<1>2. accrued' = compute_effective_reserve(reserve', now', contract'.rate_params)
  BY DEF accrued
<1>3. reserve' \in Reserve /\ now' \in Nat
  BY <1>1 DEF Inv, TypeOK
<1>4. CASE Accrues
  <2>1. /\ reserve'.last_updated_at >= now'
        /\ reserve'.borrow_index = accrued.borrow_index
        /\ reserve'.liquidity_index <= accrued.liquidity_index
        /\ reserve'.accrued_reserve <= accrued.accrued_reserve
    BY <1>1, <1>4 DEF Accrues
  <2>2. accrued' = reserve'
    BY <1>2, <1>3, <2>1, AccrualIsIdempotent
  <2> QED
    BY <2>1, <2>2
<1>5. CASE Waits
  <2>1. reserve' = reserve /\ contract'.rate_params = contract.rate_params
    BY <1>5 DEF Waits
  <2>2. accrued' = accrued
    BY <1>2, <2>1 DEF accrued
  <2> QED
    BY <1>1, <2>2
<1> QED
  BY <1>4, <1>5, StepKind

\* The same, as a property of every behaviour: interest is charged once,
\* however many messages a block carries and whichever curves they store.
THEOREM InterestIsChargedOnce == Spec => InterestNeedsTime
<1>1. Inv /\ [Next]_vars
        => [ now' = now => /\ accrued'.borrow_index = accrued.borrow_index
                          /\ accrued'.liquidity_index <= accrued.liquidity_index
                          /\ accrued'.accrued_reserve <= accrued.accrued_reserve ]_vars
  BY InterestStep
<1> QED
  BY <1>1, InvIsInvariant, PTL DEF Spec, InterestNeedsTime

-----------------------------------------------------------------------------
\* A new curve leaves the accrued reserve as it was: the time before the
\* change is charged at the old one.
LEMMA RateChangeStep ==
    ASSUME Inv, [Next]_vars, contract'.rate_params # contract.rate_params
    PROVE  accrued' = accrued
<1>1. now' = now /\ reserve' = accrued
  BY StepKind DEF Accrues, Waits
<1>2. accrued \in Reserve /\ accrued.last_updated_at >= now /\ now \in Nat
  BY AccruedFacts DEF Inv, TypeOK
<1>3. accrued' = compute_effective_reserve(accrued, now, contract'.rate_params)
  <2>1. accrued' = compute_effective_reserve(reserve', now', contract'.rate_params)
    BY DEF accrued
  <2> QED
    BY <1>1, <2>1
<1> QED
  BY <1>2, <1>3, AccrualIsIdempotent

\* The same, as a property of every behaviour.
THEOREM RateChangesLookForward == Spec => RateChangeIsNotRetroactive
<1>1. Inv /\ [Next]_vars
        => [contract'.rate_params # contract.rate_params => accrued' = accrued]_vars
  BY RateChangeStep
<1> QED
  BY <1>1, InvIsInvariant, PTL DEF Spec, RateChangeIsNotRetroactive

-----------------------------------------------------------------------------
\* The loss settings stay compatible with the deficit: only a configuration
\* update can break the agreement, and it is checked against the deficit then
\* stored; only a liquidation adds to the deficit, and only where losses are
\* deferred, which permissionless access rules out.
LEMMA LossModeInit == Init => LossModeIsCoherent
BY InitialConfigAssumption DEF Init, LossModeIsCoherent, valid_config

\* The way losses are shared stays coherent over a step.
LEMMA LossModeStep ==
    ASSUME Inv, LossModeIsCoherent, [Next]_vars
    PROVE  LossModeIsCoherent'
<1>1. /\ reserve.deficit_underlying \in Nat
      /\ reserve'.deficit_underlying \in Nat
  BY NextInv DEF Inv, TypeOK, Reserve, Amount
<1>2. /\ contract'.bad_debt_loss_allocation \in {DeferredToDeficit, ImmediateLiquidityIndexHaircut}
      /\ DeferredToDeficit # ImmediateLiquidityIndexHaircut
  BY NextInv DEF Inv, TypeOK, Config, DeferredToDeficit, ImmediateLiquidityIndexHaircut
<1>3. CASE Accrues
  BY <1>1, <1>2, <1>3
  DEF Accrues, loss_settings, LossModeIsCoherent, permissionless_config_ok
<1>4. CASE Waits
  BY <1>1, <1>2, <1>4
  DEF Waits, loss_settings, LossModeIsCoherent, permissionless_config_ok, allocation_may_change
<1> QED
  BY <1>3, <1>4, StepKind

\* No deficit under immediate allocation, no deferral under permissionless
\* access, in every reachable state.
THEOREM LossModeStaysCoherent == Spec => []LossModeIsCoherent
<1>1. Init => LossModeIsCoherent
  BY LossModeInit
<1>2. Inv /\ LossModeIsCoherent /\ [Next]_vars => LossModeIsCoherent'
  BY LossModeStep
<1> QED
  BY <1>1, <1>2, InvIsInvariant, PTL DEF Spec

-----------------------------------------------------------------------------
\* The owner changes only when the account the owner named accepts in time.
LEMMA OwnerStep ==
    ASSUME [Next]_vars, ownership'.owner # ownership.owner
    PROVE  /\ ownership'.owner = ownership.pending_owner
           /\ ~expired(ownership.pending_expiry, now)
<1>1. CASE ownership' = ownership
  BY <1>1
<1>2. ASSUME LenderStep PROVE ownership' = ownership
  BY <1>2 DEF LenderStep, Lend, Withdraw, WithdrawExact, WithdrawCw20, WithdrawUnits,
              TransferExact, TransferCw20, ForwardUnits, config_vars
<1>3. ASSUME BorrowerStep PROVE ownership' = ownership
  BY <1>3 DEF BorrowerStep, Borrow, Repay, AddCollateral, RemoveCollateral,
              AdjustDirectedCollateralSale, config_vars
<1>4. ASSUME LiquidationStep PROVE ownership' = ownership
  BY <1>4 DEF LiquidationStep, Liquidate, can_liquidate, config_vars
<1>5. ASSUME ReserveStep PROVE ownership' = ownership
  BY <1>5 DEF ReserveStep, EliminateDeficitFromReserve, EliminateDeficitFromBank,
              SocializeDeficit, WithdrawReserve, UpdateRateParams, Donate, config_vars
<1>6. ASSUME WorldStep PROVE ownership' = ownership
  BY <1>6 DEF WorldStep, Tick, PostPrice, config_vars
<1>7. CASE GovernanceStep
  <2>1. CASE \E s \in Accounts : AcceptOwnership(s)
    BY <2>1 DEF AcceptOwnership, ChangeOwnership, accept_ownership, can_accept_ownership,
                initialize_owner
  <2>2. CASE \E s \in Operators, a \in Inputs.heirs, t \in Inputs.deadlines :
                 TransferOwnership(s, a, t)
    <3>1. PICK a \in Inputs.heirs, t \in Inputs.deadlines :
                   ownership' = transfer_ownership(ownership, a, t)
      BY <2>2 DEF TransferOwnership, ChangeOwnership
    <3>2. ownership'.owner = ownership.owner
      BY <3>1 DEF transfer_ownership
    <3> QED
      BY <3>2
  <2>3. CASE ownership' = ownership
    BY <2>3
  <2> QED
    BY <1>7, <2>1, <2>2, <2>3
    DEF GovernanceStep, UpdateContractConfig, UpdateSupportedCollateral, SetOperationalState,
        SetLenderRequiredAttrs, SetBorrowerRequiredAttrs, SetLenderRequireCommitOnExit,
        SetBorrowerRequireCommit, ChangeContract
<1> QED
  BY <1>1, <1>2, <1>3, <1>4, <1>5, <1>6, <1>7 DEF Next, vars

\* The same, as a property of every behaviour.
THEOREM OwnershipIsHandedOver == Spec => OwnerIsReplacedByTheNamedHeir
<1>1. [Next]_vars
        => [ownership'.owner # ownership.owner =>
              /\ ownership'.owner = ownership.pending_owner
              /\ ~expired(ownership.pending_expiry, now)]_vars
  BY OwnerStep
<1> QED
  BY <1>1, PTL DEF Spec, OwnerIsReplacedByTheNamedHeir

-----------------------------------------------------------------------------
\* The operational state.  Every step that adds to the scaled supply or debt
\* is open to an active contract only.
ScaledDoNotGrow ==
    /\ reserve'.total_scaled_liquidity <= reserve.total_scaled_liquidity
    /\ reserve'.total_scaled_borrow <= reserve.total_scaled_borrow

\* What a paused contract may still see.
Held ==
    /\ UNCHANGED <<token, position_vars, sale_vars>>
    /\ \A d \in Denoms : bank'[d] >= bank[d]

\* A message of a lender needs a pool that is not paused, and one that adds
\* units an open one.
LEMMA LenderStepHolds ==
    ASSUME Inv, LenderStep
    PROVE  /\ NotPaused
           /\ Open \/ ScaledDoNotGrow
<1>1. /\ accrued \in Reserve
      /\ accrued.total_scaled_liquidity = reserve.total_scaled_liquidity
      /\ accrued.total_scaled_borrow = reserve.total_scaled_borrow
      /\ accrued.total_scaled_liquidity \in Nat /\ accrued.total_scaled_borrow \in Nat
      /\ accrued.liquidity_index \in Nat /\ accrued.liquidity_index > 0
  BY AccruedFacts DEF Inv, SupplyAgrees
<1>2. /\ Inputs.redemptions \subseteq Nat /\ Inputs.units \subseteq Nat
      /\ Inputs.requests \subseteq Nat
  BY InputsAssumption DEF Amount
<1>3. ASSUME NEW scaled \in Nat, NEW x, PayOutLiquidity(accrued, scaled, x)
      PROVE  ScaledDoNotGrow
  BY <1>1, <1>3 DEF PayOutLiquidity, ScaledDoNotGrow, Reserve
<1>4. ASSUME NEW l, NEW u, NEW scaled \in Nat, NEW c, WithdrawUnits(accrued, l, u, scaled, c)
      PROVE  NotPaused /\ ScaledDoNotGrow
  BY <1>3, <1>4 DEF WithdrawUnits
<1>5. ASSUME NEW l, NEW u, NEW m, NEW scaled, ForwardUnits(l, u, m, scaled)
      PROVE  NotPaused /\ ScaledDoNotGrow
  BY <1>1, <1>5 DEF ForwardUnits, ScaledDoNotGrow
<1>6. CASE \E l \in Lenders, x \in Inputs.lends : Lend(l, x)
  BY <1>6 DEF Lend, Open, NotPaused, Active, Paused
<1>7. CASE \E s \in Operators, l \in Lenders, x \in Inputs.redemptions, c \in Inputs.commits :
               Withdraw(s, l, x, c)
  <2>1. PICK s \in Operators, l \in Lenders, x \in Inputs.redemptions, c \in Inputs.commits :
                 Withdraw(s, l, x, c)
    BY <1>7
  <2> DEFINE scaled == IF x = 0 THEN token.balances[l]
                       ELSE underlying_to_scaled_liquidity(x, accrued.liquidity_index)
  <2>2. token.balances[l] \in Nat
    BY DEF Inv, TypeOK, Accounts, Amount
  <2>3. scaled \in Nat
    BY <1>1, <1>2, <2>2, ConversionTypes
  <2>4. PayOutLiquidity(accrued, scaled,
            scaled_to_underlying_liquidity(scaled, accrued.liquidity_index))
    BY <2>1 DEF Withdraw
  <2> HIDE DEF scaled
  <2> QED
    BY <1>3, <2>1, <2>3, <2>4 DEF Withdraw
<1>8. CASE \E l \in Lenders, u \in Inputs.units, c \in Inputs.commits : WithdrawExact(l, u, c)
  BY <1>2, <1>4, <1>8 DEF WithdrawExact
<1>9. CASE \E l \in Lenders, u \in Inputs.units, x \in Inputs.requests, c \in Inputs.commits :
               WithdrawCw20(l, u, x, c)
  <2>1. PICK l \in Lenders, u \in Inputs.units, x \in Inputs.requests, c \in Inputs.commits :
                 WithdrawUnits(accrued, l, u,
                     underlying_to_scaled_liquidity(x, accrued.liquidity_index), c)
    BY <1>9 DEF WithdrawCw20
  <2>2. underlying_to_scaled_liquidity(x, accrued.liquidity_index) \in Nat
    BY <1>1, <1>2, ConversionTypes
  <2> QED
    BY <1>4, <2>1, <2>2
<1>10. CASE \E l \in Lenders, u \in Inputs.units, m \in Inputs.recipients : TransferExact(l, u, m)
  BY <1>5, <1>10 DEF TransferExact
<1>11. CASE \E l \in Lenders, u \in Inputs.units, m \in Inputs.recipients, x \in Inputs.requests :
                TransferCw20(l, u, m, x)
  BY <1>5, <1>11 DEF TransferCw20
<1> QED
  BY <1>6, <1>7, <1>8, <1>9, <1>10, <1>11 DEF LenderStep

\* Likewise for a borrower and the debt.
LEMMA BorrowerStepHolds ==
    ASSUME Inv, BorrowerStep
    PROVE  /\ NotPaused
           /\ Open \/ ScaledDoNotGrow
<1>1. /\ accrued \in Reserve
      /\ accrued.total_scaled_liquidity = reserve.total_scaled_liquidity
      /\ accrued.total_scaled_borrow = reserve.total_scaled_borrow
      /\ accrued.total_scaled_liquidity \in Nat /\ accrued.total_scaled_borrow \in Nat
  BY AccruedFacts DEF Inv, SupplyAgrees
<1>2. CASE \E b \in Borrowers, x \in Inputs.borrows : Borrow(b, x)
  BY <1>2 DEF Borrow, Open, NotPaused, Active, Paused
<1>3. CASE \E b \in Borrowers, x \in Inputs.repayments : Repay(b, x)
  <2>1. PICK b \in Borrowers, x \in Inputs.repayments : Repay(b, x)
    BY <1>3
  <2> DEFINE payoff == scaled_to_underlying_borrow_ceil(scaled_borrow[b], accrued.borrow_index)
             scaled == scaled_repaid(scaled_borrow[b], lesser(x, payoff), payoff,
                                     accrued.borrow_index)
  <2>2. scaled \in Nat
    BY <2>1, StoredTypes, PayoffTypes, InputsAssumption DEF Amount
  <2>3. NotPaused /\ reserve' = [accrued EXCEPT !.total_scaled_borrow = @ - scaled]
    BY <2>1 DEF Repay, can_repay
  <2> HIDE DEF scaled
  <2> QED
    BY <1>1, <2>2, <2>3 DEF ScaledDoNotGrow, Reserve
<1>4. CASE \E b \in Borrowers, coins \in Inputs.deposits : AddCollateral(b, coins)
  BY <1>1, <1>4 DEF AddCollateral, ScaledDoNotGrow
<1>5. CASE \E b \in Borrowers, coins \in Inputs.removals : RemoveCollateral(b, coins)
  BY <1>1, <1>5 DEF RemoveCollateral, can_remove_collateral, ScaledDoNotGrow
<1>6. CASE \E b \in Borrowers, delta \in Inputs.sales, t \in Inputs.deadlines,
               v \in 1 .. MaxVersion : AdjustDirectedCollateralSale(b, delta, t, v)
  BY <1>1, <1>6 DEF AdjustDirectedCollateralSale, ScaledDoNotGrow
<1> QED
  BY <1>2, <1>3, <1>4, <1>5, <1>6 DEF BorrowerStep

\* A liquidation needs a pool that is not paused, and adds no debt.
LEMMA LiquidationStepHolds ==
    ASSUME Inv, LiquidationStep
    PROVE  NotPaused /\ ScaledDoNotGrow
<1>1. PICK s \in Operators, b \in Borrowers, z \in Inputs.seizures, x \in Inputs.payments :
               Liquidate(s, b, z, x)
  BY DEF LiquidationStep
<1>2. z \in [Collaterals -> Nat] /\ x \in Nat
  BY InputsAssumption DEF Amount
<1> DEFINE f == figures(b, z, x)
<1>3. /\ f.r = accrued
      /\ f.scaled \in Nat /\ f.removed \in Nat
      /\ f.residue = f.scaled - f.removed
      /\ f.bad_debt \in BOOLEAN
  BY <1>2, FiguresFacts
<1>4. /\ NotPaused
      /\ f.residue >= 0
      /\ books_balance(f)
      /\ reserve' = books_after(f)
  BY <1>1 DEF Liquidate, can_liquidate
<1> HIDE DEF f
<1>5. /\ f.residue \in Nat
      /\ (IF f.bad_debt THEN f.scaled ELSE f.removed) <= f.r.total_scaled_borrow
      /\ f.bad_debt /\ contract.bad_debt_loss_allocation = ImmediateLiquidityIndexHaircut
             => ~haircut_fails(f.r, loss(f))
  BY <1>3, <1>4 DEF books_balance
<1>6. contract.bad_debt_loss_allocation \in {DeferredToDeficit, ImmediateLiquidityIndexHaircut}
  BY DEF Inv, TypeOK, Config
<1>7. /\ accrued \in Reserve /\ Sound(accrued)
      /\ accrued.total_scaled_liquidity = reserve.total_scaled_liquidity
      /\ accrued.total_scaled_borrow = reserve.total_scaled_borrow
      /\ accrued.total_scaled_liquidity \in Nat
  BY AccruedFacts DEF Inv, SupplyAgrees
<1>8. /\ books_after(f).total_scaled_liquidity = accrued.total_scaled_liquidity
      /\ books_after(f).total_scaled_borrow <= accrued.total_scaled_borrow
  BY <1>3, <1>5, <1>6, <1>7, BooksAfterFacts
<1> QED
  BY <1>4, <1>7, <1>8 DEF ScaledDoNotGrow

\* The owner's messages need an unpaused contract, but for the curve; coins
\* may arrive at any time.
LEMMA ReserveStepHolds ==
    ASSUME Inv, ReserveStep
    PROVE  /\ ScaledDoNotGrow
           /\ NotPaused \/ Held
<1>1. /\ accrued \in Reserve /\ Sound(accrued)
      /\ accrued.total_scaled_liquidity = reserve.total_scaled_liquidity
      /\ accrued.total_scaled_borrow = reserve.total_scaled_borrow
      /\ accrued.total_scaled_liquidity \in Nat /\ accrued.total_scaled_borrow \in Nat
      /\ accrued.deficit_underlying \in Nat
  BY AccruedFacts DEF Inv, SupplyAgrees
<1>2. \A d \in Denoms : bank[d] \in Nat
  BY DEF Inv, TypeOK, Amount
<1>3. CASE \E s \in Operators, x \in Inputs.reliefs : EliminateDeficitFromReserve(s, x)
  BY <1>1, <1>3 DEF EliminateDeficitFromReserve, ScaledDoNotGrow, Reserve
<1>4. CASE \E s \in Operators, x \in Inputs.reliefs, y \in Inputs.reliefs :
               EliminateDeficitFromBank(s, x, y)
  BY <1>1, <1>4 DEF EliminateDeficitFromBank, ScaledDoNotGrow, Reserve
<1>5. CASE \E s \in Operators, x \in Inputs.reliefs : SocializeDeficit(s, x)
  <2>1. PICK s \in Operators, x \in Inputs.reliefs : SocializeDeficit(s, x)
    BY <1>5
  <2> DEFINE amount == lesser(x, accrued.deficit_underlying)
             h == apply_pro_rata_liquidity_index_haircut(accrued, amount)
  <2>2. amount \in Nat
    BY <1>1, <2>1, InputsAssumption DEF lesser, Amount
  <2>3. /\ NotPaused
        /\ ~haircut_fails(accrued, amount)
        /\ reserve' = [h EXCEPT !.deficit_underlying = @ - amount]
    BY <2>1 DEF SocializeDeficit
  <2> HIDE DEF amount
  <2>4. h \in Reserve /\ h = [accrued EXCEPT !.liquidity_index = h.liquidity_index]
    BY <1>1, <2>2, <2>3, HaircutKeepsReserve
  <2> HIDE DEF h
  <2> QED
    BY <1>1, <2>3, <2>4 DEF ScaledDoNotGrow, Reserve
<1>6. CASE \E s \in Operators : WithdrawReserve(s)
  <2>1. PICK fees : NotPaused /\ reserve' = [accrued EXCEPT !.accrued_reserve = fees]
    BY <1>6 DEF WithdrawReserve
  <2> QED
    BY <1>1, <2>1 DEF ScaledDoNotGrow, Reserve
<1>7. CASE \E s \in Operators, p \in Inputs.curves : UpdateRateParams(s, p)
  BY <1>1, <1>2, <1>7 DEF UpdateRateParams, ScaledDoNotGrow, Held
<1>8. CASE \E x \in Inputs.donations : Donate(x)
  <2>1. PICK x \in Inputs.donations : Donate(x)
    BY <1>8
  <2>2. x \in Nat /\ bank \in [Denoms -> Nat]
    BY InputsAssumption DEF Inv, TypeOK, Amount
  <2>3. \A d \in Denoms : bank'[d] >= bank[d]
    BY <2>1, <2>2 DEF Donate
  <2> QED
    BY <1>1, <2>1, <2>3 DEF Donate, ScaledDoNotGrow, Held
<1> QED
  BY <1>3, <1>4, <1>5, <1>6, <1>7, <1>8 DEF ReserveStep

\* Governance and the passing of time touch no position and take no coins.
LEMMA QuietStepHolds ==
    ASSUME Inv, GovernanceStep \/ WorldStep \/ UNCHANGED vars
    PROVE  ScaledDoNotGrow /\ Held
<1>1. /\ reserve.total_scaled_liquidity \in Nat /\ reserve.total_scaled_borrow \in Nat
      /\ \A d \in Denoms : bank[d] \in Nat
  BY DEF Inv, TypeOK, Reserve, Amount
<1>2. CASE GovernanceStep
  <2>1. BooksUnchanged
    BY <1>2 DEF GovernanceStep, UpdateContractConfig, UpdateSupportedCollateral,
        SetOperationalState, SetLenderRequiredAttrs, SetBorrowerRequiredAttrs,
        SetLenderRequireCommitOnExit, SetBorrowerRequireCommit, TransferOwnership,
        AcceptOwnership, ChangeContract, ChangeOwnership
  <2> QED
    BY <1>1, <2>1 DEF BooksUnchanged, ScaledDoNotGrow, Held
<1>3. CASE WorldStep
  <2>1. UNCHANGED <<reserve, token, bank, position_vars, sale_vars>>
    BY <1>3 DEF WorldStep, Tick, PostPrice
  <2> QED
    BY <1>1, <2>1 DEF ScaledDoNotGrow, Held
<1>4. CASE UNCHANGED vars
  BY <1>1, <1>4 DEF vars, position_vars, sale_vars, ScaledDoNotGrow, Held
<1> QED
  BY <1>2, <1>3, <1>4

\* The supply of the token is the scaled supply before and after the step.
LEMMA OperationalStateStep ==
    ASSUME Inv, [Next]_vars
    PROVE  /\ contract.operational_state # Active =>
                /\ token'.total_supply <= token.total_supply
                /\ reserve'.total_scaled_borrow <= reserve.total_scaled_borrow
           /\ contract.operational_state = Paused => Held
<1>1. /\ reserve.total_scaled_liquidity = token.total_supply
      /\ reserve'.total_scaled_liquidity = token'.total_supply
  BY NextInv DEF Inv, SupplyAgrees
<1>2. CASE LenderStep \/ BorrowerStep
  BY <1>1, <1>2, LenderStepHolds, BorrowerStepHolds DEF ScaledDoNotGrow, Open, NotPaused
<1>3. CASE LiquidationStep
  BY <1>1, <1>3, LiquidationStepHolds DEF ScaledDoNotGrow, NotPaused
<1>4. CASE ReserveStep
  BY <1>1, <1>4, ReserveStepHolds DEF ScaledDoNotGrow, NotPaused
<1>5. CASE GovernanceStep \/ WorldStep \/ UNCHANGED vars
  BY <1>1, <1>5, QuietStepHolds DEF ScaledDoNotGrow
<1> QED
  BY <1>2, <1>3, <1>4, <1>5 DEF Next

\* Frozen, the pool grows neither supply nor debt; paused, it holds every
\* position and pays out nothing: over every behaviour.
THEOREM OperationalStateIsKept == Spec => OperationalStateHolds
<1>1. Inv /\ [Next]_vars
        => [ /\ contract.operational_state # Active =>
                  /\ token'.total_supply <= token.total_supply
                  /\ reserve'.total_scaled_borrow <= reserve.total_scaled_borrow
             /\ contract.operational_state = Paused =>
                  /\ UNCHANGED <<token, position_vars, sale_vars>>
                  /\ \A d \in Denoms : bank'[d] >= bank[d] ]_vars
  BY OperationalStateStep DEF Held
<1> QED
  BY <1>1, InvIsInvariant, PTL DEF Spec, OperationalStateHolds

-----------------------------------------------------------------------------
\* Offers.  Between adjustments an offer can only shrink or be cleared.
OfferShrinks(b) ==
    /\ directed_sale_version'[b] = directed_sale_version[b]
    /\ directed_sale'[b].expires_at <= directed_sale[b].expires_at
    /\ \A a \in Collaterals : directed_sale'[b].amounts[a] <= directed_sale[b].amounts[a]

\* What a borrower's next version may do to the offer of that borrower.
OfferAdjusted(b) ==
    /\ directed_sale_version'[b] = directed_sale_version[b] + 1
    /\ \/ /\ directed_sale'[b].expires_at <= directed_sale[b].expires_at
          /\ \A a \in Collaterals :
                 directed_sale'[b].amounts[a] <= directed_sale[b].amounts[a]
       \/ is_live(directed_sale'[b], now) /\ scaled_borrow[b] > 0

\* The stored offers are amounts with a deadline.
LEMMA OfferTypes ==
    ASSUME Inv, NEW b \in Borrowers
    PROVE  /\ directed_sale[b].expires_at \in Nat
           /\ directed_sale[b].amounts \in [Collaterals -> Nat]
           /\ directed_sale_version[b] \in Nat
BY DEF Inv, TypeOK, Offers, Amount

\* What a message leaves alone has not grown.
LEMMA OfferKept ==
    ASSUME Inv, UNCHANGED sale_vars, NEW b \in Borrowers
    PROVE  OfferShrinks(b)
BY OfferTypes DEF OfferShrinks, sale_vars

\* Storing no more than was offered, with the same deadline, grows nothing.
LEMMA StoredOfferShrinks ==
    ASSUME NEW offer, offer.expires_at \in Nat, offer.amounts \in [Collaterals -> Nat],
           NEW amounts \in [Collaterals -> Nat],
           \A a \in Collaterals : amounts[a] <= offer.amounts[a]
    PROVE  /\ stored_offer(amounts, offer.expires_at).expires_at <= offer.expires_at
           /\ \A a \in Collaterals :
                 stored_offer(amounts, offer.expires_at).amounts[a] <= offer.amounts[a]
BY DEF stored_offer, NoOffer, NoCollateral

\* An adjustment without an increase grows nothing; one with an increase
\* names a deadline ahead and comes from a borrower in debt.
LEMMA AdjustOffer ==
    ASSUME Inv, NEW b \in Borrowers, NEW delta \in [Collaterals -> Int], NEW t \in Nat,
           NEW v \in Nat, AdjustDirectedCollateralSale(b, delta, t, v), NEW d \in Borrowers
    PROVE  OfferShrinks(d) \/ OfferAdjusted(d)
<1> DEFINE offer    == directed_sale[b]
           deadline == offer_deadline(offer, is_increase(delta), t)
           amounts  == adjusted_amounts(offer.amounts, delta)
           cancel   == \A a \in Collaterals : delta[a] = 0
           stored   == IF cancel THEN NoOffer ELSE stored_offer(amounts, deadline)
<1>1. /\ offer.amounts \in [Collaterals -> Nat] /\ offer.expires_at \in Nat
      /\ \A a \in Collaterals : delta[a] \in Int
  BY OfferTypes
<1>2. amounts \in [Collaterals -> Nat]
  <2> HIDE DEF offer
  <2> QED
    BY <1>1 DEF adjusted_amounts, saturating_sub
<1>3. /\ v = directed_sale_version[b] + 1
      /\ is_increase(delta) => t > now /\ scaled_borrow[b] > 0
      /\ directed_sale' = [directed_sale EXCEPT ![b] = stored]
      /\ directed_sale_version' = [directed_sale_version EXCEPT ![b] = v]
  BY DEF AdjustDirectedCollateralSale
<1>4. ~is_increase(delta) =>
         /\ stored.expires_at <= offer.expires_at
         /\ \A a \in Collaterals : stored.amounts[a] <= offer.amounts[a]
  <2> SUFFICES ASSUME ~is_increase(delta)
               PROVE  /\ stored.expires_at <= offer.expires_at
                      /\ \A a \in Collaterals : stored.amounts[a] <= offer.amounts[a]
    OBVIOUS
  <2>1. CASE cancel
    BY <1>1, <2>1 DEF NoOffer, NoCollateral
  <2>2. CASE ~cancel
    <3>1. deadline = offer.expires_at
      BY DEF offer_deadline
    <3>2. \A a \in Collaterals : delta[a] <= 0
      BY <1>1 DEF is_increase
    <3>3. \A a \in Collaterals : amounts[a] <= offer.amounts[a]
      <4> HIDE DEF offer
      <4> QED
        BY <1>1, <3>2 DEF adjusted_amounts, saturating_sub
    <3> HIDE DEF amounts, offer, deadline
    <3> QED
      BY <1>1, <1>2, <2>2, <3>1, <3>3, StoredOfferShrinks
  <2> QED
    BY <2>1, <2>2
<1>5. is_increase(delta) => stored = [amounts |-> amounts, expires_at |-> t]
  <2> SUFFICES ASSUME is_increase(delta)
               PROVE  stored = [amounts |-> amounts, expires_at |-> t]
    OBVIOUS
  <2>1. PICK a \in Collaterals : delta[a] > 0
    BY DEF is_increase
  <2>2. ~cancel
    BY <1>1, <2>1
  <2>3. amounts[a] # 0
    <3> HIDE DEF offer
    <3> QED
      BY <1>1, <2>1 DEF adjusted_amounts
  <2>4. deadline = t
    BY DEF offer_deadline
  <2> HIDE DEF amounts, deadline
  <2> QED
    BY <2>1, <2>2, <2>3, <2>4 DEF stored_offer, is_empty
<1> HIDE DEF stored, amounts, offer
<1>6. CASE d # b
  <2>1. directed_sale'[d] = directed_sale[d] /\ directed_sale_version'[d] = directed_sale_version[d]
    BY <1>3, <1>6 DEF Inv, TypeOK
  <2> QED
    BY <2>1, OfferTypes DEF OfferShrinks
<1>7. CASE d = b
  <2>1. directed_sale'[b] = stored /\ directed_sale_version'[b] = directed_sale_version[b] + 1
    BY <1>3 DEF Inv, TypeOK
  <2>2. CASE ~is_increase(delta)
    BY <1>4, <1>7, <2>1, <2>2 DEF OfferAdjusted, offer
  <2>3. CASE is_increase(delta)
    <3>1. is_live(directed_sale'[b], now)
      BY <1>3, <1>5, <2>1, <2>3 DEF is_live
    <3> QED
      BY <1>3, <1>7, <2>1, <2>3, <3>1 DEF OfferAdjusted
  <2> QED
    BY <2>2, <2>3
<1> QED
  BY <1>6, <1>7

\* A fill takes from the offer what is seized; any other liquidation leaves it.
LEMMA LiquidateOffer ==
    ASSUME Inv, NEW s \in Operators, NEW b \in Borrowers,
           NEW seize \in [Collaterals -> Nat], NEW sent \in Nat,
           Liquidate(s, b, seize, sent), NEW d \in Borrowers
    PROVE  OfferShrinks(d)
<1> DEFINE f == figures(b, seize, sent)
           left == subtract_seize(directed_sale[b].amounts, seize)
<1>1. f.seize = seize
  BY FiguresFacts
<1>2. /\ directed_sale' = [directed_sale EXCEPT ![b] = sale_after(b, f)]
      /\ UNCHANGED directed_sale_version
  BY DEF Liquidate
<1>3. /\ directed_sale[b].expires_at \in Nat
      /\ directed_sale[b].amounts \in [Collaterals -> Nat]
  BY OfferTypes
<1>4. /\ left \in [Collaterals -> Nat]
      /\ \A a \in Collaterals : left[a] <= directed_sale[b].amounts[a]
  BY <1>3 DEF subtract_seize, saturating_sub
<1>5. sale_after(b, f) \in {directed_sale[b], stored_offer(left, directed_sale[b].expires_at)}
  BY <1>1 DEF sale_after
<1> HIDE DEF f, left
<1>6. /\ sale_after(b, f).expires_at <= directed_sale[b].expires_at
      /\ \A a \in Collaterals : sale_after(b, f).amounts[a] <= directed_sale[b].amounts[a]
  BY <1>3, <1>4, <1>5, StoredOfferShrinks
<1>7. directed_sale'[d] = IF d = b THEN sale_after(b, f) ELSE directed_sale[d]
  BY <1>2 DEF Inv, TypeOK
<1> QED
  BY <1>2, <1>6, <1>7, OfferTypes DEF OfferShrinks

\* An offer only shrinks, or is adjusted by its borrower under a new version.
LEMMA OfferStep ==
    ASSUME Inv, [Next]_vars, NEW d \in Borrowers
    PROVE  OfferShrinks(d) \/ OfferAdjusted(d)
<1>1. ASSUME LenderStep PROVE UNCHANGED sale_vars
  BY <1>1 DEF LenderStep, Lend, Withdraw, WithdrawExact, WithdrawCw20, WithdrawUnits,
              PayOutLiquidity, TransferExact, TransferCw20, ForwardUnits, sale_vars
<1>2. CASE BorrowerStep
  <2>1. CASE \E b \in Borrowers, delta \in Inputs.sales, t \in Inputs.deadlines,
                 v \in 1 .. MaxVersion : AdjustDirectedCollateralSale(b, delta, t, v)
    BY <2>1, AdjustOffer, InputsAssumption
  <2>2. CASE UNCHANGED sale_vars
    BY <2>2, OfferKept
  <2> QED
    BY <1>2, <2>1, <2>2 DEF BorrowerStep, Borrow, Repay, AddCollateral, RemoveCollateral, sale_vars
<1>3. CASE LiquidationStep
  BY <1>3, LiquidateOffer, InputsAssumption DEF LiquidationStep, Amount
<1>4. ASSUME ReserveStep PROVE UNCHANGED sale_vars
  BY <1>4 DEF ReserveStep, EliminateDeficitFromReserve, EliminateDeficitFromBank,
              SocializeDeficit, WithdrawReserve, UpdateRateParams, Donate, sale_vars
<1>5. CASE GovernanceStep \/ WorldStep \/ UNCHANGED vars
  BY <1>5, QuietStepHolds, OfferKept DEF Held
<1> QED
  BY <1>1, <1>2, <1>3, <1>4, <1>5, OfferKept DEF Next

\* An offer grows, is prolonged or changes its version only by the next
\* version of a borrower in debt, and is then live: over every behaviour.
THEOREM OffersAreNotReplayed == Spec => OffersGrowOnlyByVersion
<1>1. ASSUME Inv, [Next]_vars, NEW b \in Borrowers
      PROVE  /\ directed_sale_version'[b] >= directed_sale_version[b]
             /\ \/ directed_sale'[b].expires_at > directed_sale[b].expires_at
                \/ \E a \in Collaterals :
                       directed_sale'[b].amounts[a] > directed_sale[b].amounts[a]
                => /\ directed_sale_version'[b] = directed_sale_version[b] + 1
                   /\ is_live(directed_sale'[b], now)
                   /\ scaled_borrow[b] > 0
  <2>1. /\ directed_sale[b].expires_at \in Nat /\ directed_sale'[b].expires_at \in Nat
        /\ \A a \in Collaterals : /\ directed_sale[b].amounts[a] \in Nat
                                  /\ directed_sale'[b].amounts[a] \in Nat
        /\ directed_sale_version[b] \in Nat
    BY <1>1, NextInv DEF Inv, TypeOK, Offers, Amount
  <2>2. OfferShrinks(b) \/ OfferAdjusted(b)
    BY <1>1, OfferStep
  <2> QED
    BY <2>1, <2>2 DEF OfferShrinks, OfferAdjusted
<1>2. Inv /\ [Next]_vars
        => [ \A b \in Borrowers :
               /\ directed_sale_version'[b] >= directed_sale_version[b]
               /\ \/ directed_sale'[b].expires_at > directed_sale[b].expires_at
                  \/ \E a \in Collaterals :
                         directed_sale'[b].amounts[a] > directed_sale[b].amounts[a]
                  => /\ directed_sale_version'[b] = directed_sale_version[b] + 1
                     /\ is_live(directed_sale'[b], now)
                     /\ scaled_borrow[b] > 0 ]_vars
  BY <1>1
<1> QED
  BY <1>2, InvIsInvariant, PTL DEF Spec, OffersGrowOnlyByVersion

-----------------------------------------------------------------------------
\* The reserve a handler leaves is the accrued one for the rest of the block.
LEMMA AccruedAfter ==
    ASSUME Inv, Inv', now' = now, reserve'.last_updated_at = accrued.last_updated_at
    PROVE  accrued' = reserve'
<1>1. accrued' = compute_effective_reserve(reserve', now', contract'.rate_params)
  BY DEF accrued
<1>2. reserve' \in Reserve /\ now' \in Nat /\ reserve'.last_updated_at >= now'
  BY AccruedFacts DEF Inv, TypeOK
<1> QED
  BY <1>1, <1>2, AccrualIsIdempotent

\* Unless a handler stores or the curve changes, the accrued reserve is that
\* of the block.
LEMMA AccruedUnmoved ==
    ASSUME now' = now, reserve' = reserve, contract'.rate_params = contract.rate_params
    PROVE  accrued' = accrued
BY DEF accrued

\* How the margin changes, entry by entry.
LEMMA MarginChange ==
    ASSUME NEW r \in Reserve, NEW q \in Reserve, NEW c \in Nat, NEW d \in Nat
    PROVE  /\ margin(q, d) - margin(r, c) =
                 (d - c) * ONE
               + (total_borrow(q) - total_borrow(r))
               + (q.deficit_underlying - r.deficit_underlying) * ONE
               - (total_liquidity(q) - total_liquidity(r))
               - (q.accrued_reserve - r.accrued_reserve) * ONE
           /\ margin(r, c) \in Int /\ margin(q, d) \in Int
<1>1. \A x \in Reserve : /\ total_borrow(x) \in Nat /\ total_liquidity(x) \in Nat
                         /\ x.deficit_underlying \in Nat /\ x.accrued_reserve \in Nat
  BY UtilizationType DEF Reserve, Amount
<1>2. ONE \in Nat
  BY OneAssumption
<1>3. ASSUME NEW a \in Nat, NEW b \in Nat PROVE (a - b) * ONE = a * ONE - b * ONE
  BY <1>2
<1>4. /\ (d - c) * ONE = d * ONE - c * ONE
      /\ (q.deficit_underlying - r.deficit_underlying) * ONE
           = q.deficit_underlying * ONE - r.deficit_underlying * ONE
      /\ (q.accrued_reserve - r.accrued_reserve) * ONE
           = q.accrued_reserve * ONE - r.accrued_reserve * ONE
  BY <1>1, <1>3
<1>5. /\ c * ONE \in Nat /\ d * ONE \in Nat
      /\ q.deficit_underlying * ONE \in Nat /\ r.deficit_underlying * ONE \in Nat
      /\ q.accrued_reserve * ONE \in Nat /\ r.accrued_reserve * ONE \in Nat
  BY <1>1, <1>2
<1> QED
  BY <1>1, <1>4, <1>5 DEF margin

\* The change, for a step that leaves fees and deficit as accrued and pays
\* coins in or out against scaled units of supply and debt.
LEMMA TradeKeepsMargin ==
    ASSUME NEW r \in Reserve, NEW q \in Reserve, NEW c \in Nat, NEW d \in Nat,
           NEW supply \in Nat, NEW debt \in Nat,
           q = [r EXCEPT !.total_scaled_liquidity = supply, !.total_scaled_borrow = debt],
           (d - c) * ONE + (debt - r.total_scaled_borrow) * r.borrow_index
               >= (supply - r.total_scaled_liquidity) * r.liquidity_index
    PROVE  margin(q, d) >= margin(r, c)
<1>1. /\ r.total_scaled_borrow \in Nat /\ r.borrow_index \in Nat
      /\ r.total_scaled_liquidity \in Nat /\ r.liquidity_index \in Nat
      /\ r.deficit_underlying \in Nat /\ r.accrued_reserve \in Nat
  BY DEF Reserve, Amount, Atomics
<1>2. /\ q.deficit_underlying = r.deficit_underlying /\ q.accrued_reserve = r.accrued_reserve
      /\ total_borrow(q) = debt * r.borrow_index
      /\ total_liquidity(q) = supply * r.liquidity_index
  BY DEF total_borrow, total_liquidity, Reserve
<1>3. /\ total_borrow(q) - total_borrow(r) = (debt - r.total_scaled_borrow) * r.borrow_index
      /\ total_liquidity(q) - total_liquidity(r)
           = (supply - r.total_scaled_liquidity) * r.liquidity_index
  BY <1>1, <1>2 DEF total_borrow, total_liquidity
<1>4. /\ (q.deficit_underlying - r.deficit_underlying) * ONE = 0
      /\ (q.accrued_reserve - r.accrued_reserve) * ONE = 0
  BY <1>1, <1>2, OneAssumption
<1>5. /\ margin(q, d) - margin(r, c) =
              (d - c) * ONE
            + (total_borrow(q) - total_borrow(r))
            + (q.deficit_underlying - r.deficit_underlying) * ONE
            - (total_liquidity(q) - total_liquidity(r))
            - (q.accrued_reserve - r.accrued_reserve) * ONE
      /\ margin(r, c) \in Int /\ margin(q, d) \in Int
  BY ONLY MarginChange, r \in Reserve, q \in Reserve, c \in Nat, d \in Nat
<1> DEFINE D == (debt - r.total_scaled_borrow) * r.borrow_index
           S == (supply - r.total_scaled_liquidity) * r.liquidity_index
           C == (d - c) * ONE
<1>6. C \in Int /\ D \in Int /\ S \in Int /\ C + D >= S
  BY <1>1, OneAssumption
<1>7. /\ total_borrow(q) - total_borrow(r) = D
      /\ total_liquidity(q) - total_liquidity(r) = S
  BY <1>3
<1> DEFINE X == (q.deficit_underlying - r.deficit_underlying) * ONE
           Y == (q.accrued_reserve - r.accrued_reserve) * ONE
           T == total_borrow(q) - total_borrow(r)
           U == total_liquidity(q) - total_liquidity(r)
<1>8. /\ margin(q, d) - margin(r, c) = C + T + X - U - Y
      /\ margin(r, c) \in Int /\ margin(q, d) \in Int
  BY <1>5
<1>9. X = 0 /\ Y = 0 /\ T = D /\ U = S
  BY <1>4, <1>7
<1> HIDE DEF D, S, C, X, Y, T, U
<1> QED
  BY <1>6, <1>8, <1>9

\* The change, for a step that leaves supply and debt as accrued.
LEMMA LossesKeepMargin ==
    ASSUME NEW r \in Reserve, NEW q \in Reserve, NEW c \in Nat, NEW d \in Nat,
           NEW fees \in Nat, NEW deficit \in Nat,
           q = [r EXCEPT !.accrued_reserve = fees, !.deficit_underlying = deficit],
           d + deficit + r.accrued_reserve >= c + r.deficit_underlying + fees
    PROVE  margin(q, d) >= margin(r, c)
<1>1. /\ r.deficit_underlying \in Nat /\ r.accrued_reserve \in Nat
      /\ q.deficit_underlying = deficit /\ q.accrued_reserve = fees
      /\ total_borrow(q) = total_borrow(r) /\ total_liquidity(q) = total_liquidity(r)
      /\ total_borrow(r) \in Nat /\ total_liquidity(r) \in Nat
  BY UtilizationType DEF Reserve, Amount, total_borrow, total_liquidity
<1>2. (c + r.deficit_underlying + fees) * ONE <= (d + deficit + r.accrued_reserve) * ONE
  BY <1>1, OneAssumption, ProductMonotone
<1>3. /\ (c + r.deficit_underlying + fees) * ONE
           = c * ONE + r.deficit_underlying * ONE + fees * ONE
      /\ (d + deficit + r.accrued_reserve) * ONE
           = d * ONE + deficit * ONE + r.accrued_reserve * ONE
  BY <1>1, OneAssumption
<1>4. /\ c * ONE \in Nat /\ d * ONE \in Nat /\ fees * ONE \in Nat /\ deficit * ONE \in Nat
      /\ r.deficit_underlying * ONE \in Nat /\ r.accrued_reserve * ONE \in Nat
  BY <1>1, OneAssumption
<1> QED
  BY <1>1, <1>2, <1>3, <1>4 DEF margin

-----------------------------------------------------------------------------
\* Message by message.  Supply: what is minted is covered by what is paid in,
\* what is paid out by what is burned.
LEMMA SupplyKeepsMargin ==
    ASSUME Inv, Inv', now' = now, NEW supply \in Nat, NEW coins \in Nat,
           reserve' = [accrued EXCEPT !.total_scaled_liquidity = supply],
           bank' = [bank EXCEPT ![LENDING] = coins],
           (coins - bank[LENDING]) * ONE
               >= (supply - accrued.total_scaled_liquidity) * accrued.liquidity_index
    PROVE  Margin' >= Margin
<1>1. /\ accrued \in Reserve /\ bank[LENDING] \in Nat
      /\ accrued.total_scaled_borrow \in Nat /\ accrued.borrow_index \in Nat
  BY AccruedFacts DEF Inv, TypeOK, Amount, Denoms
<1>2. accrued' = reserve' /\ bank'[LENDING] = coins
  BY <1>1, AccruedAfter DEF Reserve, Inv, TypeOK, Denoms
<1>3. reserve' = [accrued EXCEPT !.total_scaled_liquidity = supply,
                                 !.total_scaled_borrow = accrued.total_scaled_borrow]
  BY <1>1 DEF Reserve
<1>4. (accrued.total_scaled_borrow - accrued.total_scaled_borrow) * accrued.borrow_index = 0
  BY <1>1
<1>5. (coins - bank[LENDING]) * ONE \in Int
  BY <1>1, OneAssumption
<1>6. margin(reserve', coins) >= margin(accrued, bank[LENDING])
  <2>1. PICK q : q = reserve'
    OBVIOUS
  <2>2. q \in Reserve
    BY <2>1 DEF Inv, TypeOK
  <2> DEFINE C == (coins - bank[LENDING]) * ONE
             S == (supply - accrued.total_scaled_liquidity) * accrued.liquidity_index
             D == (accrued.total_scaled_borrow - accrued.total_scaled_borrow)
                      * accrued.borrow_index
  <2>3. C + D >= S
    <3>1. C \in Int /\ D = 0 /\ C >= S
      BY <1>4, <1>5
    <3> HIDE DEF C, D, S
    <3> QED
      BY <3>1
  <2>4. q = [accrued EXCEPT !.total_scaled_liquidity = supply,
                            !.total_scaled_borrow = accrued.total_scaled_borrow]
    BY <1>3, <2>1
  <2>5. margin(q, coins) >= margin(accrued, bank[LENDING])
    BY <1>1, <2>2, <2>3, <2>4, TradeKeepsMargin
  <2> QED
    BY <2>1, <2>5
<1> QED
  BY <1>2, <1>6 DEF Margin

\* A step that sets the total debt and the coins: the margin does not fall if
\* the coins cover the debt.
LEMMA DebtKeepsMargin ==
    ASSUME Inv, Inv', now' = now, NEW debt \in Nat, NEW coins \in Nat,
           reserve' = [accrued EXCEPT !.total_scaled_borrow = debt],
           bank' = [bank EXCEPT ![LENDING] = coins],
           (coins - bank[LENDING]) * ONE
               + (debt - accrued.total_scaled_borrow) * accrued.borrow_index >= 0
    PROVE  Margin' >= Margin
<1>1. /\ accrued \in Reserve /\ bank[LENDING] \in Nat
      /\ accrued.total_scaled_liquidity \in Nat /\ accrued.liquidity_index \in Nat
  BY AccruedFacts DEF Inv, TypeOK, Amount, Denoms
<1>2. accrued' = reserve' /\ bank'[LENDING] = coins
  BY <1>1, AccruedAfter DEF Reserve, Inv, TypeOK, Denoms
<1>3. reserve' = [accrued EXCEPT !.total_scaled_liquidity = accrued.total_scaled_liquidity,
                                 !.total_scaled_borrow = debt]
  BY <1>1 DEF Reserve
<1>4. (accrued.total_scaled_liquidity - accrued.total_scaled_liquidity)
          * accrued.liquidity_index = 0
  BY <1>1
<1>6. margin(reserve', coins) >= margin(accrued, bank[LENDING])
  <2>1. PICK q : q = reserve'
    OBVIOUS
  <2>2. q \in Reserve
    BY <2>1 DEF Inv, TypeOK
  <2>3. margin(q, coins) >= margin(accrued, bank[LENDING])
    BY <1>1, <1>3, <1>4, <2>1, <2>2, TradeKeepsMargin
  <2> QED
    BY <2>1, <2>3
<1> QED
  BY <1>2, <1>6 DEF Margin

\* A step that sets the fees, the deficit and the coins, and covers what it
\* books.
LEMMA LossKeepsMargin ==
    ASSUME Inv, Inv', now' = now, NEW fees \in Nat, NEW deficit \in Nat, NEW coins \in Nat,
           reserve' = [accrued EXCEPT !.accrued_reserve = fees, !.deficit_underlying = deficit],
           bank' = [bank EXCEPT ![LENDING] = coins],
           coins + deficit + accrued.accrued_reserve
               >= bank[LENDING] + accrued.deficit_underlying + fees
    PROVE  Margin' >= Margin
<1>1. accrued \in Reserve /\ bank[LENDING] \in Nat
  BY AccruedFacts DEF Inv, TypeOK, Amount, Denoms
<1>2. accrued' = reserve' /\ bank'[LENDING] = coins
  BY <1>1, AccruedAfter DEF Reserve, Inv, TypeOK, Denoms
<1>3. margin(reserve', coins) >= margin(accrued, bank[LENDING])
  <2>1. PICK q : q = reserve'
    OBVIOUS
  <2>2. q \in Reserve
    BY <2>1 DEF Inv, TypeOK
  <2>3. margin(q, coins) >= margin(accrued, bank[LENDING])
    BY <1>1, <2>1, <2>2, LossesKeepMargin
  <2> QED
    BY <2>1, <2>3
<1> QED
  BY <1>2, <1>3 DEF Margin

\* A step that leaves the stored reserve, the curve and the time alone, and
\* takes no coins, costs nothing.
LEMMA IdleKeepsMargin ==
    ASSUME Inv, Inv', now' = now, reserve' = reserve,
           contract'.rate_params = contract.rate_params,
           bank'[LENDING] >= bank[LENDING]
    PROVE  Margin' >= Margin
<1>1. accrued' = accrued /\ accrued \in Reserve
  BY AccruedUnmoved, AccruedFacts
<1>2. bank[LENDING] \in Nat /\ bank'[LENDING] \in Nat
  BY DEF Inv, TypeOK, Amount, Denoms
<1>3. bank[LENDING] * ONE <= bank'[LENDING] * ONE
  BY <1>2, OneAssumption, ProductMonotone
<1>4. /\ bank[LENDING] * ONE \in Nat /\ bank'[LENDING] * ONE \in Nat
      /\ total_borrow(accrued) \in Nat /\ total_liquidity(accrued) \in Nat
      /\ accrued.deficit_underlying * ONE \in Nat /\ accrued.accrued_reserve * ONE \in Nat
  BY <1>1, <1>2, UtilizationType, OneAssumption DEF Reserve, Amount
<1> QED
  BY <1>1, <1>3, <1>4 DEF Margin, margin
-----------------------------------------------------------------------------
\* The margin, message by message.
LEMMA LendMargin ==
    ASSUME Inv, Inv', NEW l \in Lenders, NEW x \in Nat, Lend(l, x)
    PROVE  Margin' >= Margin
<1> DEFINE i == accrued.liquidity_index
           t == accrued.total_scaled_liquidity
           s == underlying_to_scaled_liquidity(x, i)
           c == bank[LENDING]
<1>1. i \in Nat \ {0} /\ t \in Nat /\ c \in Nat
  BY AccruedFacts DEF Inv, TypeOK, Amount, Denoms
<1>2. /\ now' = now
      /\ reserve' = [accrued EXCEPT !.total_scaled_liquidity = t + s]
      /\ bank' = [bank EXCEPT ![LENDING] = c + x]
  BY DEF Lend, world_vars
<1>3. s \in Nat /\ s * i <= x * ONE
  <2> HIDE DEF i
  <2> QED
    BY <1>1, ScaledIsCovered
<1> HIDE DEF s
<1>4. PICK supply \in Nat, coins \in Nat : supply = t + s /\ coins = c + x
  BY <1>1, <1>3
<1>5. (coins - c) * ONE >= (supply - t) * i
  <2>1. coins - c = x /\ supply - t = s
    BY <1>1, <1>3, <1>4
  <2> HIDE DEF i, t, c
  <2> QED
    BY <1>3, <2>1
<1>6. /\ reserve' = [accrued EXCEPT !.total_scaled_liquidity = supply]
      /\ bank' = [bank EXCEPT ![LENDING] = coins]
  BY <1>2, <1>4
<1> QED
  BY <1>2, <1>5, <1>6, SupplyKeepsMargin

\* Redeeming units for what they are worth, rounded down.
LEMMA PayOutMargin ==
    ASSUME Inv, Inv', now' = now, NEW s \in Nat,
           PayOutLiquidity(accrued, s, scaled_to_underlying_liquidity(s, accrued.liquidity_index))
    PROVE  Margin' >= Margin
<1> DEFINE i == accrued.liquidity_index
           t == accrued.total_scaled_liquidity
           x == scaled_to_underlying_liquidity(s, i)
           c == bank[LENDING]
<1>1. i \in Nat \ {0} /\ t \in Nat /\ c \in Nat
  BY AccruedFacts DEF Inv, TypeOK, Amount, Denoms
<1>2. /\ t >= s /\ c >= x
      /\ reserve' = [accrued EXCEPT !.total_scaled_liquidity = t - s]
      /\ bank' = [bank EXCEPT ![LENDING] = c - x]
  BY DEF PayOutLiquidity, can_send
<1>3. x \in Nat /\ x * ONE <= s * i
  <2> HIDE DEF i
  <2> QED
    BY <1>1, UnderlyingIsCovered
<1> HIDE DEF x
<1>4. (c - x - c) * ONE >= (t - s - t) * i
  <2>1. c - x - c = 0 - x /\ t - s - t = 0 - s
    BY <1>1, <1>3
  <2> HIDE DEF i, t, c
  <2>2. (0 - x) * ONE = 0 - x * ONE /\ (0 - s) * i = 0 - s * i
    BY <1>1, <1>3, OneAssumption
  <2>3. x * ONE \in Nat /\ s * i \in Nat
    BY <1>1, <1>3, OneAssumption
  <2> QED
    BY <1>3, <2>1, <2>2, <2>3
<1>5. t - s \in Nat /\ c - x \in Nat
  BY <1>1, <1>2, <1>3
<1> QED
  BY <1>2, <1>4, <1>5, SupplyKeepsMargin

\* No message of a lender lowers the margin.
LEMMA LenderMargin ==
    ASSUME Inv, Inv', LenderStep
    PROVE  now' = now /\ Margin' >= Margin
<1>1. /\ Inputs.lends \subseteq Nat /\ Inputs.redemptions \subseteq Nat
      /\ Inputs.units \subseteq Nat /\ Inputs.requests \subseteq Nat
  BY InputsAssumption DEF Amount
<1>2. /\ token.balances \in [Accounts \cup {POOL} -> Nat] /\ Lenders \subseteq Accounts
      /\ accrued.liquidity_index \in Nat /\ accrued.liquidity_index > 0
  BY AccruedFacts DEF Inv, TypeOK, Amount, Accounts
<1>3. CASE \E l \in Lenders, x \in Inputs.lends : Lend(l, x)
  BY <1>1, <1>3, LendMargin DEF Lend, world_vars
<1>4. CASE \E s \in Operators, l \in Lenders, x \in Inputs.redemptions, c \in Inputs.commits :
               Withdraw(s, l, x, c)
  <2>1. PICK s \in Operators, l \in Lenders, x \in Inputs.redemptions, c \in Inputs.commits :
                 Withdraw(s, l, x, c)
    BY <1>4
  <2> DEFINE scaled == IF x = 0 THEN token.balances[l]
                       ELSE underlying_to_scaled_liquidity(x, accrued.liquidity_index)
  <2>2. scaled \in Nat
    BY <1>1, <1>2, ConversionTypes
  <2>3. /\ now' = now
        /\ PayOutLiquidity(accrued, scaled,
               scaled_to_underlying_liquidity(scaled, accrued.liquidity_index))
    BY <2>1 DEF Withdraw, world_vars
  <2> QED
    BY <2>2, <2>3, PayOutMargin
<1>5. CASE \E l \in Lenders, u \in Inputs.units, c \in Inputs.commits : WithdrawExact(l, u, c)
  BY <1>1, <1>5, PayOutMargin DEF WithdrawExact, WithdrawUnits, world_vars
<1>6. CASE \E l \in Lenders, u \in Inputs.units, x \in Inputs.requests, c \in Inputs.commits :
               WithdrawCw20(l, u, x, c)
  <2>1. PICK x \in Inputs.requests :
            LET scaled == underlying_to_scaled_liquidity(x, accrued.liquidity_index)
            IN  /\ now' = now
                /\ PayOutLiquidity(accrued, scaled,
                       scaled_to_underlying_liquidity(scaled, accrued.liquidity_index))
    BY <1>6 DEF WithdrawCw20, WithdrawUnits, world_vars
  <2>2. underlying_to_scaled_liquidity(x, accrued.liquidity_index) \in Nat
    BY <1>1, <1>2, ConversionTypes
  <2> QED
    BY <2>1, <2>2, PayOutMargin
<1>7. ASSUME NEW l, NEW u, NEW m, NEW scaled, ForwardUnits(l, u, m, scaled)
      PROVE  now' = now /\ Margin' >= Margin
  <2>1. bank' = bank /\ bank[LENDING] \in Nat
    BY <1>7 DEF ForwardUnits, Inv, TypeOK, Amount, Denoms
  <2>2. now' = now /\ reserve' = reserve /\ contract' = contract
    BY <1>7 DEF ForwardUnits, world_vars, config_vars
  <2> QED
    BY <2>1, <2>2, IdleKeepsMargin
<1>8. CASE \E l \in Lenders, u \in Inputs.units, m \in Inputs.recipients : TransferExact(l, u, m)
  BY <1>7, <1>8 DEF TransferExact
<1>9. CASE \E l \in Lenders, u \in Inputs.units, m \in Inputs.recipients, x \in Inputs.requests :
               TransferCw20(l, u, m, x)
  BY <1>7, <1>9 DEF TransferCw20
<1> QED
  BY <1>3, <1>4, <1>5, <1>6, <1>8, <1>9 DEF LenderStep

\* A repayment covers the scaled debt it removes, in part or in full.
LEMMA RepaymentCovers ==
    ASSUME Inv, NEW scaled \in Nat, NEW sent \in Nat
    PROVE  LET payoff  == scaled_to_underlying_borrow_ceil(scaled, accrued.borrow_index)
               repaid  == lesser(sent, payoff)
               removed == scaled_repaid(scaled, repaid, payoff, accrued.borrow_index)
           IN  /\ repaid \in Nat /\ removed \in Nat
               /\ removed * accrued.borrow_index <= repaid * ONE
<1> DEFINE i       == accrued.borrow_index
           payoff  == scaled_to_underlying_borrow_ceil(scaled, i)
           repaid  == lesser(sent, payoff)
           removed == scaled_repaid(scaled, repaid, payoff, i)
<1>1. i \in Nat \ {0}
  BY AccruedFacts
<1>2. repaid \in Nat /\ removed \in Nat
  BY PayoffTypes
<1>3. payoff \in Nat /\ payoff * ONE >= scaled * i
  <2> HIDE DEF i
  <2> QED
    BY <1>1, UnderlyingIsCovered
<1>4. repaid <= payoff
  BY <1>3 DEF lesser
<1> HIDE DEF i, payoff, repaid
<1>5. CASE repaid >= payoff
  <2>1. repaid = payoff /\ removed = scaled
    BY <1>2, <1>3, <1>4, <1>5 DEF scaled_repaid
  <2> QED
    BY <1>2, <1>3, <2>1 DEF i, payoff, repaid
<1>6. CASE ~(repaid >= payoff)
  <2>1. removed = underlying_to_scaled_borrow(repaid, i)
    BY <1>6 DEF scaled_repaid
  <2>2. removed * i <= repaid * ONE
    BY <1>1, <1>2, <2>1, ScaledIsCovered
  <2> QED
    BY <1>2, <2>2 DEF i, payoff, repaid
<1> QED
  BY <1>5, <1>6

\* Debt removed against a repayment that covers it.
LEMMA PaidDebtKeepsMargin ==
    ASSUME Inv, NEW removed \in Nat, NEW repaid \in Nat,
           removed <= accrued.total_scaled_borrow,
           removed * accrued.borrow_index <= repaid * ONE
    PROVE  margin([accrued EXCEPT !.total_scaled_borrow = @ - removed], bank[LENDING] + repaid)
             >= Margin
<1> DEFINE i == accrued.borrow_index
           t == accrued.total_scaled_borrow
           c == bank[LENDING]
<1>1. /\ i \in Nat \ {0} /\ t \in Nat /\ c \in Nat
      /\ accrued \in Reserve
      /\ accrued.total_scaled_liquidity \in Nat /\ accrued.liquidity_index \in Nat
  BY AccruedFacts DEF Inv, TypeOK, Amount, Denoms
<1>2. PICK debt \in Nat, coins \in Nat : debt = t - removed /\ coins = c + repaid
  BY <1>1
<1>3. PICK q : q = [accrued EXCEPT !.total_scaled_borrow = @ - removed]
  OBVIOUS
<1>4. /\ q = [accrued EXCEPT !.total_scaled_liquidity = accrued.total_scaled_liquidity,
                             !.total_scaled_borrow = debt]
      /\ q \in Reserve
  BY <1>1, <1>2, <1>3 DEF Reserve, Amount
<1>5. (coins - c) * ONE + (debt - t) * i
          >= (accrued.total_scaled_liquidity - accrued.total_scaled_liquidity)
                 * accrued.liquidity_index
  <2>1. coins - c = repaid /\ debt - t = 0 - removed
    BY <1>1, <1>2
  <2>2. /\ removed * i \in Nat /\ repaid * ONE \in Nat
        /\ (0 - removed) * i = 0 - removed * i
        /\ (accrued.total_scaled_liquidity - accrued.total_scaled_liquidity)
               * accrued.liquidity_index = 0
    BY <1>1, OneAssumption
  <2> HIDE DEF i, t, c
  <2>3. repaid * ONE + (0 - removed) * i >= 0
    BY <2>2 DEF i
  <2> QED
    BY <2>1, <2>2, <2>3
<1> HIDE DEF c
<1>6. margin(q, coins) >= margin(accrued, c)
  BY <1>1, <1>2, <1>4, <1>5, TradeKeepsMargin
<1> QED
  BY <1>2, <1>3, <1>6 DEF Margin, c

\* Nor does a repayment.
LEMMA RepayMargin ==
    ASSUME Inv, Inv', NEW b \in Borrowers, NEW x \in Nat, Repay(b, x)
    PROVE  Margin' >= Margin
<1> DEFINE payoff  == scaled_to_underlying_borrow_ceil(scaled_borrow[b], accrued.borrow_index)
           repaid  == lesser(x, payoff)
           removed == scaled_repaid(scaled_borrow[b], repaid, payoff, accrued.borrow_index)
<1>1. /\ repaid \in Nat /\ removed \in Nat
      /\ removed * accrued.borrow_index <= repaid * ONE
  BY StoredTypes, RepaymentCovers
<1>2. /\ accrued.total_scaled_borrow >= removed
      /\ reserve' = [accrued EXCEPT !.total_scaled_borrow = @ - removed]
      /\ bank' = [bank EXCEPT ![LENDING] = @ + repaid]
      /\ now' = now
  BY DEF Repay, can_repay, world_vars
<1> HIDE DEF removed, repaid
<1>3. accrued' = reserve'
  BY <1>2, AccruedFacts, AccruedAfter DEF Reserve
<1>4. bank'[LENDING] = bank[LENDING] + repaid
  BY <1>2 DEF Inv, TypeOK, Denoms
<1>5. removed <= accrued.total_scaled_borrow
  BY <1>1, <1>2, AccruedFacts
<1> QED
  BY <1>1, <1>2, <1>3, <1>4, <1>5, PaidDebtKeepsMargin DEF Margin

\* The one message that may spend margin: a loan, less than one atomic of the
\* borrow index.
LEMMA BorrowMargin ==
    ASSUME Inv, Inv', NEW b \in Borrowers, NEW x \in Nat, Borrow(b, x)
    PROVE  now' = now /\ ONE * (Margin - Margin') < accrued.borrow_index
<1> DEFINE i     == accrued.borrow_index
           t     == accrued.total_scaled_borrow
           delta == underlying_to_scaled_borrow_ceil(x, i)
           c     == bank[LENDING]
<1>1. i \in Nat \ {0} /\ t \in Nat /\ c \in Nat /\ accrued \in Reserve
  BY AccruedFacts, StoredTypes
<1>2. /\ now' = now /\ c >= x
      /\ reserve' = [accrued EXCEPT !.total_scaled_borrow = t + delta]
      /\ bank' = [bank EXCEPT ![LENDING] = c - x]
  BY DEF Borrow, world_vars, can_send, debt_after_borrow
<1>3. delta \in Nat /\ ONE * (x * ONE - delta * i) < i
  <2> HIDE DEF i
  <2> QED
    BY <1>1, DebtIsNearlyCovered
<1> HIDE DEF delta
<1>4. /\ accrued' = reserve' /\ reserve' \in Reserve
      /\ bank'[LENDING] = c - x /\ c - x \in Nat
  BY <1>1, <1>2, AccruedAfter DEF Reserve, Inv, TypeOK, Denoms
<1>5. PICK q : q = reserve'
  OBVIOUS
<1>6. /\ q \in Reserve
      /\ q.total_scaled_borrow = t + delta /\ q.borrow_index = i
      /\ q.deficit_underlying = accrued.deficit_underlying
      /\ q.accrued_reserve = accrued.accrued_reserve
      /\ total_liquidity(q) = total_liquidity(accrued)
  BY <1>1, <1>2, <1>4, <1>5 DEF Reserve, total_liquidity
<1>7. total_borrow(q) - total_borrow(accrued) = delta * i
  <2>1. total_borrow(q) = (t + delta) * i /\ total_borrow(accrued) = t * i
    BY <1>6 DEF total_borrow
  <2> HIDE DEF t, i
  <2>2. (t + delta) * i = t * i + delta * i /\ t * i \in Nat /\ delta * i \in Nat
    BY <1>1, <1>3
  <2> QED
    BY <2>1, <2>2
<1>8. Margin' = margin(q, c - x)
  BY <1>4, <1>5 DEF Margin
<1>9. Margin' - Margin = delta * i - x * ONE
  <2>1. /\ margin(q, c - x) - margin(accrued, c) =
                 (c - x - c) * ONE
               + (total_borrow(q) - total_borrow(accrued))
               + (q.deficit_underlying - accrued.deficit_underlying) * ONE
               - (total_liquidity(q) - total_liquidity(accrued))
               - (q.accrued_reserve - accrued.accrued_reserve) * ONE
        /\ margin(accrued, c) \in Int /\ margin(q, c - x) \in Int
    <3>1. accrued \in Reserve /\ q \in Reserve /\ c \in Nat /\ c - x \in Nat
      BY <1>1, <1>4, <1>6
    <3> HIDE DEF c
    <3> QED
      BY ONLY <3>1, MarginChange
  <2>2. /\ accrued.deficit_underlying \in Nat /\ accrued.accrued_reserve \in Nat
        /\ total_liquidity(accrued) \in Nat
    BY <1>1, UtilizationType DEF Reserve, Amount
  <2>3. /\ (q.deficit_underlying - accrued.deficit_underlying) * ONE = 0
        /\ (q.accrued_reserve - accrued.accrued_reserve) * ONE = 0
        /\ total_liquidity(q) - total_liquidity(accrued) = 0
    BY <1>6, <2>2, OneAssumption
  <2>4. (c - x - c) * ONE = 0 - x * ONE
    <3>1. c - x - c = 0 - x
      BY <1>1
    <3> QED
      BY <3>1, OneAssumption
  <2>5. x * ONE \in Nat /\ delta * i \in Nat
    BY <1>1, <1>3, OneAssumption
  <2> HIDE DEF i
  <2> QED
    BY <1>7, <1>8, <2>1, <2>3, <2>4, <2>5 DEF Margin
<1>10. Margin \in Int /\ Margin' \in Int
  BY <1>1, <1>4, <1>6, <1>8, MarginChange DEF Margin
<1>11. Margin - Margin' = x * ONE - delta * i
  <2>1. x * ONE \in Int /\ delta * i \in Int
    BY <1>1, <1>3, OneAssumption
  <2>2. \A m \in Int, n \in Int, p \in Int, q2 \in Int : n - m = p - q2 => m - n = q2 - p
    OBVIOUS
  <2> HIDE DEF i
  <2> QED
    BY <1>9, <1>10, <2>1, <2>2
<1> QED
  BY <1>2, <1>3, <1>11

\* A step that keeps the accrued reserve, stored or not, and takes no coins.
LEMMA AccrualKeepsMargin ==
    ASSUME Inv, Inv', now' = now, reserve' = accrued, bank'[LENDING] = bank[LENDING]
    PROVE  Margin' >= Margin
<1>1. accrued' = accrued
  BY AccruedAfter
<1>2. Margin' = Margin /\ Margin \in Int
  BY <1>1, AccruedFacts, MarginChange DEF Margin, Inv, TypeOK, Amount, Denoms
<1> QED
  BY <1>2

\* Nor does any message of a borrower but a borrowing, which rounds the debt
\* down by less than one scaled unit.
LEMMA BorrowerMargin ==
    ASSUME Inv, Inv', BorrowerStep
    PROVE  /\ now' = now
           /\ \/ Margin' >= Margin
              \/ /\ \E b \in Borrowers, x \in Inputs.borrows : Borrow(b, x)
                 /\ ONE * (Margin - Margin') < accrued.borrow_index
<1>1. /\ Inputs.borrows \subseteq Nat /\ Inputs.repayments \subseteq Nat
      /\ LENDING \in Denoms /\ LENDING \notin Collaterals
      /\ bank[LENDING] \in Nat
  BY InputsAssumption, PricingAssumption DEF Amount, Denoms, Inv, TypeOK
<1>2. CASE \E b \in Borrowers, x \in Inputs.borrows : Borrow(b, x)
  BY <1>1, <1>2, BorrowMargin
<1>3. CASE \E b \in Borrowers, x \in Inputs.repayments : Repay(b, x)
  BY <1>1, <1>3, RepayMargin DEF Repay, world_vars
<1>4. CASE \E b \in Borrowers, coins \in Inputs.deposits : AddCollateral(b, coins)
  <2>1. /\ now' = now /\ reserve' = reserve /\ contract' = contract
        /\ bank'[LENDING] = bank[LENDING]
    BY <1>1, <1>4 DEF AddCollateral, world_vars, config_vars, held_types
  <2> QED
    BY <1>1, <2>1, IdleKeepsMargin
<1>5. CASE \E b \in Borrowers, coins \in Inputs.removals : RemoveCollateral(b, coins)
  <2>1. now' = now /\ reserve' = accrued /\ bank'[LENDING] = bank[LENDING]
    BY <1>1, <1>5 DEF RemoveCollateral, world_vars, held_types
  <2> QED
    BY <2>1, AccrualKeepsMargin
<1>6. CASE \E b \in Borrowers, delta \in Inputs.sales, t \in Inputs.deadlines,
               v \in 1 .. MaxVersion : AdjustDirectedCollateralSale(b, delta, t, v)
  <2>1. now' = now /\ reserve' = reserve /\ contract' = contract /\ bank' = bank
    BY <1>6 DEF AdjustDirectedCollateralSale, world_vars, config_vars
  <2> QED
    BY <1>1, <2>1, IdleKeepsMargin
<1> QED
  BY <1>2, <1>3, <1>4, <1>5, <1>6 DEF BorrowerStep

\* A loss written off costs the residue and is booked in full: to the deficit
\* or to the lenders.
LEMMA WriteOffKeepsMargin ==
    ASSUME NEW r \in Reserve, NEW q \in Reserve, NEW residue \in Nat, NEW loss_ \in Nat, NEW d \in Nat,
           r.borrow_index \in Nat, residue * r.borrow_index <= loss_ * ONE,
           q.borrow_index = r.borrow_index,
           q.total_scaled_borrow = r.total_scaled_borrow - residue,
           q.accrued_reserve = r.accrued_reserve,
           \/ /\ q.deficit_underlying = r.deficit_underlying + loss_
              /\ total_liquidity(q) = total_liquidity(r)
           \/ /\ q.deficit_underlying = r.deficit_underlying
              /\ total_liquidity(q) <= total_liquidity(r) - loss_ * ONE
    PROVE  margin(q, d) >= margin(r, d)
<1> DEFINE i == r.borrow_index
           B == residue * i
           L == loss_ * ONE
<1>1. /\ r.total_scaled_borrow \in Nat /\ r.deficit_underlying \in Nat
      /\ r.accrued_reserve \in Nat /\ B \in Nat /\ L \in Nat /\ ONE \in Nat /\ B <= L
      /\ total_liquidity(r) \in Nat /\ total_liquidity(q) \in Nat
      /\ i \in Nat
  BY OneAssumption, UtilizationType DEF Reserve, Amount
<1>2. total_borrow(q) - total_borrow(r) = 0 - B
  <2>1. total_borrow(q) = (r.total_scaled_borrow - residue) * i
    BY DEF total_borrow
  <2> HIDE DEF i
  <2>2. (r.total_scaled_borrow - residue) * i = r.total_scaled_borrow * i - B
    BY <1>1
  <2>3. r.total_scaled_borrow * i \in Nat
    BY <1>1
  <2> HIDE DEF B
  <2> QED
    BY <1>1, <2>1, <2>2, <2>3 DEF total_borrow, i
<1>3. /\ (d - d) * ONE = 0 /\ (q.accrued_reserve - r.accrued_reserve) * ONE = 0
  BY <1>1
<1>4. /\ margin(q, d) - margin(r, d) =
               (d - d) * ONE
             + (total_borrow(q) - total_borrow(r))
             + (q.deficit_underlying - r.deficit_underlying) * ONE
             - (total_liquidity(q) - total_liquidity(r))
             - (q.accrued_reserve - r.accrued_reserve) * ONE
      /\ margin(r, d) \in Int /\ margin(q, d) \in Int
  BY MarginChange
<1>5. CASE q.deficit_underlying = r.deficit_underlying + loss_
           /\ total_liquidity(q) = total_liquidity(r)
  <2>1. (q.deficit_underlying - r.deficit_underlying) * ONE = L
    <3>1. q.deficit_underlying - r.deficit_underlying = loss_
      BY <1>1, <1>5
    <3> QED
      BY <3>1
  <2> HIDE DEF B, L
  <2> QED
    BY <1>1, <1>2, <1>3, <1>4, <1>5, <2>1
<1>6. CASE q.deficit_underlying = r.deficit_underlying
           /\ total_liquidity(q) <= total_liquidity(r) - L
  <2>1. (q.deficit_underlying - r.deficit_underlying) * ONE = 0
    BY <1>1, <1>6
  <2> HIDE DEF B, L
  <2> QED
    BY <1>1, <1>2, <1>3, <1>4, <1>6, <2>1
<1> QED
  BY <1>5, <1>6

\* What a liquidation leaves of the reserve, measured in margin.
LEMMA BooksAfterMargin ==
    ASSUME Inv, NEW f, f.r = accrued,
           f.removed \in Nat, f.repaid \in Nat, f.residue \in Nat, f.bad_debt \in BOOLEAN,
           f.scaled = f.removed + f.residue,
           f.removed * accrued.borrow_index <= f.repaid * ONE,
           books_balance(f), books_after(f) \in Reserve
    PROVE  margin(books_after(f), bank[LENDING] + f.repaid) >= Margin
<1> DEFINE d  == bank[LENDING] + f.repaid
           q1 == [accrued EXCEPT !.total_scaled_borrow = @ - f.removed]
<1>1. /\ accrued \in Reserve /\ accrued.total_scaled_borrow \in Nat
      /\ accrued.borrow_index \in Nat \ {0} /\ bank[LENDING] \in Nat /\ d \in Nat
      /\ f.removed <= accrued.total_scaled_borrow
      /\ f.bad_debt => f.removed + f.residue <= accrued.total_scaled_borrow
  BY AccruedFacts DEF Inv, TypeOK, Amount, Denoms, books_balance
<1>2. margin(q1, d) >= Margin
  BY <1>1, PaidDebtKeepsMargin
<1>3. CASE ~f.bad_debt
  BY <1>2, <1>3 DEF books_after
<1>4. CASE f.bad_debt
  <2> DEFINE rest    == accrued.total_scaled_borrow - (f.removed + f.residue)
             cleared == [accrued EXCEPT !.total_scaled_borrow = rest]
             q2      == books_after(f)
  <2>1. /\ q1 \in Reserve /\ q1.total_scaled_borrow = accrued.total_scaled_borrow - f.removed
        /\ q1.borrow_index = accrued.borrow_index
        /\ q1.deficit_underlying = accrued.deficit_underlying
        /\ q1.accrued_reserve = accrued.accrued_reserve
        /\ q1.liquidity_index = accrued.liquidity_index
        /\ q1.total_scaled_liquidity = accrued.total_scaled_liquidity
    BY <1>1 DEF Reserve, Amount
  <2>2. rest \in Nat /\ rest = q1.total_scaled_borrow - f.residue
    BY <1>1, <1>4, <2>1
  <2> HIDE DEF rest
  <2>3. /\ cleared \in Reserve /\ cleared.total_scaled_borrow = rest
        /\ cleared.borrow_index = accrued.borrow_index
        /\ cleared.deficit_underlying = accrued.deficit_underlying
        /\ cleared.accrued_reserve = accrued.accrued_reserve
        /\ total_liquidity(cleared) = total_liquidity(q1)
    BY <1>1, <2>1, <2>2 DEF Reserve, Amount, total_liquidity
  <2>4. loss(f) \in Nat /\ loss(f) * ONE >= f.residue * accrued.borrow_index
    BY <1>1, UnderlyingIsCovered DEF loss
  <2>5. CASE contract.bad_debt_loss_allocation = DeferredToDeficit
    <3>1. q2 = [cleared EXCEPT !.deficit_underlying = cleared.deficit_underlying + loss(f)]
      BY <1>4, <2>5 DEF books_after, rest
    <3> HIDE DEF cleared
    <3>2. /\ q2.deficit_underlying = q1.deficit_underlying + loss(f)
          /\ q2.total_scaled_borrow = q1.total_scaled_borrow - f.residue
          /\ q2.borrow_index = q1.borrow_index
          /\ q2.accrued_reserve = q1.accrued_reserve
          /\ total_liquidity(q2) = total_liquidity(q1)
      BY <2>1, <2>2, <2>3, <3>1 DEF Reserve, total_liquidity
    <3> HIDE DEF q1, q2, d
    <3>3. margin(q2, d) >= margin(q1, d)
      BY <1>1, <2>1, <2>4, <3>2, WriteOffKeepsMargin DEF q2
    <3> QED
      <4>1. margin(q1, d) \in Int /\ margin(q2, d) \in Int /\ Margin \in Int
        BY <1>1, <2>1, MarginChange DEF q2, Margin
      <4> QED
        BY <1>2, <3>3, <4>1 DEF q2, d
  <2>6. CASE contract.bad_debt_loss_allocation = ImmediateLiquidityIndexHaircut
    <3>1. q2 = apply_pro_rata_liquidity_index_haircut(cleared, loss(f))
      BY <1>4, <2>6 DEF books_after, rest, DeferredToDeficit, ImmediateLiquidityIndexHaircut
    <3>2. ~haircut_fails(cleared, loss(f))
      BY <1>1, <1>4, <2>6, HaircutIgnoresDebt DEF books_balance
    <3>3. Sound(cleared)
      BY AccruedFacts, <1>1, <2>1, <2>2 DEF Sound, Reserve
    <3> HIDE DEF cleared
    <3>4. /\ total_liquidity(q2) <= total_liquidity(cleared) - loss(f) * ONE
          /\ q2 = [cleared EXCEPT !.liquidity_index = q2.liquidity_index]
      BY <2>3, <2>4, <3>1, <3>2, <3>3, HaircutTakesTheLoss, HaircutKeepsReserve
    <3> HIDE DEF q2
    <3>5. /\ q2.deficit_underlying = q1.deficit_underlying
          /\ q2.total_scaled_borrow = q1.total_scaled_borrow - f.residue
          /\ q2.borrow_index = q1.borrow_index
          /\ q2.accrued_reserve = q1.accrued_reserve
          /\ total_liquidity(q2) <= total_liquidity(q1) - loss(f) * ONE
      BY <2>1, <2>2, <2>3, <3>4 DEF Reserve
    <3> HIDE DEF q1, d
    <3>6. margin(q2, d) >= margin(q1, d)
      BY <1>1, <2>1, <2>4, <3>5, WriteOffKeepsMargin DEF q2
    <3> QED
      <4>1. margin(q1, d) \in Int /\ margin(q2, d) \in Int /\ Margin \in Int
        BY <1>1, <2>1, MarginChange DEF q2, Margin
      <4> QED
        BY <1>2, <3>6, <4>1 DEF q2, d
  <2>7. contract.bad_debt_loss_allocation \in {DeferredToDeficit, ImmediateLiquidityIndexHaircut}
    BY DEF Inv, TypeOK, Config
  <2> QED
    BY <2>5, <2>6, <2>7
<1> QED
  BY <1>3, <1>4

\* Nor does a liquidation: what it forgives is booked as a loss.
LEMMA LiquidateMargin ==
    ASSUME Inv, Inv', NEW s \in Operators, NEW b \in Borrowers,
           NEW seize \in [Collaterals -> Nat], NEW sent \in Nat,
           Liquidate(s, b, seize, sent)
    PROVE  now' = now /\ Margin' >= Margin
<1> DEFINE f == figures(b, seize, sent)
<1>1. /\ f.r = accrued
      /\ f.scaled \in Nat /\ f.repaid \in Nat /\ f.removed \in Nat
      /\ f.residue = f.scaled - f.removed
      /\ f.bad_debt \in BOOLEAN
  BY FiguresFacts
<1>2. /\ f.residue >= 0
      /\ books_balance(f)
      /\ reserve' = books_after(f)
      /\ bank' = [d \in Denoms |-> IF d = LENDING THEN bank[d] + f.repaid
                                   ELSE bank[d] - outgoing(f)[d]]
      /\ now' = now
  BY DEF Liquidate, can_liquidate, world_vars
<1>3. f.removed * accrued.borrow_index <= f.repaid * ONE
  BY StoredTypes, RepaymentCovers DEF figures
<1> HIDE DEF f
<1>4. f.residue \in Nat /\ f.scaled = f.removed + f.residue
  BY <1>1, <1>2
<1>5. books_after(f) \in Reserve
  BY <1>2 DEF Inv, TypeOK
<1>6. bank'[LENDING] = bank[LENDING] + f.repaid
  BY <1>2 DEF Denoms
<1>7. reserve'.last_updated_at = accrued.last_updated_at
  <2>1. /\ accrued \in Reserve /\ Sound(accrued)
        /\ contract.bad_debt_loss_allocation
             \in {DeferredToDeficit, ImmediateLiquidityIndexHaircut}
    BY AccruedFacts DEF Inv, TypeOK, Config
  <2>2. /\ (IF f.bad_debt THEN f.scaled ELSE f.removed) <= f.r.total_scaled_borrow
        /\ f.bad_debt /\ contract.bad_debt_loss_allocation = ImmediateLiquidityIndexHaircut
               => ~haircut_fails(f.r, loss(f))
    BY <1>1, <1>2 DEF books_balance
  <2> QED
    BY <1>1, <1>2, <1>4, <2>1, <2>2, BooksAfterFacts
<1>8. accrued' = reserve'
  BY <1>2, <1>7, AccruedAfter
<1>9. margin(books_after(f), bank[LENDING] + f.repaid) >= Margin
  BY <1>1, <1>2, <1>3, <1>4, <1>5, BooksAfterMargin
<1> QED
  BY <1>2, <1>6, <1>8, <1>9 DEF Margin

\* Nor does sharing a slice of the deficit: the lenders lose what the deficit
\* gives up.
LEMMA SocializeMargin ==
    ASSUME Inv, Inv', NEW s \in Operators, NEW x \in Nat, SocializeDeficit(s, x)
    PROVE  now' = now /\ Margin' >= Margin
<1> DEFINE amount == lesser(x, accrued.deficit_underlying)
           h == apply_pro_rata_liquidity_index_haircut(accrued, amount)
           c == bank[LENDING]
<1>1. /\ amount \in Nat /\ accrued.deficit_underlying - amount \in Nat /\ c \in Nat
      /\ accrued \in Reserve /\ Sound(accrued)
  BY AccruedFacts DEF lesser, Inv, TypeOK, Amount, Denoms
<1>2. /\ ~haircut_fails(accrued, amount)
      /\ reserve' = [h EXCEPT !.deficit_underlying = @ - amount]
      /\ bank' = bank /\ now' = now
  BY DEF SocializeDeficit, world_vars
<1> HIDE DEF amount
<1>3. /\ h \in Reserve
      /\ h = [accrued EXCEPT !.liquidity_index = h.liquidity_index]
      /\ total_liquidity(h) <= total_liquidity(accrued) - amount * ONE
  BY <1>1, <1>2, HaircutKeepsReserve, HaircutTakesTheLoss
<1> HIDE DEF h
<1>4. PICK q : q = reserve'
  OBVIOUS
<1>5. /\ q \in Reserve
      /\ q.deficit_underlying = accrued.deficit_underlying - amount
      /\ q.accrued_reserve = accrued.accrued_reserve
      /\ total_borrow(q) = total_borrow(accrued)
      /\ total_liquidity(q) = total_liquidity(h)
      /\ q.last_updated_at = accrued.last_updated_at
  BY <1>1, <1>2, <1>3, <1>4 DEF Reserve, Amount, total_borrow, total_liquidity
<1>6. accrued' = q
  BY <1>2, <1>4, <1>5, AccruedAfter
<1>7. margin(q, c) >= margin(accrued, c)
  <2>1. /\ accrued.deficit_underlying \in Nat /\ accrued.accrued_reserve \in Nat
        /\ total_liquidity(accrued) \in Nat /\ total_liquidity(h) \in Nat
        /\ total_borrow(accrued) \in Nat /\ amount * ONE \in Nat
    BY <1>1, <1>3, UtilizationType, OneAssumption DEF Reserve, Amount
  <2>2. /\ (c - c) * ONE = 0
        /\ (q.accrued_reserve - accrued.accrued_reserve) * ONE = 0
        /\ (q.deficit_underlying - accrued.deficit_underlying) * ONE = 0 - amount * ONE
    <3>1. /\ c - c = 0 /\ q.accrued_reserve - accrued.accrued_reserve = 0
          /\ q.deficit_underlying - accrued.deficit_underlying = 0 - amount
      BY <1>1, <1>5, <2>1
    <3> QED
      BY <1>1, <3>1, OneAssumption
  <2>3. /\ margin(q, c) - margin(accrued, c) =
                 (c - c) * ONE
               + (total_borrow(q) - total_borrow(accrued))
               + (q.deficit_underlying - accrued.deficit_underlying) * ONE
               - (total_liquidity(q) - total_liquidity(accrued))
               - (q.accrued_reserve - accrued.accrued_reserve) * ONE
        /\ margin(accrued, c) \in Int /\ margin(q, c) \in Int
    BY <1>1, <1>5, MarginChange
  <2> HIDE DEF c
  <2> QED
    BY <1>3, <1>5, <2>1, <2>2, <2>3
<1> QED
  BY <1>2, <1>6, <1>7 DEF Margin

\* Nor does any message about the reserve.
LEMMA ReserveMargin ==
    ASSUME Inv, Inv', ReserveStep
    PROVE  now' = now /\ Margin' >= Margin
<1> DEFINE c == bank[LENDING]
           fees == accrued.accrued_reserve
           deficit == accrued.deficit_underlying
<1>1. /\ Inputs.reliefs \subseteq Nat /\ Inputs.donations \subseteq Nat
      /\ accrued \in Reserve /\ fees \in Nat /\ deficit \in Nat /\ c \in Nat
      /\ bank \in [Denoms -> Nat] /\ LENDING \in Denoms
  BY InputsAssumption, AccruedFacts DEF Amount, Denoms, Inv, TypeOK
<1>2. CASE \E s \in Operators, x \in Inputs.reliefs : EliminateDeficitFromReserve(s, x)
  <2>1. PICK x \in Nat :
            LET clear == lesser(lesser(deficit, x), fees)
            IN  reserve' = [accrued EXCEPT !.deficit_underlying = @ - clear,
                                           !.accrued_reserve = @ - clear]
    BY <1>1, <1>2 DEF EliminateDeficitFromReserve
  <2> DEFINE clear == lesser(lesser(deficit, x), fees)
  <2>2. clear \in Nat /\ deficit - clear \in Nat /\ fees - clear \in Nat
    BY <1>1 DEF lesser
  <2> HIDE DEF clear
  <2>3. /\ reserve' = [accrued EXCEPT !.accrued_reserve = fees - clear,
                                      !.deficit_underlying = deficit - clear]
        /\ now' = now /\ bank' = bank
    BY <1>2, <2>1 DEF clear, EliminateDeficitFromReserve, world_vars, Reserve
  <2>4. bank' = [bank EXCEPT ![LENDING] = c]
    BY <1>1, <2>3
  <2>5. c + (deficit - clear) + fees >= c + deficit + (fees - clear)
    BY <1>1, <2>2
  <2> QED
    BY <1>1, <2>2, <2>3, <2>4, <2>5, LossKeepsMargin
<1>3. CASE \E s \in Operators, x \in Inputs.reliefs, y \in Inputs.reliefs :
               EliminateDeficitFromBank(s, x, y)
  <2>1. PICK x \in Nat, y \in Nat :
            LET applied == lesser(lesser(deficit, x), y)
            IN  /\ reserve' = [accrued EXCEPT !.deficit_underlying = @ - applied]
                /\ bank' = [bank EXCEPT ![LENDING] = @ + applied]
    BY <1>1, <1>3 DEF EliminateDeficitFromBank
  <2> DEFINE applied == lesser(lesser(deficit, x), y)
  <2>2. applied \in Nat /\ deficit - applied \in Nat
    BY <1>1 DEF lesser
  <2> HIDE DEF applied
  <2>3. /\ reserve' = [accrued EXCEPT !.accrued_reserve = fees,
                                      !.deficit_underlying = deficit - applied]
        /\ bank' = [bank EXCEPT ![LENDING] = c + applied]
        /\ now' = now
    BY <1>1, <1>3, <2>1 DEF applied, EliminateDeficitFromBank, world_vars, Reserve
  <2>4. (c + applied) + (deficit - applied) + fees >= c + deficit + fees /\ c + applied \in Nat
    BY <1>1, <2>2
  <2> QED
    BY <1>1, <2>2, <2>3, <2>4, LossKeepsMargin
<1>4. CASE \E s \in Operators, x \in Inputs.reliefs : SocializeDeficit(s, x)
  BY <1>1, <1>4, SocializeMargin
<1>5. CASE \E s \in Operators : WithdrawReserve(s)
  <2> DEFINE free   == saturating_sub(c + borrow_u128(accrued), liquidity_u128(accrued))
             backed == lesser(fees, free)
             pay    == lesser(backed, c)
  <2>1. free \in Nat
    <3>1. borrow_u128(accrued) \in Nat /\ liquidity_u128(accrued) \in Nat
      BY AccruedFacts, ConversionTypes DEF borrow_u128, liquidity_u128
    <3> QED
      BY <1>1, <3>1 DEF saturating_sub
  <2> HIDE DEF free
  <2>2. backed \in Nat /\ backed <= fees
    BY <1>1, <2>1 DEF lesser
  <2> HIDE DEF backed
  <2>3. pay \in Nat /\ backed - pay \in Nat /\ c - pay \in Nat
    BY <1>1, <2>2 DEF lesser
  <2>4. /\ reserve' = [accrued EXCEPT !.accrued_reserve = backed - pay]
        /\ bank' = [bank EXCEPT ![LENDING] = c - pay]
        /\ now' = now
    BY <1>5 DEF WithdrawReserve, world_vars, free, backed
  <2> HIDE DEF pay
  <2>5. reserve' = [accrued EXCEPT !.accrued_reserve = backed - pay,
                                   !.deficit_underlying = deficit]
    BY <1>1, <2>4 DEF Reserve
  <2>6. (c - pay) + deficit + fees >= c + deficit + (backed - pay)
    BY <1>1, <2>2, <2>3
  <2> QED
    BY <1>1, <2>3, <2>4, <2>5, <2>6, LossKeepsMargin
<1>6. CASE \E s \in Operators, p \in Inputs.curves : UpdateRateParams(s, p)
  BY <1>6, AccrualKeepsMargin DEF UpdateRateParams, world_vars
<1>7. CASE \E x \in Inputs.donations : Donate(x)
  <2>1. PICK x \in Nat : Donate(x)
    BY <1>1, <1>7
  <2>2. bank'[LENDING] >= bank[LENDING]
    BY <1>1, <2>1 DEF Donate
  <2> QED
    BY <2>1, <2>2, IdleKeepsMargin DEF Donate, world_vars, config_vars
<1> QED
  BY <1>2, <1>3, <1>4, <1>5, <1>6, <1>7 DEF ReserveStep

-----------------------------------------------------------------------------
\* Within a block no message spends the margin, but for what a loan's debt
\* loses to truncation.
LEMMA MarginStep ==
    ASSUME Inv, [Next]_vars, now' = now
    PROVE  \/ Margin' >= Margin
           \/ /\ \E b \in Borrowers, x \in Inputs.borrows : Borrow(b, x)
              /\ ONE * (Margin - Margin') < accrued.borrow_index
<1>1. Inv' /\ bank[LENDING] \in Nat
  BY NextInv DEF Inv, TypeOK, Amount, Denoms
<1>2. CASE LiquidationStep
  <2>1. Inputs.seizures \subseteq [Collaterals -> Nat] /\ Inputs.payments \subseteq Nat
    BY InputsAssumption DEF Amount
  <2> QED
    BY <1>1, <1>2, <2>1, LiquidateMargin DEF LiquidationStep
<1>3. CASE GovernanceStep
  <2>1. contract'.rate_params = contract.rate_params /\ reserve' = reserve
    BY <1>3, GovernanceStepKind DEF Waits
  <2>2. bank' = bank
    BY <1>3 DEF GovernanceStep, UpdateContractConfig, UpdateSupportedCollateral,
                SetOperationalState, SetLenderRequiredAttrs, SetBorrowerRequiredAttrs,
                SetLenderRequireCommitOnExit, SetBorrowerRequireCommit, TransferOwnership,
                AcceptOwnership, ChangeContract, ChangeOwnership, BooksUnchanged
  <2> QED
    BY <1>1, <2>1, <2>2, IdleKeepsMargin
<1>4. CASE WorldStep
  <2>1. reserve' = reserve /\ contract' = contract /\ bank' = bank
    BY <1>4 DEF WorldStep, Tick, PostPrice, config_vars
  <2> QED
    BY <1>1, <2>1, IdleKeepsMargin
<1>5. CASE UNCHANGED vars
  <2>1. reserve' = reserve /\ contract' = contract /\ bank' = bank
    BY <1>5 DEF vars
  <2> QED
    BY <1>1, <2>1, IdleKeepsMargin
<1> QED
  BY <1>1, <1>2, <1>3, <1>4, <1>5, LenderMargin, BorrowerMargin, ReserveMargin DEF Next

\* No message spends what the pool holds beyond its obligations, except the
\* part of a unit a borrowing rounds away.
THEOREM MarginIsKept == Spec => MarginNeverSpent
<1>1. Inv /\ [Next]_vars
        => [ now' = now =>
               \/ Margin' >= Margin
               \/ /\ \E b \in Borrowers, x \in Inputs.borrows : Borrow(b, x)
                  /\ ONE * (Margin - Margin') < accrued.borrow_index ]_vars
  BY MarginStep
<1> QED
  BY <1>1, InvIsInvariant, PTL DEF Spec, MarginNeverSpent

-----------------------------------------------------------------------------
\* Coins and fees fall together only in WithdrawReserve: whatever else pays
\* coins out leaves the fees as accrued.
LEMMA FeesAreWithdrawn ==
    ASSUME Inv, [Next]_vars, bank'[LENDING] < bank[LENDING],
           accrued'.accrued_reserve < accrued.accrued_reserve
    PROVE  \E s \in Operators : WithdrawReserve(s)
<1>1. /\ Inv' /\ accrued \in Reserve /\ accrued.accrued_reserve \in Nat
      /\ bank[LENDING] \in Nat /\ bank'[LENDING] \in Nat
      /\ LENDING \in Denoms /\ LENDING \notin Collaterals
  BY NextInv, AccruedFacts, PricingAssumption DEF Inv, TypeOK, Amount, Denoms
<1>2. ~(bank' = bank) /\ ~(bank'[LENDING] = bank[LENDING])
  BY <1>1
<1>3. ASSUME NEW n, now' = now, reserve' = [accrued EXCEPT !.total_scaled_liquidity = n] PROVE FALSE
  <2>1. /\ reserve'.last_updated_at = accrued.last_updated_at
        /\ reserve'.accrued_reserve = accrued.accrued_reserve
    BY <1>1, <1>3 DEF Reserve
  <2>2. accrued' = reserve'
    BY <1>1, <1>3, <2>1, AccruedAfter
  <2>3. accrued'.accrued_reserve = accrued.accrued_reserve
    BY <2>1, <2>2
  <2> QED
    BY <1>1, <2>3
<1>4. ASSUME NEW n, now' = now, reserve' = [accrued EXCEPT !.total_scaled_borrow = n] PROVE FALSE
  <2>1. /\ reserve'.last_updated_at = accrued.last_updated_at
        /\ reserve'.accrued_reserve = accrued.accrued_reserve
    BY <1>1, <1>4 DEF Reserve
  <2>2. accrued' = reserve'
    BY <1>1, <1>4, <2>1, AccruedAfter
  <2>3. accrued'.accrued_reserve = accrued.accrued_reserve
    BY <2>1, <2>2
  <2> QED
    BY <1>1, <2>3
<1>5. ASSUME NEW x \in Nat, bank' = [bank EXCEPT ![LENDING] = @ + x] PROVE FALSE
  BY <1>1, <1>5 DEF Inv, TypeOK
<1>6. ASSUME LenderStep PROVE FALSE
  <2>1. CASE \E l \in Lenders, x \in Inputs.lends : Lend(l, x)
    BY <1>5, <2>1, InputsAssumption DEF Lend, Amount
  <2>2. ASSUME NEW n, NEW x, PayOutLiquidity(accrued, n, x), now' = now PROVE FALSE
    BY <1>3, <2>2 DEF PayOutLiquidity
  <2>3. CASE \E s \in Operators, l \in Lenders, x \in Inputs.redemptions, c \in Inputs.commits :
                 Withdraw(s, l, x, c)
    BY <2>2, <2>3 DEF Withdraw, world_vars
  <2>4. CASE \E l \in Lenders, u \in Inputs.units, c \in Inputs.commits : WithdrawExact(l, u, c)
    BY <2>2, <2>4 DEF WithdrawExact, WithdrawUnits, world_vars
  <2>5. CASE \E l \in Lenders, u \in Inputs.units, x \in Inputs.requests, c \in Inputs.commits :
                 WithdrawCw20(l, u, x, c)
    BY <2>2, <2>5 DEF WithdrawCw20, WithdrawUnits, world_vars
  <2>6. CASE \E l \in Lenders, u \in Inputs.units, m \in Inputs.recipients :
                 TransferExact(l, u, m)
    BY <1>2, <2>6 DEF TransferExact, ForwardUnits
  <2>7. CASE \E l \in Lenders, u \in Inputs.units, m \in Inputs.recipients,
                x \in Inputs.requests : TransferCw20(l, u, m, x)
    BY <1>2, <2>7 DEF TransferCw20, ForwardUnits
  <2> QED
    BY <1>6, <2>1, <2>3, <2>4, <2>5, <2>6, <2>7 DEF LenderStep
<1>7. ASSUME BorrowerStep PROVE FALSE
  <2>1. CASE \E b \in Borrowers, x \in Inputs.borrows : Borrow(b, x)
    BY <1>4, <2>1 DEF Borrow, world_vars
  <2>2. CASE \E b \in Borrowers, x \in Inputs.repayments : Repay(b, x)
    <3>1. PICK b \in Borrowers, x \in Nat : Repay(b, x)
      BY <2>2, InputsAssumption DEF Amount
    <3> DEFINE repaid == lesser(x, scaled_to_underlying_borrow_ceil(scaled_borrow[b],
                                                                    accrued.borrow_index))
    <3>2. repaid \in Nat
      BY StoredTypes, PayoffTypes
    <3>3. bank' = [bank EXCEPT ![LENDING] = @ + repaid]
      BY <3>1 DEF Repay
    <3> HIDE DEF repaid
    <3> QED
      BY <1>5, <3>2, <3>3
  <2>3. CASE \E b \in Borrowers, coins \in Inputs.deposits : AddCollateral(b, coins)
    BY <1>1, <1>2, <2>3 DEF AddCollateral, held_types
  <2>4. CASE \E b \in Borrowers, coins \in Inputs.removals : RemoveCollateral(b, coins)
    BY <1>1, <1>2, <2>4 DEF RemoveCollateral, held_types
  <2>5. CASE \E b \in Borrowers, delta \in Inputs.sales, t \in Inputs.deadlines,
                v \in 1 .. MaxVersion : AdjustDirectedCollateralSale(b, delta, t, v)
    BY <1>2, <2>5 DEF AdjustDirectedCollateralSale
  <2> QED
    BY <1>7, <2>1, <2>2, <2>3, <2>4, <2>5 DEF BorrowerStep
<1>8. ASSUME LiquidationStep PROVE FALSE
  <2>1. PICK s \in Operators, b \in Borrowers, z \in [Collaterals -> Nat], x \in Nat :
                 Liquidate(s, b, z, x)
    BY <1>8, InputsAssumption DEF LiquidationStep, Amount
  <2>2. figures(b, z, x).repaid \in Nat
    BY FiguresFacts
  <2>3. bank'[LENDING] = bank[LENDING] + figures(b, z, x).repaid
    BY <1>1, <2>1 DEF Liquidate
  <2> QED
    BY <1>1, <2>2, <2>3
<1>9. ASSUME GovernanceStep PROVE FALSE
  <2>1. bank' = bank
    BY <1>9 DEF GovernanceStep, UpdateContractConfig, UpdateSupportedCollateral,
                SetOperationalState, SetLenderRequiredAttrs, SetBorrowerRequiredAttrs,
                SetLenderRequireCommitOnExit, SetBorrowerRequireCommit, TransferOwnership,
                AcceptOwnership, ChangeContract, ChangeOwnership, BooksUnchanged
  <2> QED
    BY <1>2, <2>1
<1>10. ~WorldStep /\ ~UNCHANGED vars
  BY <1>2 DEF WorldStep, Tick, PostPrice, vars
<1>11. ASSUME ReserveStep PROVE \E s \in Operators : WithdrawReserve(s)
  <2>1. ASSUME NEW s \in Operators, NEW x \in Inputs.reliefs, NEW y \in Inputs.reliefs,
               EliminateDeficitFromBank(s, x, y)
        PROVE FALSE
    <3> DEFINE applied == lesser(lesser(accrued.deficit_underlying, x), y)
    <3>1. applied \in Nat
      BY AccruedFacts, InputsAssumption DEF lesser, Amount
    <3>2. bank' = [bank EXCEPT ![LENDING] = @ + applied]
      BY <2>1 DEF EliminateDeficitFromBank
    <3> HIDE DEF applied
    <3> QED
      BY <1>5, <3>1, <3>2
  <2>2. ~\E s \in Operators, x \in Inputs.reliefs : \/ EliminateDeficitFromReserve(s, x)
                                                     \/ SocializeDeficit(s, x)
    BY <1>2 DEF EliminateDeficitFromReserve, SocializeDeficit
  <2>3. ~\E s \in Operators, p \in Inputs.curves : UpdateRateParams(s, p)
    BY <1>2 DEF UpdateRateParams
  <2>4. ~\E x \in Inputs.donations : Donate(x)
    BY <1>5, InputsAssumption DEF Donate, Amount
  <2> QED
    BY <1>11, <2>1, <2>2, <2>3, <2>4 DEF ReserveStep
<1> QED
  BY <1>6, <1>7, <1>8, <1>9, <1>10, <1>11 DEF Next

\* Coins that leave while the fees fall leave what the lenders are owed
\* covered.
LEMMA FeesStep ==
    ASSUME Inv, [Next]_vars, bank'[LENDING] < bank[LENDING],
           accrued'.accrued_reserve < accrued.accrued_reserve
    PROVE  bank'[LENDING] + borrow_u128(accrued') >= liquidity_u128(accrued')
<1> DEFINE c    == bank[LENDING]
           B    == borrow_u128(accrued)
           L    == liquidity_u128(accrued)
           free == saturating_sub(c + B, L)
           backed == lesser(accrued.accrued_reserve, free)
           pay    == lesser(backed, c)
<1>1. PICK s \in Operators : WithdrawReserve(s)
  BY FeesAreWithdrawn
<1>2. /\ Inv' /\ accrued \in Reserve /\ accrued.accrued_reserve \in Nat
      /\ c \in Nat /\ B \in Nat /\ L \in Nat
  BY NextInv, AccruedFacts, ConversionTypes
  DEF Inv, TypeOK, Amount, Denoms, borrow_u128, liquidity_u128
<1>3. /\ now' = now
      /\ reserve' = [accrued EXCEPT !.accrued_reserve = backed - pay]
      /\ bank' = [bank EXCEPT ![LENDING] = @ - pay]
      /\ pay > 0
  BY <1>1 DEF WithdrawReserve, world_vars, can_send
<1>4. pay \in Nat /\ pay <= free /\ free \in Nat
  <2> HIDE DEF B, L, c
  <2>1. free \in Nat
    BY <1>2 DEF saturating_sub
  <2> HIDE DEF free
  <2> QED
    BY <1>2, <2>1 DEF lesser
<1> HIDE DEF pay, backed
<1>5. c + B - L >= pay
  <2> HIDE DEF B, L, c, free
  <2>1. free = IF c + B >= L THEN c + B - L ELSE 0
    BY <1>2 DEF free, saturating_sub
  <2> QED
    BY <1>2, <1>3, <1>4, <2>1
<1>6. bank'[LENDING] = c - pay
  BY <1>3 DEF Inv, TypeOK, Denoms
<1>7. /\ reserve'.last_updated_at = accrued.last_updated_at
      /\ borrow_u128(reserve') = B /\ liquidity_u128(reserve') = L
  BY <1>2, <1>3 DEF Reserve, borrow_u128, liquidity_u128
<1>8. accrued' = reserve'
  BY <1>2, <1>3, <1>7, AccruedAfter
<1> HIDE DEF B, L, c
<1> QED
  BY <1>2, <1>4, <1>5, <1>6, <1>7, <1>8

\* Fees are paid only from what coins and loans hold above the lenders'
\* claims.
THEOREM FeesAreNotPrincipal == Spec => FeesNeverEatPrincipal
<1>1. Inv /\ [Next]_vars
        => [ accrued'.accrued_reserve < accrued.accrued_reserve /\ bank'[LENDING] < bank[LENDING]
               => bank'[LENDING] + borrow_u128(accrued)' >= liquidity_u128(accrued)' ]_vars
  BY FeesStep DEF borrow_u128, liquidity_u128
<1> QED
  BY <1>1, InvIsInvariant, PTL DEF Spec, FeesNeverEatPrincipal

-----------------------------------------------------------------------------

\* Accruing costs the pool at most what truncating the borrow side loses.
LEMMA AccrualCost ==
    ASSUME NEW r \in Reserve, Sound(r), NEW at \in Nat, NEW c \in Nat,
           NEW p \in RateParams, valid_rate_params(p)
    PROVE  ONE * (margin(r, c) - margin(compute_effective_reserve(r, at, p), c))
             <= ONE * r.total_scaled_borrow + total_borrow(r)
<1> DEFINE e   == time_elapsed(r.last_updated_at, at)
           q   == compute_effective_reserve(r, at, p)
           L   == total_liquidity(r)
           B   == total_borrow(r)
           s   == r.total_scaled_borrow
           gl  == checked_mul(lender_rate(r, p), time_fraction(e))
           gb  == checked_mul(borrower_rate(r, p), time_fraction(e))
           fee == protocol_fee(r, p, e)
           bi  == r.borrow_index
           li  == r.liquidity_index
           tsl == r.total_scaled_liquidity
           M   == margin(r, c) - margin(q, c)
<1>1. /\ r.last_updated_at \in Nat /\ bi \in Nat /\ li \in Nat /\ s \in Nat /\ tsl \in Nat
      /\ L \in Nat /\ B \in Nat /\ r.accrued_reserve \in Nat /\ r.deficit_underlying \in Nat
      /\ L = tsl * li /\ B = s * bi
  BY UtilizationType DEF Reserve, Atomics, Amount, total_liquidity, total_borrow
<1>2. e \in Nat
  BY <1>1, DecimalTypes DEF time_elapsed
<1>3. /\ gl \in Nat /\ gb \in Nat /\ fee \in Nat
      /\ L * gl + ONE * (ONE * fee) <= B * gb + B
  BY <1>2, InterestIsFunded
<1>4. q \in Reserve
  BY AccrualKeepsReserve
<1>5. CASE e = 0
  <2>1. q = r
    BY <1>5 DEF compute_effective_reserve
  <2>2. margin(r, c) \in Int
    BY MarginChange
  <2>3. M = 0
    BY <2>1, <2>2
  <2> HIDE DEF M
  <2> QED
    BY <1>1, <2>3, OneAssumption DEF M
<1>6. CASE e # 0
  <2> DEFINE lj == checked_mul(li, ONE + gl)
             bj == checked_mul(bi, ONE + gb)
  <2>1. q = [r EXCEPT !.liquidity_index = lj, !.borrow_index = bj,
                      !.last_updated_at = at, !.accrued_reserve = @ + fee]
    BY <1>6 DEF compute_effective_reserve, index_growth_factor
  <2> HIDE DEF lj, bj
  <2>2. /\ total_liquidity(q) = tsl * lj /\ total_borrow(q) = s * bj
        /\ q.accrued_reserve = r.accrued_reserve + fee
        /\ q.deficit_underlying = r.deficit_underlying
    BY <2>1 DEF total_liquidity, total_borrow, Reserve
  <2> HIDE DEF e, q, L, B, s, gl, gb, fee, bi, li, tsl
  <2>3. lj \in Nat /\ ONE * (tsl * lj) <= tsl * (li * (ONE + gl))
    <3>1. ONE + gl \in Nat
      BY <1>3, OneAssumption
    <3> QED
      BY <1>1, <3>1, TruncatedShare DEF lj
  <2>4. tsl * (li * (ONE + gl)) = ONE * L + L * gl
    BY <1>1, <1>3, OneAssumption
  <2>5. bj \in Nat /\ bi * (ONE + gb) <= ONE * bj + ONE
    <3> DEFINE w == bi * (ONE + gb)
    <3>1. w \in Nat /\ bj = w \div ONE
      BY <1>1, <1>3, OneAssumption DEF bj, checked_mul
    <3> HIDE DEF w
    <3>2. bj \in Nat /\ w < ONE * bj + ONE
      BY <3>1, OneAssumption, DivisionBounds
    <3> QED
      BY <3>1, <3>2, OneAssumption DEF w
  <2>6. ONE * B + B * gb <= ONE * (s * bj) + ONE * s
    <3> DEFINE m == bi * (ONE + gb)
               n == ONE * bj + ONE
    <3>1. m \in Nat /\ n \in Nat /\ m <= n
      BY <1>1, <1>3, <2>5, OneAssumption
    <3> HIDE DEF m, n
    <3>2. s * m <= s * n
      BY <1>1, <3>1, ProductMonotone
    <3>3. s * m = ONE * B + B * gb
      BY <1>1, <1>3, OneAssumption DEF m
    <3>4. s * n = ONE * (s * bj) + ONE * s
      BY <1>1, <2>5, OneAssumption DEF n
    <3> QED
      BY <3>2, <3>3, <3>4
  <2> DEFINE X == tsl * lj
             Y == s * bj
  <2>7. X \in Nat /\ Y \in Nat
    BY <1>1, <2>3, <2>5
  <2>8. M = B - Y + X - L + ONE * fee
    <3>1. /\ margin(q, c) - margin(r, c) =
                   (c - c) * ONE
                 + (total_borrow(q) - total_borrow(r))
                 + (q.deficit_underlying - r.deficit_underlying) * ONE
                 - (total_liquidity(q) - total_liquidity(r))
                 - (q.accrued_reserve - r.accrued_reserve) * ONE
          /\ margin(r, c) \in Int /\ margin(q, c) \in Int
      BY <1>4, MarginChange
    <3>2. /\ c - c = 0 /\ q.deficit_underlying - r.deficit_underlying = 0
          /\ q.accrued_reserve - r.accrued_reserve = fee
      BY <1>1, <1>3, <2>2
    <3>3. (c - c) * ONE = 0 /\ (q.deficit_underlying - r.deficit_underlying) * ONE = 0
      BY <3>2, OneAssumption
    <3>4. (q.accrued_reserve - r.accrued_reserve) * ONE = ONE * fee /\ ONE * fee \in Nat
      BY <1>3, <3>2, OneAssumption
    <3>5. total_borrow(q) = Y /\ total_liquidity(q) = X /\ total_borrow(r) = B
          /\ total_liquidity(r) = L
      BY <2>2 DEF B, L
    <3> DEFINE mr == margin(r, c)
               mq == margin(q, c)
               z  == ONE * fee
    <3>6. /\ mq - mr = 0 + (Y - B) + 0 - (X - L) - z
          /\ mr \in Int /\ mq \in Int /\ z \in Nat
      BY <3>1, <3>3, <3>4, <3>5
    <3> HIDE DEF X, Y, mr, mq, z
    <3>7. mr - mq = B - Y + X - L + z
      BY <1>1, <2>7, <3>6
    <3> QED
      BY <3>7 DEF M, mr, mq, z
  <2>9. ONE * M = ONE * B - ONE * Y + ONE * X - ONE * L + ONE * (ONE * fee)
    <3> DEFINE z == ONE * fee
    <3>1. z \in Nat
      BY <1>3, OneAssumption
    <3> HIDE DEF X, Y, z, M
    <3>2. M = B - Y + X - L + z
      BY <2>8 DEF z
    <3>3. \A a \in Nat, b \in Nat, f \in Nat, g \in Nat :
              ONE * (a - b + f - g + z) = ONE * a - ONE * b + ONE * f - ONE * g + ONE * z
      BY <3>1, OneAssumption
    <3>4. ONE * (B - Y + X - L + z) = ONE * B - ONE * Y + ONE * X - ONE * L + ONE * z
      BY <1>1, <2>7, <3>3
    <3> QED
      BY <3>2, <3>4 DEF z
  <2> DEFINE a1 == ONE * X
             a2 == ONE * L
             a3 == L * gl
             a4 == ONE * B
             a5 == B * gb
             a6 == ONE * Y
             a7 == ONE * s
             a8 == ONE * (ONE * fee)
  <2>10. /\ a1 \in Nat /\ a2 \in Nat /\ a3 \in Nat /\ a4 \in Nat /\ a5 \in Nat /\ a6 \in Nat
         /\ a7 \in Nat /\ a8 \in Nat
    BY <1>1, <1>3, <2>7, OneAssumption
  <2>11. /\ a1 <= a2 + a3 /\ a4 + a5 <= a6 + a7 /\ a3 + a8 <= a5 + B
         /\ ONE * M = a4 - a6 + a1 - a2 + a8
    BY <1>3, <2>3, <2>4, <2>6, <2>9
  <2> HIDE DEF a1, a2, a3, a4, a5, a6, a7, a8, M
  <2>12. ONE * M <= a7 + B
    BY <1>1, <2>10, <2>11
  <2> QED
    BY <2>12 DEF M, a7, q, B, s
<1> QED
  BY <1>5, <1>6

\* Accrual pays for itself, in every state the pool can reach.
THEOREM AccrualPaysForItself == Spec => []AccrualIsFunded
<1>1. ASSUME Inv PROVE AccrualIsFunded
  <2>1. /\ reserve \in Reserve /\ Sound(reserve) /\ now \in Nat /\ bank[LENDING] \in Nat
        /\ contract.rate_params \in RateParams /\ valid_rate_params(contract.rate_params)
    BY <1>1 DEF Inv, TypeOK, Config, Amount, Denoms
  <2> QED
    BY <2>1, AccrualCost DEF AccrualIsFunded, Margin, accrued
<1> QED
  BY <1>1, InvIsInvariant, PTL
=============================================================================
