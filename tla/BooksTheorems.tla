--------------------------- MODULE BooksTheorems ---------------------------
(***************************************************************************)
(* What one transaction does to the books.  Every message changes the      *)
(* units of one lender or passes units between two, or the debt of one     *)
(* borrower, or the collateral of one borrower, and the totals by the same *)
(* amounts (BookStep).  From that follow that the books agree, that debt   *)
(* stays secured, that the pool is the lending book its users reason with, *)
(* that a flagged lender cannot pass units on, and that a seizure has its  *)
(* cause and its price.                                                    *)
(***************************************************************************)
EXTENDS PoolStepTheorems, SumTheorems

\* The parts of a transaction, by what they touch.
Minted(l, n) == token' = mint(token, l, n)
Burned(l, n) == token.balances[l] >= n /\ token' = apply_burn(token, l, n)
Passed(l, m, n) == l # m /\ token.balances[l] >= n /\ token' = move(token, l, m, n)
SupplyKept == token' = token

DebtSet(b, debt) ==
    /\ scaled_borrow' = [scaled_borrow EXCEPT ![b] = debt]
    /\ reserve'.total_scaled_borrow =
           reserve.total_scaled_borrow + (debt - scaled_borrow[b])

DebtKept ==
    /\ scaled_borrow' = scaled_borrow
    /\ reserve'.total_scaled_borrow = reserve.total_scaled_borrow

CollateralSet(b, held) ==
    /\ borrower_collateral' = [borrower_collateral EXCEPT ![b] = held]
    /\ \A a \in Collaterals :
          /\ total_collateral'[a] = total_collateral[a] + (held[a] - borrower_collateral[b][a])
          /\ bank'[a] = bank[a] + (held[a] - borrower_collateral[b][a])

CollateralKept ==
    /\ borrower_collateral' = borrower_collateral
    /\ total_collateral' = total_collateral
    /\ \A a \in Collaterals : bank'[a] = bank[a]

\* What the message of one account amounts to.
Supplied(l, n) == Minted(l, n) /\ DebtKept /\ CollateralKept
Redeemed(l, n) == Burned(l, n) /\ DebtKept /\ CollateralKept
PassedOn(l, m, n) ==
    l \notin lender_require_commit /\ Passed(l, m, n) /\ DebtKept /\ CollateralKept

Drawn(b, debt) ==
    /\ debt >= scaled_borrow[b] /\ ~is_empty(borrower_collateral[b])
    /\ DebtSet(b, debt) /\ SupplyKept /\ CollateralKept

Settled(b, debt) ==
    debt < scaled_borrow[b] /\ DebtSet(b, debt) /\ SupplyKept /\ CollateralKept

Pledged(b, held) ==
    /\ \A a \in Collaterals : borrower_collateral[b][a] <= held[a]
    /\ CollateralSet(b, held) /\ SupplyKept /\ DebtKept

\* At the stored price the smallest debt is still worth something.
LendingPriceCounts == lending_price_counts(quotes[LENDING].usd)

Released(b, held) ==
    /\ \A a \in Collaterals : held[a] <= borrower_collateral[b][a]
    /\ scaled_borrow[b] > 0 /\ LendingPriceCounts => ~is_empty(held)
    /\ CollateralSet(b, held) /\ SupplyKept /\ DebtKept

Seized(b, debt, held) ==
    /\ debt < scaled_borrow[b]
    /\ \A a \in Collaterals : held[a] <= borrower_collateral[b][a]
    /\ is_empty(held) => debt = 0
    /\ DebtSet(b, debt) /\ CollateralSet(b, held) /\ SupplyKept

BooksKept == SupplyKept /\ DebtKept /\ CollateralKept

Positive == Nat \ {0}
Holdings == [Collaterals -> Nat]

LenderTurn ==
    \E l \in Lenders, n \in Positive :
        \/ Supplied(l, n)
        \/ Redeemed(l, n)
        \/ \E m \in Lenders : PassedOn(l, m, n)

BorrowerTurn ==
    \E b \in Borrowers, debt \in Nat, held \in Holdings :
        \/ Drawn(b, debt)
        \/ Settled(b, debt)
        \/ Pledged(b, held)
        \/ Released(b, held)
        \/ Seized(b, debt, held)

BookStep == LenderTurn \/ BorrowerTurn \/ BooksKept

\* The part of the settings that a debt is judged by, and that the quotes to
\* borrowers divide by.
SettingsOK ==
    /\ contract.margin_rate > 0
    /\ contract.margin_rate < contract.liquidation_rate
    /\ contract.liquidation_rate <= ONE

-----------------------------------------------------------------------------
\* The lender side.  Units that pass through the pool within one transaction
\* leave nothing there: a Send of which the pool burns a part and returns the
\* rest burns that part of the sender's units.
LEMMA BurnThroughPool ==
    ASSUME Inv, NEW l \in Lenders, NEW received \in Nat, NEW burned \in Nat,
           token.balances[l] >= received, received >= burned,
           token.total_supply >= burned
    PROVE  ledger_after_burn(l, received, burned) = apply_burn(token, l, burned)
<1> DEFINE at_pool == move(token, l, POOL, received)
           left    == apply_burn(at_pool, POOL, burned)
           back    == move(left, POOL, l, received - burned)
           direct  == apply_burn(token, l, burned)
<1>1. /\ token \in Token /\ l \in Accounts \cup {POOL} /\ POOL \in Accounts \cup {POOL} /\ l # POOL
      /\ token.balances \in [Accounts \cup {POOL} -> Nat] /\ token.total_supply \in Nat
  BY AddressAssumption DEF Inv, TypeOK, Token, Accounts, Amount
<1>2. /\ direct.balances = [token.balances EXCEPT ![l] = @ - burned]
      /\ direct.total_supply = token.total_supply - burned
      /\ direct = [balances |-> direct.balances, total_supply |-> direct.total_supply]
  BY DEF apply_burn
<1>3. /\ at_pool.balances = [[token.balances EXCEPT ![l] = @ - received]
                                EXCEPT ![POOL] = @ + received]
      /\ at_pool.total_supply = token.total_supply
  BY <1>1 DEF move, Token
<1>4. /\ left.balances = [at_pool.balances EXCEPT ![POOL] = @ - burned]
      /\ left.total_supply = at_pool.total_supply - burned
      /\ left = [balances |-> left.balances, total_supply |-> left.total_supply]
  BY DEF apply_burn
<1> HIDE DEF at_pool, left, direct
<1>5. /\ back.balances = [[left.balances EXCEPT ![POOL] = @ - (received - burned)]
                             EXCEPT ![l] = @ + (received - burned)]
      /\ back.total_supply = left.total_supply
      /\ back = [balances |-> back.balances, total_supply |-> back.total_supply]
  <2> DEFINE rest == received - burned
             moved == [[left.balances EXCEPT ![POOL] = @ - rest] EXCEPT ![l] = @ + rest]
  <2>1. back = [left EXCEPT !.balances = moved]
    BY DEF move
  <2> HIDE DEF moved, rest
  <2>2. back = [balances |-> moved, total_supply |-> left.total_supply]
    BY <1>4, <2>1
  <2> QED
    BY <2>2 DEF moved, rest
<1> HIDE DEF back
<1>6. left.balances = direct.balances \/ received > burned
  BY <1>1, <1>2, <1>3, <1>4
<1>7. received > burned => back.balances = direct.balances
  BY <1>1, <1>2, <1>3, <1>4, <1>5
<1>8. back.total_supply = direct.total_supply /\ left.total_supply = direct.total_supply
  BY <1>2, <1>3, <1>4, <1>5
<1>9. ledger_after_burn(l, received, burned) = IF received > burned THEN back ELSE left
  BY DEF ledger_after_burn, back, left, at_pool
<1> QED
  BY <1>2, <1>4, <1>5, <1>6, <1>7, <1>8, <1>9 DEF direct

\* The parts of a ledger after a move.
LEMMA MoveParts ==
    ASSUME NEW t \in Token, NEW x, NEW y, NEW n
    PROVE  /\ move(t, x, y, n).balances = [[t.balances EXCEPT ![x] = @ - n] EXCEPT ![y] = @ + n]
           /\ move(t, x, y, n).total_supply = t.total_supply
           /\ move(t, x, y, n) = [ balances     |-> move(t, x, y, n).balances,
                                   total_supply |-> t.total_supply ]
<1> DEFINE moved == [[t.balances EXCEPT ![x] = @ - n] EXCEPT ![y] = @ + n]
           after == move(t, x, y, n)
<1>1. after = [t EXCEPT !.balances = moved]
  BY DEF move
<1> HIDE DEF moved, after
<1>2. after = [balances |-> moved, total_supply |-> t.total_supply]
  BY <1>1 DEF Token
<1>3. after.balances = moved /\ after.total_supply = t.total_supply
  BY <1>2
<1> QED
  BY <1>2, <1>3 DEF after, moved

\* A Send that is forwarded, the excess returned, passes what was forwarded.
LEMMA ForwardThroughPool ==
    ASSUME Inv, NEW l \in Lenders, NEW m \in Lenders, l # m,
           NEW received \in Nat, NEW scaled \in Nat,
           token.balances[l] >= received, received >= scaled
    PROVE  LET at_pool   == move(token, l, POOL, received)
               forwarded == move(at_pool, POOL, m, scaled)
           IN  (IF received > scaled THEN move(forwarded, POOL, l, received - scaled)
                ELSE forwarded) = move(token, l, m, scaled)
<1> DEFINE at_pool   == move(token, l, POOL, received)
           forwarded == move(at_pool, POOL, m, scaled)
           back      == move(forwarded, POOL, l, received - scaled)
           direct    == move(token, l, m, scaled)
<1>1. /\ token \in Token /\ l # POOL /\ m # POOL
      /\ l \in Accounts \cup {POOL} /\ m \in Accounts \cup {POOL} /\ POOL \in Accounts \cup {POOL}
      /\ token.balances \in [Accounts \cup {POOL} -> Nat]
  BY AddressAssumption DEF Inv, TypeOK, Token, Accounts, Amount
<1>2. token.balances[POOL] \in Nat
  BY <1>1
<1>3. /\ direct.balances = [[token.balances EXCEPT ![l] = @ - scaled] EXCEPT ![m] = @ + scaled]
      /\ direct = [balances |-> direct.balances, total_supply |-> token.total_supply]
  BY <1>1, MoveParts
<1>4. /\ at_pool.balances = [[token.balances EXCEPT ![l] = @ - received] EXCEPT ![POOL] = @ + received]
      /\ at_pool.total_supply = token.total_supply
  BY <1>1, MoveParts
<1>5. at_pool \in Token /\ at_pool.balances[POOL] = token.balances[POOL] + received
  BY <1>1, MoveType
<1> HIDE DEF at_pool, direct
<1>6. at_pool.balances[POOL] >= scaled
  BY <1>2, <1>5
<1>7. /\ forwarded.balances = [[at_pool.balances EXCEPT ![POOL] = @ - scaled] EXCEPT ![m] = @ + scaled]
      /\ forwarded.total_supply = at_pool.total_supply
      /\ forwarded = [balances |-> forwarded.balances, total_supply |-> at_pool.total_supply]
  BY <1>5, MoveParts
<1>8. forwarded \in Token
  BY <1>1, <1>5, <1>6, MoveType
<1> HIDE DEF forwarded
<1>9. /\ back.balances = [[forwarded.balances EXCEPT ![POOL] = @ - (received - scaled)]
                             EXCEPT ![l] = @ + (received - scaled)]
      /\ back = [balances |-> back.balances, total_supply |-> forwarded.total_supply]
  BY <1>8, MoveParts
<1> HIDE DEF back
<1>10. received > scaled => back.balances = direct.balances
  BY <1>1, <1>3, <1>4, <1>7, <1>9
<1>11. received = scaled => forwarded.balances = direct.balances
  BY <1>1, <1>3, <1>4, <1>7
<1> QED
  BY <1>3, <1>4, <1>7, <1>9, <1>10, <1>11 DEF direct, back, forwarded, at_pool

\* Every message of a lender supplies, redeems or passes on units.
LEMMA LenderStepIsTurn ==
    ASSUME Inv, LenderStep
    PROVE  LenderTurn
<1>1. /\ accrued \in Reserve
      /\ accrued.total_scaled_borrow = reserve.total_scaled_borrow
      /\ accrued.total_scaled_liquidity = token.total_supply
      /\ accrued.liquidity_index \in Nat /\ accrued.liquidity_index > 0
  BY AccruedFacts
<1>2. LENDING \notin Collaterals /\ bank \in [Denoms -> Nat] /\ token.balances \in [Accounts \cup {POOL} -> Nat]
  BY PricingAssumption DEF Inv, TypeOK, Amount
<1>3. Lenders \subseteq Accounts
  BY DEF Accounts
<1>4. ASSUME NEW scaled, NEW x, PayOutLiquidity(accrued, scaled, x), UNCHANGED position_vars
      PROVE  DebtKept /\ CollateralKept /\ token.total_supply >= scaled
  <2>1. /\ reserve'.total_scaled_borrow = reserve.total_scaled_borrow
        /\ \A a \in Collaterals : bank'[a] = bank[a]
        /\ token.total_supply >= scaled
    BY <1>1, <1>2, <1>4 DEF PayOutLiquidity, Reserve, Denoms
  <2> QED
    BY <1>4, <2>1 DEF DebtKept, CollateralKept, position_vars
<1>5. ASSUME NEW l \in Lenders, NEW u \in Nat, NEW n \in Nat, u >= n, NEW c,
             WithdrawUnits(accrued, l, u, n, c)
      PROVE  n \in Positive /\ Redeemed(l, n)
  <2>1. n > 0 /\ token.balances[l] >= u /\ token' = ledger_after_burn(l, u, n)
    BY <1>5 DEF WithdrawUnits, can_move
  <2>2. DebtKept /\ CollateralKept /\ token.total_supply >= n
    BY <1>4, <1>5 DEF WithdrawUnits
  <2>3. token' = apply_burn(token, l, n)
    BY <1>5, <2>1, <2>2, BurnThroughPool
  <2>4. token.balances[l] >= n
    BY <1>2, <1>3, <1>5, <2>1
  <2> QED
    BY <2>1, <2>2, <2>3, <2>4 DEF Positive, Redeemed, Burned
<1>6. ASSUME NEW l \in Lenders, NEW m \in Lenders, NEW u \in Nat, NEW n \in Nat, u >= n,
             ForwardUnits(l, u, m, n)
      PROVE  n \in Positive /\ PassedOn(l, m, n)
  <2>1. /\ n > 0 /\ token.balances[l] >= u /\ l # m /\ l \notin lender_require_commit
        /\ UNCHANGED <<reserve, bank, position_vars>>
    BY <1>6 DEF ForwardUnits, can_move, may_forward
  <2>2. token' = move(token, l, m, n)
    BY <1>6, <2>1, ForwardThroughPool DEF ForwardUnits
  <2>3. token.balances[l] >= n
    BY <1>2, <1>3, <1>6, <2>1
  <2>4. DebtKept /\ CollateralKept
    BY <2>1 DEF DebtKept, CollateralKept, position_vars
  <2> QED
    BY <2>1, <2>2, <2>3, <2>4 DEF Positive, PassedOn, Passed
<1>7. /\ Inputs.lends \subseteq Nat /\ Inputs.redemptions \subseteq Nat
      /\ Inputs.units \subseteq Nat /\ Inputs.requests \subseteq Nat
      /\ Inputs.recipients \subseteq Lenders
  BY InputsAssumption DEF Amount
<1>8. \A x \in Nat : underlying_to_scaled_liquidity(x, accrued.liquidity_index) \in Nat
  BY <1>1, ConversionTypes
<1>9. CASE \E l \in Lenders, x \in Inputs.lends : Lend(l, x)
  <2>1. PICK l \in Lenders, x \in Nat : Lend(l, x)
    BY <1>7, <1>9
  <2> DEFINE n == underlying_to_scaled_liquidity(x, accrued.liquidity_index)
  <2>2. n \in Nat
    BY <1>8
  <2>3. /\ n > 0
        /\ reserve' = [accrued EXCEPT !.total_scaled_liquidity = @ + n]
        /\ token' = mint(token, l, n)
        /\ bank' = [bank EXCEPT ![LENDING] = @ + x]
        /\ UNCHANGED position_vars
    BY <2>1 DEF Lend
  <2> HIDE DEF n
  <2>4. DebtKept /\ CollateralKept
    BY <1>1, <1>2, <2>3 DEF DebtKept, CollateralKept, position_vars, Reserve, Denoms
  <2>5. n \in Positive /\ Supplied(l, n)
    BY <2>2, <2>3, <2>4 DEF Positive, Supplied, Minted
  <2> QED
    BY <2>5 DEF LenderTurn
<1>10. CASE \E s \in Operators, l \in Lenders, x \in Inputs.redemptions, c \in Inputs.commits :
                Withdraw(s, l, x, c)
  <2>1. PICK s \in Operators, l \in Lenders, x \in Nat, c \in Inputs.commits : Withdraw(s, l, x, c)
    BY <1>7, <1>10
  <2> DEFINE n == IF x = 0 THEN token.balances[l]
                  ELSE underlying_to_scaled_liquidity(x, accrued.liquidity_index)
  <2>2. n \in Nat
    BY <1>2, <1>3, <1>8
  <2>3. /\ n > 0 /\ token.balances[l] >= n
        /\ token' = apply_burn(token, l, n)
        /\ PayOutLiquidity(accrued, n, scaled_to_underlying_liquidity(n, accrued.liquidity_index))
        /\ UNCHANGED position_vars
    BY <2>1 DEF Withdraw, can_burn
  <2> HIDE DEF n
  <2>4. DebtKept /\ CollateralKept
    BY <1>4, <2>3
  <2>5. n \in Positive /\ Redeemed(l, n)
    BY <2>2, <2>3, <2>4 DEF Positive, Redeemed, Burned
  <2> QED
    BY <2>5 DEF LenderTurn
<1>11. CASE \E l \in Lenders, u \in Inputs.units, c \in Inputs.commits : WithdrawExact(l, u, c)
  <2>1. PICK l \in Lenders, u \in Nat, c \in Inputs.commits : WithdrawUnits(accrued, l, u, u, c)
    BY <1>7, <1>11 DEF WithdrawExact
  <2> QED
    BY <1>5, <2>1 DEF LenderTurn
<1>12. CASE \E l \in Lenders, u \in Inputs.units, x \in Inputs.requests, c \in Inputs.commits :
                WithdrawCw20(l, u, x, c)
  <2>1. PICK l \in Lenders, u \in Nat, x \in Nat, c \in Inputs.commits : WithdrawCw20(l, u, x, c)
    BY <1>7, <1>12
  <2> DEFINE n == underlying_to_scaled_liquidity(x, accrued.liquidity_index)
  <2>2. n \in Nat /\ u >= n /\ WithdrawUnits(accrued, l, u, n, c)
    BY <1>8, <2>1 DEF WithdrawCw20
  <2> HIDE DEF n
  <2> QED
    BY <1>5, <2>2 DEF LenderTurn
<1>13. CASE \E l \in Lenders, u \in Inputs.units, m \in Inputs.recipients : TransferExact(l, u, m)
  <2>1. PICK l \in Lenders, u \in Nat, m \in Lenders : ForwardUnits(l, u, m, u)
    BY <1>7, <1>13 DEF TransferExact
  <2> QED
    BY <1>6, <2>1 DEF LenderTurn
<1>14. CASE \E l \in Lenders, u \in Inputs.units, m \in Inputs.recipients, x \in Inputs.requests :
                TransferCw20(l, u, m, x)
  <2>1. PICK l \in Lenders, u \in Nat, m \in Lenders, x \in Nat : TransferCw20(l, u, m, x)
    BY <1>7, <1>14
  <2> DEFINE n == underlying_to_scaled_liquidity(x, accrued.liquidity_index)
  <2>2. n \in Nat /\ u >= n /\ ForwardUnits(l, u, m, n)
    BY <1>8, <2>1 DEF TransferCw20
  <2> HIDE DEF n
  <2> QED
    BY <1>6, <2>2 DEF LenderTurn
<1> QED
  BY <1>9, <1>10, <1>11, <1>12, <1>13, <1>14 DEF LenderStep

-----------------------------------------------------------------------------
\* The borrower side.
LEMMA BorrowIsTurn ==
    ASSUME Inv, NEW b \in Borrowers, NEW x \in Nat, Borrow(b, x)
    PROVE  BorrowerTurn
<1> DEFINE delta == underlying_to_scaled_borrow_ceil(x, accrued.borrow_index)
           drawn == debt_after_borrow(scaled_borrow[b], x, accrued.borrow_index)
           debt  == scaled_borrow[b] + delta
<1>1. drawn.scaled_delta = delta /\ drawn.new_scaled = debt
  BY DEF debt_after_borrow
<1>2. /\ held_types(borrower_collateral[b]) # {}
      /\ scaled_borrow' = [scaled_borrow EXCEPT ![b] = drawn.new_scaled]
      /\ reserve' = [accrued EXCEPT !.total_scaled_borrow = @ + drawn.scaled_delta]
      /\ bank' = [bank EXCEPT ![LENDING] = @ - x]
      /\ UNCHANGED <<token, borrower_collateral, total_collateral>>
  BY DEF Borrow
<1>3. delta \in Nat
  BY AccruedFacts, ConversionTypes
<1> HIDE DEF delta, drawn
<1>4. scaled_borrow[b] \in Nat /\ borrower_collateral[b] \in [Collaterals -> Nat]
  BY StoredTypes
<1>5. debt \in Nat /\ debt >= scaled_borrow[b] /\ debt - scaled_borrow[b] = delta
  BY <1>3, <1>4
<1> HIDE DEF debt
<1>6. ~is_empty(borrower_collateral[b])
  BY <1>2, <1>4 DEF held_types, is_empty
<1>7. reserve'.total_scaled_borrow = reserve.total_scaled_borrow + delta
  BY <1>1, <1>2, AccruedFacts DEF Reserve
<1>8. CollateralKept
  BY <1>2, PricingAssumption DEF CollateralKept, Inv, TypeOK, Denoms
<1>9. Drawn(b, debt)
  BY <1>1, <1>2, <1>5, <1>6, <1>7, <1>8 DEF Drawn, DebtSet, SupplyKept
<1>10. NoCollateral \in Holdings
  BY DEF NoCollateral, Holdings
<1> QED
  BY <1>5, <1>9, <1>10 DEF BorrowerTurn

\* A repayment settles part or all of one debt.
LEMMA RepayIsTurn ==
    ASSUME Inv, NEW b \in Borrowers, NEW x \in Nat, Repay(b, x)
    PROVE  BorrowerTurn
<1> DEFINE payoff == scaled_to_underlying_borrow_ceil(scaled_borrow[b], accrued.borrow_index)
           repaid == lesser(x, payoff)
           scaled == scaled_repaid(scaled_borrow[b], repaid, payoff, accrued.borrow_index)
           debt   == scaled_borrow[b] - scaled
<1>1. repaid \in Nat /\ scaled \in Nat /\ scaled_borrow[b] \in Nat
  BY StoredTypes, PayoffTypes
<1>2. /\ scaled > 0 /\ scaled_borrow[b] >= scaled
      /\ scaled_borrow' = [scaled_borrow EXCEPT ![b] = @ - scaled]
      /\ reserve' = [accrued EXCEPT !.total_scaled_borrow = @ - scaled]
      /\ bank' = [bank EXCEPT ![LENDING] = @ + repaid]
      /\ UNCHANGED <<token, borrower_collateral, total_collateral>>
  BY DEF Repay, can_repay
<1> HIDE DEF payoff, repaid, scaled
<1>3. debt \in Nat /\ debt < scaled_borrow[b]
  BY <1>1, <1>2
<1>4. reserve'.total_scaled_borrow = reserve.total_scaled_borrow + (debt - scaled_borrow[b])
  BY <1>1, <1>2, AccruedFacts DEF Reserve
<1>5. scaled_borrow' = [scaled_borrow EXCEPT ![b] = debt]
  BY <1>2
<1> HIDE DEF debt
<1>6. CollateralKept
  BY <1>2, PricingAssumption DEF CollateralKept, Inv, TypeOK, Denoms
<1>7. Settled(b, debt)
  BY <1>2, <1>3, <1>4, <1>5, <1>6 DEF Settled, DebtSet, SupplyKept
<1>8. NoCollateral \in Holdings
  BY DEF NoCollateral, Holdings
<1> QED
  BY <1>3, <1>7, <1>8 DEF BorrowerTurn

\* A deposit pledges coins of one borrower.
LEMMA AddCollateralIsTurn ==
    ASSUME Inv, NEW b \in Borrowers, NEW coins \in [Collaterals -> Nat], AddCollateral(b, coins)
    PROVE  BorrowerTurn
<1> DEFINE held == [a \in Collaterals |-> borrower_collateral[b][a] + coins[a]]
           sent == held_types(coins)
<1>1. /\ borrower_collateral' = [borrower_collateral EXCEPT ![b] = held]
      /\ total_collateral' = [a \in Collaterals |-> total_collateral[a] + coins[a]]
      /\ bank' = [d \in Denoms |-> IF d \in sent THEN bank[d] + coins[d] ELSE bank[d]]
      /\ UNCHANGED <<reserve, token, scaled_borrow>>
  BY DEF AddCollateral
<1>2. \A a \in Collaterals : /\ borrower_collateral[b][a] \in Nat /\ coins[a] \in Nat
                             /\ bank[a] \in Nat /\ total_collateral[a] \in Nat
  BY StoredTypes
<1>3. \A a \in Collaterals : a \in Denoms /\ (a \in sent \/ coins[a] = 0)
  BY <1>2 DEF held_types, Denoms
<1> HIDE DEF sent
<1>4. /\ held \in Holdings
      /\ \A a \in Collaterals : held[a] = borrower_collateral[b][a] + coins[a]
  BY <1>2 DEF Holdings
<1> HIDE DEF held
<1>5. \A a \in Collaterals :
         /\ borrower_collateral[b][a] <= held[a]
         /\ total_collateral'[a] = total_collateral[a] + (held[a] - borrower_collateral[b][a])
         /\ bank'[a] = bank[a] + (held[a] - borrower_collateral[b][a])
  <2> SUFFICES ASSUME NEW a \in Collaterals
               PROVE  /\ borrower_collateral[b][a] <= held[a]
                      /\ total_collateral'[a] = total_collateral[a] + (held[a] - borrower_collateral[b][a])
                      /\ bank'[a] = bank[a] + (held[a] - borrower_collateral[b][a])
    OBVIOUS
  <2>1. held[a] - borrower_collateral[b][a] = coins[a] /\ borrower_collateral[b][a] <= held[a]
    BY <1>2, <1>4
  <2>2. total_collateral'[a] = total_collateral[a] + coins[a]
    BY <1>1
  <2>3. bank'[a] = bank[a] + coins[a]
    BY <1>1, <1>2, <1>3
  <2> QED
    BY <2>1, <2>2, <2>3
<1>6. Pledged(b, held)
  BY <1>1, <1>5 DEF Pledged, CollateralSet, SupplyKept, DebtKept
<1> QED
  BY <1>4, <1>6 DEF BorrowerTurn

\* Nothing pledged has no value, at any prices and haircuts.
LEMMA NothingIsWorthNothing ==
    ASSUME NEW c, c.supported \in [Collaterals -> Nat], NEW prices \in [Denoms -> Nat],
           NEW held \in Holdings, is_empty(held)
    PROVE  calculate_total_collateral_value_usd(c, prices, held) = 0
<1> DEFINE worth == [a \in Collaterals |->
                        checked_mul(value_usd(prices, a, held[a]), haircut_percentage(c, a))]
<1>1. \A a \in Collaterals : worth[a] = 0
  <2> SUFFICES ASSUME NEW a \in Collaterals
               PROVE  checked_mul(value_usd(prices, a, held[a]), haircut_percentage(c, a)) = 0
    OBVIOUS
  <2>1. held[a] = 0 /\ prices[a] \in Nat /\ UNIT[a] \in Nat \ {0}
    BY PricingAssumption DEF is_empty, Denoms
  <2>2. value_usd(prices, a, held[a]) = 0
    BY <2>1, DivisionBounds DEF value_usd
  <2>3. haircut_percentage(c, a) \in Nat
    BY OneAssumption DEF haircut_percentage
  <2> QED
    BY <2>2, <2>3, OneAssumption DEF checked_mul
<1>2. SumFunctionOnSet(worth, Collaterals) = 0
  BY <1>1, FiniteAssumption, SumOfZeros
<1>3. DOMAIN worth = Collaterals
  OBVIOUS
<1> QED
  BY <1>2, <1>3 DEF calculate_total_collateral_value_usd, SumFunction

\* A debt with nothing pledged is liquidatable as soon as it has any value.
LEMMA UnpledgedIsLiquidatable ==
    ASSUME NEW c, c.supported \in [Collaterals -> Nat], c.liquidation_rate \in Nat,
           c.liquidation_rate <= ONE,
           NEW prices \in [Denoms -> Nat], prices[LENDING] >= UNIT[LENDING],
           NEW held \in Holdings, is_empty(held), NEW debt \in Nat \ {0}
    PROVE  get_borrower_health(c, prices, held, debt) = Liquidatable
<1>1. calculate_total_collateral_value_usd(c, prices, held) = 0
  BY NothingIsWorthNothing
<1>2. prices[LENDING] \in Nat /\ UNIT[LENDING] \in Nat \ {0}
  BY PricingAssumption DEF Denoms
<1>3. calculate_borrow_value_usd(prices, debt) # 0
  <2> DEFINE price == prices[LENDING]
  <2>1. price \in Nat /\ 1 <= debt
    BY <1>2
  <2>2. price * 1 <= price * debt /\ price * debt \in Nat
    BY <2>1, ProductMonotone
  <2>3. price <= price * debt
    BY <2>1, <2>2
  <2>4. price * debt >= UNIT[LENDING]
    BY <1>2, <2>1, <2>2, <2>3
  <2>5. (price * debt) \div UNIT[LENDING] # 0
    BY <1>2, <2>2, <2>4, DivisionBounds
  <2> QED
    BY <2>5 DEF calculate_borrow_value_usd, value_usd
<1>4. calculate_ltv(c, prices, held, debt) = ONE
  BY <1>1, <1>3 DEF calculate_ltv
<1> QED
  BY <1>4, OneAssumption DEF get_borrower_health, get_health_from_ltv

\* A scaled unit of debt is a unit of debt at least: the index never is below 1.
LEMMA ScaledDebtIsDebt ==
    ASSUME Inv, NEW scaled \in Nat \ {0}
    PROVE  scaled_to_underlying_borrow(scaled, accrued.borrow_index) \in Nat \ {0}
<1> DEFINE exact == checked_mul(scaled * ONE, accrued.borrow_index)
<1>1. /\ accrued.borrow_index \in Nat /\ accrued.borrow_index >= ONE
      /\ scaled * ONE \in Nat /\ scaled * ONE >= ONE
  BY AccruedFacts, OneAssumption, ProductMonotone
<1>2. exact >= scaled * ONE /\ exact \in Nat
  BY <1>1, MulByAtLeastOne, DecimalTypes
<1> HIDE DEF exact
<1>3. exact >= ONE
  BY <1>1, <1>2, OneAssumption
<1>4. exact \div ONE \in Nat /\ exact \div ONE # 0
  BY <1>2, <1>3, OneAssumption, DivisionBounds
<1> QED
  BY <1>4 DEF exact, scaled_to_underlying_borrow, floor_to_u128

\* A removal releases coins of one borrower; what is left secures the debt, if
\* there is one.
LEMMA RemoveCollateralIsTurn ==
    ASSUME Inv, SettingsOK, NEW b \in Borrowers, NEW coins \in [Collaterals -> Nat],
           RemoveCollateral(b, coins)
    PROVE  BorrowerTurn
<1> DEFINE removed == held_types(coins)
           before  == borrower_collateral[b]
           left    == [a \in Collaterals |-> saturating_sub(before[a], coins[a])]
           debt    == scaled_to_underlying_borrow(scaled_borrow[b], accrued.borrow_index)
<1>1. /\ \A a \in removed : /\ before[a] >= coins[a]
                            /\ total_collateral[a] >= coins[a] /\ bank[a] >= coins[a]
      /\ debt > 0 => healthy_at_fresh_prices(left, debt)
      /\ reserve' = accrued
      /\ borrower_collateral' = [borrower_collateral EXCEPT ![b] = left]
      /\ total_collateral' = [a \in Collaterals |-> saturating_sub(total_collateral[a], coins[a])]
      /\ bank' = [d \in Denoms |-> IF d \in removed THEN bank[d] - coins[d] ELSE bank[d]]
      /\ UNCHANGED <<token, scaled_borrow>>
  BY DEF RemoveCollateral, can_remove_collateral, left_after
<1>2. \A a \in Collaterals : /\ before[a] \in Nat /\ coins[a] \in Nat
                             /\ bank[a] \in Nat /\ total_collateral[a] \in Nat
  BY StoredTypes
<1>3. \A a \in Collaterals : a \in Denoms /\ (a \in removed \/ coins[a] = 0)
  BY <1>2 DEF held_types, Denoms
<1>4. \A a \in removed : a \in Collaterals
  BY DEF held_types
<1> HIDE DEF removed
<1>5. ASSUME NEW a \in Collaterals
      PROVE  /\ left[a] \in Nat
             /\ left[a] <= before[a]
             /\ total_collateral'[a] = total_collateral[a] + (left[a] - before[a])
             /\ bank'[a] = bank[a] + (left[a] - before[a])
  <2>1. /\ before[a] >= coins[a] /\ total_collateral[a] >= coins[a] /\ bank[a] >= coins[a]
    BY <1>1, <1>2, <1>3
  <2>2. left[a] = before[a] - coins[a]
    BY <2>1 DEF saturating_sub
  <2>3. total_collateral'[a] = total_collateral[a] - coins[a]
    BY <1>1, <2>1 DEF saturating_sub
  <2>4. bank'[a] = bank[a] - coins[a]
    BY <1>1, <1>2, <1>3
  <2> HIDE DEF left, before
  <2> QED
    BY <1>2, <2>1, <2>2, <2>3, <2>4
<1>6. left \in Holdings
  <2>1. left = [a \in Collaterals |-> left[a]]
    OBVIOUS
  <2> HIDE DEF left
  <2> QED
    BY <1>5, <2>1 DEF Holdings
<1> HIDE DEF left, debt, before
<1>7. ASSUME scaled_borrow[b] > 0, LendingPriceCounts
      PROVE  ~is_empty(left)
  <2>1. debt \in Nat \ {0}
    BY <1>7, StoredTypes, ScaledDebtIsDebt DEF debt
  <2> DEFINE prices == borrower_prices(quotes, now)
  <2>2. /\ fresh(quotes, now, LENDING)
        /\ get_borrower_health(contract, prices, left, debt) = Healthy
    BY <1>1, <2>1 DEF healthy_at_fresh_prices
  <2>3. quotes[LENDING].usd \in Nat /\ UNIT[LENDING] \in Nat
    BY PricingAssumption DEF Inv, TypeOK, Quotes, Atomics, Denoms
  <2>4. prices \in [Denoms -> Nat]
    BY DEF borrower_prices, Inv, TypeOK, Quotes, Atomics
  <2>5. prices[LENDING] >= UNIT[LENDING]
    BY <1>7, <2>2, <2>3 DEF borrower_prices, fresh, LendingPriceCounts, lending_price_counts, Denoms
  <2> HIDE DEF prices
  <2>6. /\ contract.supported \in [Collaterals -> Nat]
        /\ contract.liquidation_rate \in Nat /\ contract.liquidation_rate <= ONE
    BY DEF Inv, TypeOK, Config, Atomics, SettingsOK
  <2>7. is_empty(left) => get_borrower_health(contract, prices, left, debt) = Liquidatable
    BY <1>6, <2>1, <2>4, <2>5, <2>6, UnpledgedIsLiquidatable
  <2> QED
    BY <2>2, <2>7 DEF Healthy, Liquidatable
<1>8. DebtKept
  BY <1>1, AccruedFacts DEF DebtKept
<1>9. CollateralSet(b, left)
  BY <1>1, <1>5 DEF CollateralSet, before
<1>10. Released(b, left)
  BY <1>1, <1>5, <1>7, <1>8, <1>9 DEF Released, SupplyKept, before
<1> QED
  BY <1>6, <1>10 DEF BorrowerTurn

\* Every message of a borrower is a turn of one borrower, or leaves the books
\* alone.
LEMMA BorrowerStepIsTurn ==
    ASSUME Inv, SettingsOK, BorrowerStep
    PROVE  BorrowerTurn \/ BooksKept
<1>1. /\ Inputs.borrows \subseteq Nat /\ Inputs.repayments \subseteq Nat
      /\ Inputs.deposits \subseteq [Collaterals -> Nat]
      /\ Inputs.removals \subseteq [Collaterals -> Nat]
  BY InputsAssumption DEF Amount
<1>2. CASE \E b \in Borrowers, x \in Inputs.borrows : Borrow(b, x)
  BY <1>1, <1>2, BorrowIsTurn
<1>3. CASE \E b \in Borrowers, x \in Inputs.repayments : Repay(b, x)
  BY <1>1, <1>3, RepayIsTurn
<1>4. CASE \E b \in Borrowers, coins \in Inputs.deposits : AddCollateral(b, coins)
  BY <1>1, <1>4, AddCollateralIsTurn
<1>5. CASE \E b \in Borrowers, coins \in Inputs.removals : RemoveCollateral(b, coins)
  BY <1>1, <1>5, RemoveCollateralIsTurn
<1>6. CASE \E b \in Borrowers, delta \in Inputs.sales, t \in Inputs.deadlines,
               v \in 1 .. MaxVersion : AdjustDirectedCollateralSale(b, delta, t, v)
  BY <1>6 DEF AdjustDirectedCollateralSale, BooksKept, SupplyKept, DebtKept, CollateralKept,
              position_vars
<1> QED
  BY <1>2, <1>3, <1>4, <1>5, <1>6 DEF BorrowerStep

\* A liquidation that leaves nothing behind leaves no debt: what nothing secures
\* is written off.
LEMMA LiquidateIsTurn ==
    ASSUME Inv, NEW s \in Operators, NEW b \in Borrowers,
           NEW seize \in [Collaterals -> Nat], NEW sent \in Nat,
           Liquidate(s, b, seize, sent)
    PROVE  \E debt \in Nat, held \in Holdings : Seized(b, debt, held)
<1> DEFINE f      == figures(b, seize, sent)
           out    == outgoing(f)
           before == borrower_collateral[b]
           left   == [a \in Collaterals |-> saturating_sub(before[a], out[a])]
           debt   == IF f.bad_debt THEN 0 ELSE f.residue
<1>1. /\ f.r = accrued /\ f.held = before /\ f.seize = seize
      /\ f.scaled = scaled_borrow[b]
      /\ f.scaled \in Nat /\ f.repaid \in Nat /\ f.removed \in Nat
      /\ f.residue = f.scaled - f.removed
      /\ f.bad_debt \in BOOLEAN
      /\ out \in [Collaterals -> Nat]
  BY FiguresFacts
<1>2. /\ f.left = [a \in Collaterals |-> saturating_sub(before[a], seize[a])]
      /\ f.bad_debt = ( /\ f.residue > 0
                        /\ calculate_total_collateral_value_usd(contract, f.prices, f.left) = 0 )
      /\ f.prices = liquidation_prices(quotes, now, contract.max_liquidation_staleness_seconds)
  BY DEF figures
<1>3. /\ f.removed > 0 /\ f.residue >= 0
      /\ seizure_is_possible(f)
      /\ books_balance(f)
      /\ \A a \in Collaterals : total_collateral[a] >= out[a] /\ bank[a] >= out[a]
      /\ scaled_borrow' = [scaled_borrow EXCEPT ![b] = debt]
      /\ reserve' = books_after(f)
      /\ borrower_collateral' = [borrower_collateral EXCEPT ![b] = left]
      /\ total_collateral' = [a \in Collaterals |-> saturating_sub(total_collateral[a], out[a])]
      /\ bank' = [d \in Denoms |-> IF d = LENDING THEN bank[d] + f.repaid ELSE bank[d] - out[d]]
      /\ token' = token
  BY DEF Liquidate, can_liquidate, Inv, TypeOK
<1> HIDE DEF f
<1>4. \A a \in Collaterals : /\ before[a] \in Nat /\ seize[a] \in Nat /\ out[a] \in Nat
                             /\ bank[a] \in Nat /\ total_collateral[a] \in Nat
                             /\ a \in Denoms /\ a # LENDING
  BY <1>1, StoredTypes, PricingAssumption DEF Denoms
<1>5. \A a \in Collaterals : before[a] >= out[a]
  <2>1. \A a \in Collaterals : before[a] >= seize[a]
    BY <1>1, <1>3, <1>4 DEF seizure_is_possible, held_types
  <2> QED
    BY <1>1, <1>4, <2>1 DEF outgoing
<1>6. ASSUME NEW a \in Collaterals
      PROVE  /\ left[a] \in Nat
             /\ left[a] <= before[a]
             /\ total_collateral'[a] = total_collateral[a] + (left[a] - before[a])
             /\ bank'[a] = bank[a] + (left[a] - before[a])
  <2>1. left[a] = before[a] - out[a]
    BY <1>5 DEF saturating_sub
  <2>2. total_collateral'[a] = total_collateral[a] - out[a]
    BY <1>3 DEF saturating_sub
  <2>3. bank'[a] = bank[a] - out[a]
    BY <1>3, <1>4
  <2> HIDE DEF left, before, out
  <2> QED
    BY <1>3, <1>4, <1>5, <2>1, <2>2, <2>3
<1>7. left \in Holdings
  <2>1. left = [a \in Collaterals |-> left[a]]
    OBVIOUS
  <2> HIDE DEF left
  <2> QED
    BY <1>6, <2>1 DEF Holdings
<1>8. is_empty(left) => debt = 0
  <2> SUFFICES ASSUME is_empty(left), ~f.bad_debt, f.residue > 0 PROVE FALSE
    BY <1>1, <1>3
  <2>1. left = f.left
    BY <1>1, <1>2 DEF outgoing
  <2>2. f.prices \in [Denoms -> Nat]
    BY <1>2 DEF liquidation_prices, Inv, TypeOK, Quotes, Atomics
  <2>3. contract.supported \in [Collaterals -> Nat]
    BY DEF Inv, TypeOK, Config, Atomics
  <2>4. calculate_total_collateral_value_usd(contract, f.prices, f.left) = 0
    BY <1>7, <2>1, <2>2, <2>3, NothingIsWorthNothing
  <2> QED
    BY <1>2, <2>4
<1>9. debt \in Nat /\ debt < scaled_borrow[b]
  BY <1>1, <1>3
<1>10. reserve'.total_scaled_borrow = reserve.total_scaled_borrow + (debt - scaled_borrow[b])
  <2>1. contract.bad_debt_loss_allocation \in {DeferredToDeficit, ImmediateLiquidityIndexHaircut}
    BY DEF Inv, TypeOK, Config
  <2>2. /\ (IF f.bad_debt THEN f.scaled ELSE f.removed) <= f.r.total_scaled_borrow
        /\ f.bad_debt /\ contract.bad_debt_loss_allocation = ImmediateLiquidityIndexHaircut
               => ~haircut_fails(f.r, loss(f))
    BY <1>1, <1>3 DEF books_balance
  <2>3. accrued \in Reserve /\ Sound(accrued) /\ f.residue \in Nat
    BY <1>1, <1>3, AccruedFacts
  <2>4. books_after(f).total_scaled_borrow
          = f.r.total_scaled_borrow - (IF f.bad_debt THEN f.scaled ELSE f.removed)
    BY <1>1, <2>1, <2>2, <2>3, BooksAfterFacts
  <2>5. /\ f.r.total_scaled_borrow = reserve.total_scaled_borrow
        /\ reserve.total_scaled_borrow \in Nat
    BY <1>1, AccruedFacts
  <2> QED
    BY <1>1, <1>3, <2>4, <2>5
<1> HIDE DEF left, debt, before
<1>11. DebtSet(b, debt) /\ CollateralSet(b, left)
  BY <1>3, <1>6, <1>10 DEF DebtSet, CollateralSet, before
<1>12. Seized(b, debt, left)
  BY <1>3, <1>6, <1>8, <1>9, <1>11 DEF Seized, SupplyKept, before
<1> QED
  BY <1>7, <1>9, <1>12

-----------------------------------------------------------------------------
\* The reserve, the settings and the world leave positions and units alone.
LEMMA OtherStepsKeepBooks ==
    ASSUME Inv, ReserveStep \/ GovernanceStep \/ WorldStep \/ UNCHANGED vars
    PROVE  BooksKept
<1>1. /\ accrued \in Reserve /\ Sound(accrued)
      /\ accrued.total_scaled_borrow = reserve.total_scaled_borrow
      /\ accrued.deficit_underlying \in Nat
      /\ \A a \in Collaterals : a # LENDING
      /\ bank \in [Denoms -> Nat] /\ Collaterals \subseteq Denoms
  BY AccruedFacts, PricingAssumption DEF Inv, TypeOK, Amount, Denoms
<1>2. ASSUME UNCHANGED <<token, position_vars>>,
             reserve'.total_scaled_borrow = reserve.total_scaled_borrow,
             bank' = bank \/ \E coins : bank' = [bank EXCEPT ![LENDING] = coins]
      PROVE  BooksKept
  BY <1>1, <1>2 DEF BooksKept, SupplyKept, DebtKept, CollateralKept, position_vars
<1>3. CASE \E s \in Operators, x \in Inputs.reliefs : EliminateDeficitFromReserve(s, x)
  BY <1>1, <1>2, <1>3 DEF EliminateDeficitFromReserve, Reserve
<1>4. CASE \E s \in Operators, x \in Inputs.reliefs, y \in Inputs.reliefs :
               EliminateDeficitFromBank(s, x, y)
  BY <1>1, <1>2, <1>4 DEF EliminateDeficitFromBank, Reserve
<1>5. CASE \E s \in Operators, x \in Inputs.reliefs : SocializeDeficit(s, x)
  <2>1. PICK s \in Operators, x \in Inputs.reliefs : SocializeDeficit(s, x)
    BY <1>5
  <2> DEFINE amount == lesser(x, accrued.deficit_underlying)
             h == apply_pro_rata_liquidity_index_haircut(accrued, amount)
  <2>2. amount \in Nat
    BY <1>1, <2>1, InputsAssumption DEF lesser, Amount
  <2>3. /\ ~haircut_fails(accrued, amount)
        /\ reserve' = [h EXCEPT !.deficit_underlying = @ - amount]
        /\ UNCHANGED <<token, bank, position_vars>>
    BY <2>1 DEF SocializeDeficit
  <2> HIDE DEF amount
  <2>4. h \in Reserve /\ h = [accrued EXCEPT !.liquidity_index = h.liquidity_index]
    BY <1>1, <2>2, <2>3, HaircutKeepsReserve
  <2> HIDE DEF h
  <2> QED
    BY <1>1, <1>2, <2>3, <2>4 DEF Reserve
<1>6. CASE \E s \in Operators : WithdrawReserve(s)
  <2>1. PICK fees, coins : /\ reserve' = [accrued EXCEPT !.accrued_reserve = fees]
                           /\ bank' = [bank EXCEPT ![LENDING] = coins]
                           /\ UNCHANGED <<token, position_vars>>
    BY <1>6 DEF WithdrawReserve
  <2> QED
    BY <1>1, <1>2, <2>1 DEF Reserve
<1>7. CASE \E s \in Operators, p \in Inputs.curves : UpdateRateParams(s, p)
  BY <1>1, <1>2, <1>7 DEF UpdateRateParams
<1>8. CASE \E x \in Inputs.donations : Donate(x)
  BY <1>2, <1>8 DEF Donate
<1>9. CASE GovernanceStep
  <2>1. BooksUnchanged
    BY <1>9 DEF GovernanceStep, UpdateContractConfig, UpdateSupportedCollateral,
        SetOperationalState, SetLenderRequiredAttrs, SetBorrowerRequiredAttrs,
        SetLenderRequireCommitOnExit, SetBorrowerRequireCommit, TransferOwnership,
        AcceptOwnership, ChangeContract, ChangeOwnership
  <2> QED
    BY <1>2, <2>1 DEF BooksUnchanged
<1>10. CASE WorldStep
  <2>1. UNCHANGED <<reserve, token, bank, position_vars, sale_vars>>
    BY <1>10 DEF WorldStep, Tick, PostPrice
  <2> QED
    BY <1>2, <2>1
<1>11. CASE UNCHANGED vars
  BY <1>2, <1>11 DEF vars, position_vars
<1> QED
  BY <1>3, <1>4, <1>5, <1>6, <1>7, <1>8, <1>9, <1>10, <1>11 DEF ReserveStep

\* Every step is the turn of one account, or leaves the books alone.
LEMMA StepIsBookStep ==
    ASSUME Inv, SettingsOK, [Next]_vars
    PROVE  BookStep
<1>1. CASE LiquidationStep
  <2>1. Inputs.seizures \subseteq [Collaterals -> Nat] /\ Inputs.payments \subseteq Nat
    BY InputsAssumption DEF Amount
  <2> QED
    BY <1>1, <2>1, LiquidateIsTurn DEF LiquidationStep, BookStep, BorrowerTurn
<1> QED
  BY <1>1, LenderStepIsTurn, BorrowerStepIsTurn, OtherStepsKeepBooks DEF Next, BookStep

\* Only an update that is checked moves the liquidation rate.
LEMMA SettingsStep ==
    ASSUME Inv, SettingsOK, [Next]_vars
    PROVE  SettingsOK'
<1>1. contract \in Config
  BY DEF Inv, TypeOK
<1>2. CASE contract' = contract
  BY <1>2 DEF SettingsOK
<1>3. ASSUME LenderStep PROVE contract' = contract
  BY <1>3 DEF LenderStep, Lend, Withdraw, WithdrawExact, WithdrawCw20, WithdrawUnits,
              TransferExact, TransferCw20, ForwardUnits, config_vars
<1>4. ASSUME BorrowerStep PROVE contract' = contract
  BY <1>4 DEF BorrowerStep, Borrow, Repay, AddCollateral, RemoveCollateral,
              AdjustDirectedCollateralSale, config_vars
<1>5. ASSUME LiquidationStep PROVE contract' = contract
  BY <1>5 DEF LiquidationStep, Liquidate, can_liquidate, config_vars
<1>6. ASSUME WorldStep PROVE contract' = contract
  BY <1>6 DEF WorldStep, Tick, PostPrice, config_vars
<1>7. CASE ReserveStep
  <2>1. CASE \E s \in Operators, p \in Inputs.curves : UpdateRateParams(s, p)
    BY <1>1, <2>1 DEF UpdateRateParams, SettingsOK, Config
  <2>2. CASE contract' = contract
    BY <1>2, <2>2
  <2> QED
    BY <1>7, <2>1, <2>2
    DEF ReserveStep, EliminateDeficitFromReserve, EliminateDeficitFromBank,
        SocializeDeficit, WithdrawReserve, Donate, config_vars
<1>8. CASE GovernanceStep
  <2>1. CASE \E s \in Operators, u \in Inputs.updates : UpdateContractConfig(s, u)
    BY <2>1 DEF UpdateContractConfig, ChangeContract, valid_config, SettingsOK
  <2>2. CASE \E s \in Operators, l \in Inputs.listings :
                 UpdateSupportedCollateral(s, l.to_update, l.to_remove)
    <3>1. PICK supported : contract' = [contract EXCEPT !.supported = supported]
      BY <2>2 DEF UpdateSupportedCollateral, ChangeContract
    <3> QED
      BY <1>1, <3>1 DEF SettingsOK, Config
  <2>3. CASE \E s \in Operators, x \in Inputs.states : SetOperationalState(s, x)
    BY <1>1, <2>3 DEF SetOperationalState, ChangeContract, SettingsOK, Config
  <2>4. CASE \E s \in Operators, x \in Inputs.attrs :
                 SetLenderRequiredAttrs(s, x) \/ SetBorrowerRequiredAttrs(s, x)
    BY <1>1, <2>4 DEF SetLenderRequiredAttrs, SetBorrowerRequiredAttrs, ChangeContract,
                      SettingsOK, Config
  <2>5. CASE contract' = contract
    BY <1>2, <2>5
  <2> QED
    BY <1>8, <2>1, <2>2, <2>3, <2>4, <2>5
    DEF GovernanceStep, SetLenderRequireCommitOnExit, SetBorrowerRequireCommit,
        TransferOwnership, AcceptOwnership, ChangeOwnership
<1> QED
  BY <1>2, <1>3, <1>4, <1>5, <1>6, <1>7, <1>8 DEF Next, vars

-----------------------------------------------------------------------------
\* The books agree.  The turn of an account changes one term of a sum, or two
\* of them by the same amount, and the total by what the terms change.
LEMMA AccountsFinite == IsFiniteSet(Accounts)
<1>1. IsFiniteSet(Lenders \cup Borrowers)
  BY FiniteAssumption, FS_Union
<1> QED
  BY <1>1, FiniteAssumption, FS_Union DEF Accounts

\* A turn moves the supply as it moves the balances.
LEMMA SupplyAgreesStep ==
    ASSUME Inv, BooksAgree, BookStep
    PROVE  /\ token'.total_supply = SumFunctionOnSet(token'.balances, Accounts)
           /\ token'.balances[POOL] = 0
<1>1. /\ token \in Token
      /\ token.balances \in [Accounts \cup {POOL} -> Nat] /\ token.total_supply \in Nat
      /\ \A s \in Accounts : token.balances[s] \in Int
      /\ POOL \notin Accounts /\ Lenders \subseteq Accounts
  BY AddressAssumption DEF Inv, TypeOK, Token, Amount, Accounts
<1>2. /\ token.total_supply = SumFunctionOnSet(token.balances, Accounts)
      /\ token.balances[POOL] = 0
  BY DEF BooksAgree
<1>3. ASSUME NEW l \in Lenders, NEW n \in Int,
             token'.balances = [token.balances EXCEPT ![l] = @ + n],
             token'.total_supply = token.total_supply + n
      PROVE  /\ token'.total_supply = SumFunctionOnSet(token'.balances, Accounts)
             /\ token'.balances[POOL] = 0
  <2>1. /\ token'.balances[l] = token.balances[l] + n /\ token.balances[l] \in Int
        /\ \A s \in Accounts \ {l} : token'.balances[s] = token.balances[s]
        /\ token'.balances[POOL] = 0 /\ l \in Accounts
    BY <1>1, <1>2, <1>3
  <2>2. SumFunctionOnSet(token'.balances, Accounts)
          = SumFunctionOnSet(token.balances, Accounts) + (token'.balances[l] - token.balances[l])
    BY <1>1, <2>1, AccountsFinite, SumUpdate
  <2> QED
    BY <1>1, <1>2, <1>3, <2>1, <2>2
<1>4. CASE LenderTurn
  <2>1. PICK l \in Lenders, n \in Positive :
                 Supplied(l, n) \/ Redeemed(l, n) \/ \E m \in Lenders : PassedOn(l, m, n)
    BY <1>4 DEF LenderTurn
  <2>2. n \in Nat
    BY DEF Positive
  <2>3. CASE Supplied(l, n)
    <3>1. /\ token'.balances = [token.balances EXCEPT ![l] = @ + n]
          /\ token'.total_supply = token.total_supply + n
      BY <2>3 DEF Supplied, Minted, mint
    <3> QED
      BY <1>3, <2>2, <3>1
  <2>4. CASE Redeemed(l, n)
    <3>1. /\ token'.balances = [token.balances EXCEPT ![l] = @ - n]
          /\ token'.total_supply = token.total_supply - n
      BY <2>4 DEF Redeemed, Burned, apply_burn
    <3>2. /\ token'.balances = [token.balances EXCEPT ![l] = @ + (0 - n)]
          /\ token'.total_supply = token.total_supply + (0 - n)
      BY <1>1, <2>2, <3>1
    <3> QED
      BY <1>3, <2>2, <3>2
  <2>5. CASE \E m \in Lenders : PassedOn(l, m, n)
    <3>1. PICK m \in Lenders : l # m /\ token' = move(token, l, m, n)
      BY <2>5 DEF PassedOn, Passed
    <3>2. /\ token'.balances = [[token.balances EXCEPT ![l] = @ - n] EXCEPT ![m] = @ + n]
          /\ token'.total_supply = token.total_supply
      BY <1>1, <3>1, MoveParts
    <3>3. /\ token'.balances[l] = token.balances[l] - n
          /\ token'.balances[m] = token.balances[m] + n
          /\ token.balances[l] \in Int /\ token.balances[m] \in Int
          /\ \A s \in Accounts \ {l, m} : token'.balances[s] = token.balances[s]
          /\ token'.balances[POOL] = 0 /\ l \in Accounts /\ m \in Accounts
      BY <1>1, <1>2, <3>1, <3>2
    <3>4. SumFunctionOnSet(token'.balances, Accounts) = SumFunctionOnSet(token.balances, Accounts)
      BY <1>1, <2>2, <3>1, <3>3, AccountsFinite, SumTransfer
    <3> QED
      BY <1>2, <3>2, <3>3, <3>4
  <2> QED
    BY <2>1, <2>3, <2>4, <2>5
<1>5. CASE token' = token
  BY <1>2, <1>5
<1> QED
  BY <1>4, <1>5
  DEF BookStep, BooksKept, BorrowerTurn, Drawn, Settled, Pledged, Released, Seized, SupplyKept

\* A turn moves the total debt as it moves the debts.
LEMMA DebtAgreesStep ==
    ASSUME Inv, BooksAgree, BookStep
    PROVE  reserve'.total_scaled_borrow = SumFunctionOnSet(scaled_borrow', Borrowers)
<1>1. /\ reserve.total_scaled_borrow = SumFunctionOnSet(scaled_borrow, Borrowers)
      /\ scaled_borrow \in [Borrowers -> Nat]
      /\ IsFiniteSet(Borrowers)
  BY FiniteAssumption DEF BooksAgree, Inv, TypeOK, Amount
<1>2. ASSUME NEW b \in Borrowers, NEW debt \in Nat, DebtSet(b, debt)
      PROVE  reserve'.total_scaled_borrow = SumFunctionOnSet(scaled_borrow', Borrowers)
  <2>1. /\ scaled_borrow'[b] = debt /\ scaled_borrow[b] \in Nat
        /\ \A s \in Borrowers : scaled_borrow[s] \in Int
        /\ \A s \in Borrowers \ {b} : scaled_borrow'[s] = scaled_borrow[s]
    BY <1>1, <1>2 DEF DebtSet
  <2>2. SumFunctionOnSet(scaled_borrow', Borrowers)
          = SumFunctionOnSet(scaled_borrow, Borrowers) + (scaled_borrow'[b] - scaled_borrow[b])
    BY <1>1, <2>1, SumUpdate
  <2> QED
    BY <1>1, <1>2, <2>1, <2>2 DEF DebtSet
<1>3. CASE DebtKept
  BY <1>1, <1>3 DEF DebtKept
<1>4. CASE BorrowerTurn
  BY <1>2, <1>3, <1>4 DEF BorrowerTurn, Drawn, Settled, Pledged, Released, Seized
<1> QED
  BY <1>3, <1>4 DEF BookStep, LenderTurn, Supplied, Redeemed, PassedOn, BooksKept

\* A turn moves the total of each collateral as it moves what is held.
LEMMA CollateralAgreesStep ==
    ASSUME Inv, BooksAgree, BookStep, NEW a \in Collaterals
    PROVE  /\ total_collateral'[a] = SumFunction([b \in Borrowers |-> borrower_collateral'[b][a]])
           /\ total_collateral'[a] <= bank'[a]
<1> DEFINE before == [b \in Borrowers |-> borrower_collateral[b][a]]
           after  == [b \in Borrowers |-> borrower_collateral'[b][a]]
<1>1. SumFunction(before) = SumFunctionOnSet(before, Borrowers)
  BY DEF SumFunction
<1>2. SumFunction(after) = SumFunctionOnSet(after, Borrowers)
  BY DEF SumFunction
<1>3. /\ total_collateral[a] = SumFunctionOnSet(before, Borrowers)
      /\ total_collateral[a] <= bank[a]
      /\ total_collateral[a] \in Nat /\ bank[a] \in Nat
      /\ IsFiniteSet(Borrowers)
      /\ \A b \in Borrowers : borrower_collateral[b] \in [Collaterals -> Nat]
  BY <1>1, FiniteAssumption DEF BooksAgree, Inv, TypeOK, Amount, Denoms
<1>4. ASSUME NEW b \in Borrowers, NEW held \in Holdings, CollateralSet(b, held)
      PROVE  /\ total_collateral'[a] = SumFunctionOnSet(after, Borrowers)
             /\ total_collateral'[a] <= bank'[a]
  <2>1. /\ borrower_collateral' = [borrower_collateral EXCEPT ![b] = held]
        /\ total_collateral'[a] = total_collateral[a] + (held[a] - borrower_collateral[b][a])
        /\ bank'[a] = bank[a] + (held[a] - borrower_collateral[b][a])
        /\ held[a] \in Nat /\ borrower_collateral[b][a] \in Nat
    BY <1>3, <1>4 DEF CollateralSet, Holdings
  <2>2. borrower_collateral \in [Borrowers -> Holdings]
    BY DEF Inv, TypeOK, Amount, Holdings
  <2>3. /\ after[b] = held[a] /\ before[b] = borrower_collateral[b][a]
        /\ \A s \in Borrowers : before[s] \in Int
        /\ \A s \in Borrowers \ {b} : after[s] = before[s]
    BY <1>3, <2>1, <2>2
  <2> HIDE DEF before, after
  <2>4. SumFunctionOnSet(after, Borrowers)
          = SumFunctionOnSet(before, Borrowers) + (after[b] - before[b])
    BY <1>3, <2>1, <2>3, SumUpdate
  <2> QED
    BY <1>3, <2>1, <2>3, <2>4
<1>5. CASE CollateralKept
  <2>1. after = before
    BY <1>5 DEF CollateralKept
  <2> HIDE DEF before, after
  <2>2. total_collateral'[a] = total_collateral[a] /\ bank'[a] = bank[a]
    BY <1>5 DEF CollateralKept
  <2> QED
    BY <1>2, <1>3, <2>1, <2>2 DEF after
<1> HIDE DEF before, after
<1>6. CASE BorrowerTurn
  BY <1>2, <1>4, <1>5, <1>6 DEF BorrowerTurn, Drawn, Settled, Pledged, Released, Seized, after
<1> QED
  BY <1>5, <1>6 DEF BookStep, LenderTurn, Supplied, Redeemed, PassedOn, BooksKept

\* The books still agree after a turn.
LEMMA BooksAgreeStep ==
    ASSUME Inv, Inv', BooksAgree, BookStep
    PROVE  BooksAgree'
BY SupplyAgreesStep, DebtAgreesStep, CollateralAgreesStep DEF BooksAgree, Inv, SupplyAgrees

\* The books agree when the pool is instantiated: every row is empty.
LEMMA BooksAgreeInit == Init => BooksAgree
<1> SUFFICES ASSUME Init PROVE BooksAgree
  OBVIOUS
<1>1. /\ token.balances[POOL] = 0 /\ token.total_supply = 0
      /\ \A s \in Accounts : token.balances[s] = 0
      /\ reserve.total_scaled_liquidity = 0 /\ reserve.total_scaled_borrow = 0
      /\ \A b \in Borrowers : scaled_borrow[b] = 0
      /\ \A a \in Collaterals : total_collateral[a] = 0 /\ bank[a] = 0
      /\ \A b \in Borrowers, a \in Collaterals : borrower_collateral[b][a] = 0
  BY DEF Init, NoCollateral, Denoms
<1>2. SumFunctionOnSet(token.balances, Accounts) = 0
  BY <1>1, AccountsFinite, SumOfZeros
<1>3. SumFunctionOnSet(scaled_borrow, Borrowers) = 0
  BY <1>1, FiniteAssumption, SumOfZeros
<1>4. ASSUME NEW a \in Collaterals
      PROVE  SumFunction([b \in Borrowers |-> borrower_collateral[b][a]]) = 0
  <2> DEFINE held == [b \in Borrowers |-> borrower_collateral[b][a]]
  <2>1. DOMAIN held = Borrowers /\ \A b \in Borrowers : held[b] = 0
    BY <1>1
  <2> HIDE DEF held
  <2>2. SumFunctionOnSet(held, Borrowers) = 0
    BY <2>1, FiniteAssumption, SumOfZeros
  <2> QED
    BY <2>1, <2>2 DEF SumFunction, held
<1> QED
  BY <1>1, <1>2, <1>3, <1>4 DEF BooksAgree

\* The settings a pool is instantiated with are valid.
LEMMA SettingsInit == Init => SettingsOK
BY InitialConfigAssumption DEF Init, SettingsOK, valid_config

\* The two contracts and the four storage maps agree in every reachable state,
\* whatever the messages and their order.
BooksInv == Inv /\ SettingsOK /\ BooksAgree

\* Empty books agree, and the settings a pool is created with are valid.
LEMMA BooksInvInit == Init => BooksInv
BY InitInv, SettingsInit, BooksAgreeInit DEF BooksInv

\* Every step keeps the three together.
LEMMA BooksInvStep ==
    ASSUME BooksInv, [Next]_vars
    PROVE  BooksInv'
BY NextInv, SettingsStep, StepIsBookStep, BooksAgreeStep DEF BooksInv

\* The settings stay valid and the books agree in every reachable state.
LEMMA BooksInvIsInvariant == Spec => []BooksInv
BY BooksInvInit, BooksInvStep, PTL DEF Spec

\* The supply is the sum of the balances, the total debt the sum of the debts,
\* and each collateral total the sum of what the borrowers hold, after any
\* sequence of messages: no handler updates a row and forgets its total.
THEOREM BooksAlwaysAgree == Spec => []BooksAgree
<1>1. BooksInv => BooksAgree
  BY DEF BooksInv
<1> QED
  BY <1>1, BooksInvIsInvariant, PTL

-----------------------------------------------------------------------------
\* Debt stays secured, as long as a unit of debt is worth something at every
\* price the oracle posts for the lending denom.
LEMMA PriceInit == LendingPricesCount /\ Init => LendingPriceCounts
BY DEF LendingPricesCount, Init, LendingPriceCounts

\* Whether a debt with nothing pledged counts as debt does not change: the
\* lending price stays positive and the loss settings keep it so.
LEMMA PriceStep ==
    ASSUME Inv, LendingPricesCount, LendingPriceCounts, [Next]_vars
    PROVE  LendingPriceCounts'
<1>1. CASE quotes' = quotes
  BY <1>1 DEF LendingPriceCounts
<1>2. ASSUME NEW p \in Inputs.prices, NEW t, PostPrice(p[1], p[2], t)
      PROVE  LendingPriceCounts'
  <2>1. quotes \in [Denoms -> Quotes] /\ LENDING \in Denoms
    BY DEF Inv, TypeOK, Denoms
  <2>2. quotes' = [quotes EXCEPT ![p[1]] = [usd |-> p[2], expiration |-> now + t]]
    BY <1>2 DEF PostPrice
  <2>3. CASE p[1] = LENDING
    BY <2>1, <2>2, <2>3 DEF LendingPriceCounts, LendingPricesCount
  <2>4. CASE p[1] # LENDING
    BY <2>1, <2>2, <2>4 DEF LendingPriceCounts
  <2> QED
    BY <2>3, <2>4
<1>3. ASSUME LenderStep PROVE quotes' = quotes
  BY <1>3 DEF LenderStep, Lend, Withdraw, WithdrawExact, WithdrawCw20, WithdrawUnits,
              TransferExact, TransferCw20, ForwardUnits, world_vars
<1>4. ASSUME BorrowerStep PROVE quotes' = quotes
  BY <1>4 DEF BorrowerStep, Borrow, Repay, AddCollateral, RemoveCollateral,
              AdjustDirectedCollateralSale, world_vars
<1>5. ASSUME LiquidationStep PROVE quotes' = quotes
  BY <1>5 DEF LiquidationStep, Liquidate, can_liquidate, world_vars
<1>6. ASSUME ReserveStep PROVE quotes' = quotes
  BY <1>6 DEF ReserveStep, EliminateDeficitFromReserve, EliminateDeficitFromBank,
              SocializeDeficit, WithdrawReserve, UpdateRateParams, Donate, world_vars
<1>7. ASSUME GovernanceStep PROVE quotes' = quotes
  BY <1>7 DEF GovernanceStep, UpdateContractConfig, UpdateSupportedCollateral,
      SetOperationalState, SetLenderRequiredAttrs, SetBorrowerRequiredAttrs,
      SetLenderRequireCommitOnExit, SetBorrowerRequireCommit, TransferOwnership,
      AcceptOwnership, ChangeContract, ChangeOwnership, BooksUnchanged, world_vars
<1>8. ASSUME WorldStep PROVE LendingPriceCounts'
  BY <1>1, <1>2, <1>8 DEF WorldStep, Tick
<1> QED
  BY <1>1, <1>3, <1>4, <1>5, <1>6, <1>7, <1>8 DEF Next, vars

\* A turn leaves no debt without collateral.
LEMMA DebtIsSecuredStep ==
    ASSUME Inv, LendingPriceCounts, DebtIsAlwaysSecured, BookStep
    PROVE  DebtIsAlwaysSecured'
<1>1. /\ scaled_borrow \in [Borrowers -> Nat]
      /\ borrower_collateral \in [Borrowers -> Holdings]
  BY DEF Inv, TypeOK, Amount, Holdings
<1>2. CASE scaled_borrow' = scaled_borrow /\ borrower_collateral' = borrower_collateral
  BY <1>2 DEF DebtIsAlwaysSecured
<1>3. CASE BorrowerTurn
  <2>1. PICK b \in Borrowers, debt \in Nat, held \in Holdings :
                 Drawn(b, debt) \/ Settled(b, debt) \/ Pledged(b, held)
                     \/ Released(b, held) \/ Seized(b, debt, held)
    BY <1>3 DEF BorrowerTurn
  <2>2. \A c \in Borrowers \ {b} : /\ scaled_borrow'[c] = scaled_borrow[c]
                                   /\ borrower_collateral'[c] = borrower_collateral[c]
    BY <1>1, <2>1 DEF Drawn, Settled, Pledged, Released, Seized, DebtSet, DebtKept,
                      CollateralSet, CollateralKept
  <2>3. scaled_borrow'[b] > 0 => ~is_empty(borrower_collateral'[b])
    <3>1. CASE Drawn(b, debt)
      BY <3>1 DEF Drawn, CollateralKept
    <3>2. CASE Settled(b, debt)
      BY <1>1, <3>2 DEF Settled, DebtSet, CollateralKept, DebtIsAlwaysSecured
    <3>3. CASE Pledged(b, held)
      <4>1. /\ scaled_borrow' = scaled_borrow /\ borrower_collateral'[b] = held
            /\ \A a \in Collaterals : borrower_collateral[b][a] <= held[a]
            /\ \A a \in Collaterals : borrower_collateral[b][a] \in Nat
        BY <1>1, <3>3 DEF Pledged, DebtKept, CollateralSet, Holdings
      <4> QED
        BY <4>1 DEF DebtIsAlwaysSecured, is_empty
    <3>4. CASE Released(b, held)
      BY <1>1, <3>4 DEF Released, DebtKept, CollateralSet
    <3>5. CASE Seized(b, debt, held)
      BY <1>1, <3>5 DEF Seized, DebtSet, CollateralSet
    <3> QED
      BY <2>1, <3>1, <3>2, <3>3, <3>4, <3>5
  <2> QED
    BY <2>2, <2>3 DEF DebtIsAlwaysSecured
<1> QED
  BY <1>2, <1>3 DEF BookStep, LenderTurn, Supplied, Redeemed, PassedOn, BooksKept,
                    DebtKept, CollateralKept

SecuredInv == BooksInv /\ LendingPriceCounts /\ DebtIsAlwaysSecured

\* The settings stay valid, the lending price counts and no debt is bare, in
\* every reachable state.
LEMMA SecuredInvIsInvariant ==
    ASSUME LendingPricesCount
    PROVE  Spec => []SecuredInv
<1>1. Init => SecuredInv
  <2>1. Init => DebtIsAlwaysSecured
    BY DEF Init, DebtIsAlwaysSecured
  <2>2. Init => BooksInv
    BY InitInv, SettingsInit, BooksAgreeInit DEF BooksInv
  <2> QED
    BY <2>1, <2>2, PriceInit DEF SecuredInv
<1>2. SecuredInv /\ [Next]_vars => SecuredInv'
  <2> SUFFICES ASSUME SecuredInv, [Next]_vars PROVE SecuredInv'
    OBVIOUS
  <2>1. Inv /\ SettingsOK /\ BooksAgree /\ LendingPriceCounts /\ DebtIsAlwaysSecured
    BY DEF SecuredInv, BooksInv
  <2>2. BookStep /\ Inv' /\ SettingsOK'
    BY <2>1, StepIsBookStep, NextInv, SettingsStep
  <2> QED
    BY <2>1, <2>2, BooksAgreeStep, PriceStep, DebtIsSecuredStep DEF SecuredInv, BooksInv
<1> QED
  BY <1>1, <1>2, PTL DEF Spec

\* No borrower owes anything with nothing pledged, where one scaled unit of
\* debt never prices to zero: a liquidation that takes the last coin writes
\* off what is left in the same message.
THEOREM DebtStaysSecured ==
    ASSUME LendingPricesCount
    PROVE  Spec => []DebtIsAlwaysSecured
<1>1. SecuredInv => DebtIsAlwaysSecured
  BY DEF SecuredInv
<1> QED
  BY <1>1, SecuredInvIsInvariant, PTL

-----------------------------------------------------------------------------
\* The lending book.  The turn of an account is the book's action of the same
\* name; every other step leaves the book alone.  A draw so small that no debt
\* is recorded for it, at an index above any amount, is one of those.
LEMMA ImplementsBookInit == Init => Book!Init
BY DEF Init, Book!Init, NoCollateral, Accounts

\* Each turn of the pool is an action of the lending book, or leaves it alone.
LEMMA TurnIsBookAction ==
    ASSUME Inv, LendingPriceCounts, BookStep
    PROVE  [Book!Next]_Book!book
<1> DEFINE shares == [a \in Accounts |-> token.balances[a]]
<1>1. /\ token \in Token /\ token.balances \in [Accounts \cup {POOL} -> Nat]
      /\ scaled_borrow \in [Borrowers -> Nat]
      /\ borrower_collateral \in [Borrowers -> Holdings]
      /\ Lenders \subseteq Accounts
  BY DEF Inv, TypeOK, Token, Amount, Holdings, Accounts
<1> DEFINE after == [a \in Accounts |-> token'.balances[a]]
<1>5. /\ shares = [a \in Accounts |-> shares[a]] /\ after = [a \in Accounts |-> after[a]]
      /\ \A a \in Accounts : /\ shares[a] = token.balances[a]
                             /\ after[a] = token'.balances[a]
  OBVIOUS
<1>6. shares' = after
  OBVIOUS
<1> HIDE DEF shares, after
<1>2. CASE LenderTurn
  <2>1. PICK l \in Lenders, n \in Positive :
                 Supplied(l, n) \/ Redeemed(l, n) \/ \E m \in Lenders : PassedOn(l, m, n)
    BY <1>2 DEF LenderTurn
  <2>2. n \in Nat /\ n > 0 /\ l \in Accounts /\ token.balances[l] \in Nat
    BY <1>1, <2>1 DEF Positive
  <2>3. scaled_borrow' = scaled_borrow /\ borrower_collateral' = borrower_collateral
    BY <2>1 DEF Supplied, Redeemed, PassedOn, DebtKept, CollateralKept
  <2>4. CASE Supplied(l, n)
    <3>1. token'.balances = [token.balances EXCEPT ![l] = @ + n]
      BY <2>4 DEF Supplied, Minted, mint
    <3>2. after = [shares EXCEPT ![l] = after[l]] /\ after[l] > shares[l]
      BY <1>1, <1>5, <2>2, <3>1
    <3>3. Book!Supply(l)
      BY <1>6, <2>3, <3>2 DEF Book!Supply, Book!OnlyShares, shares
    <3> QED
      BY <2>2, <3>3 DEF Book!Next
  <2>5. CASE Redeemed(l, n)
    <3>1. token'.balances = [token.balances EXCEPT ![l] = @ - n]
      BY <2>5 DEF Redeemed, Burned, apply_burn
    <3>2. after = [shares EXCEPT ![l] = after[l]] /\ after[l] < shares[l]
      BY <1>1, <1>5, <2>2, <3>1
    <3>3. Book!Redeem(l)
      BY <1>6, <2>3, <3>2 DEF Book!Redeem, Book!OnlyShares, shares
    <3> QED
      BY <2>2, <3>3 DEF Book!Next
  <2>6. CASE \E m \in Lenders : PassedOn(l, m, n)
    <3>1. PICK m \in Lenders : l # m /\ token' = move(token, l, m, n)
      BY <2>6 DEF PassedOn, Passed
    <3>2. token'.balances = [[token.balances EXCEPT ![l] = @ - n] EXCEPT ![m] = @ + n]
      BY <1>1, <3>1, MoveParts
    <3>3. m \in Accounts /\ token.balances[m] \in Nat
      BY <1>1
    <3>4. /\ after = [shares EXCEPT ![l] = after[l], ![m] = after[m]]
          /\ after[m] > shares[m]
          /\ after[l] + after[m] = shares[l] + shares[m]
      BY <1>1, <1>5, <2>2, <3>1, <3>2, <3>3
    <3>5. Book!Pass(l, m)
      BY <1>6, <2>3, <3>4 DEF Book!Pass, shares
    <3> QED
      BY <2>2, <3>3, <3>5 DEF Book!Next
  <2> QED
    BY <2>1, <2>4, <2>5, <2>6
<1>3. CASE BorrowerTurn
  <2>1. PICK b \in Borrowers, debt \in Nat, held \in Holdings :
                 Drawn(b, debt) \/ Settled(b, debt) \/ Pledged(b, held)
                     \/ Released(b, held) \/ Seized(b, debt, held)
    BY <1>3 DEF BorrowerTurn
  <2>2. token' = token
    BY <2>1 DEF Drawn, Settled, Pledged, Released, Seized, SupplyKept
  <2>3. shares' = shares
    BY <2>2 DEF shares
  <2>4. scaled_borrow[b] \in Nat /\ borrower_collateral[b] \in Holdings
    BY <1>1
  <2>5. ASSUME DebtSet(b, debt)
        PROVE  Book!OnlyDebt(b) /\ scaled_borrow'[b] = debt
    BY <1>1, <2>5 DEF DebtSet, Book!OnlyDebt
  <2>6. ASSUME CollateralSet(b, held)
        PROVE  Book!OnlyPledged(b) /\ borrower_collateral'[b] = held
    BY <1>1, <2>6 DEF CollateralSet, Book!OnlyPledged
  <2>7. CASE Drawn(b, debt)
    <3>1. borrower_collateral' = borrower_collateral
      BY <2>7 DEF Drawn, CollateralKept
    <3>2. CASE debt > scaled_borrow[b]
      <4>1. Book!Draw(b)
        BY <2>3, <2>5, <2>7, <3>1, <3>2
        DEF shares, Drawn, Book!Draw, Book!nothing_pledged, is_empty
      <4> QED
        BY <4>1 DEF Book!Next
    <3>3. CASE debt = scaled_borrow[b]
      <4>1. scaled_borrow' = scaled_borrow
        BY <1>1, <2>7, <3>3 DEF Drawn, DebtSet
      <4> QED
        BY <2>3, <3>1, <4>1 DEF Book!book, shares
    <3> QED
      BY <2>4, <2>7, <3>2, <3>3 DEF Drawn
  <2>8. CASE Settled(b, debt)
    <3>1. Book!Settle(b)
      BY <2>3, <2>5, <2>8 DEF shares, Settled, CollateralKept, Book!Settle
    <3> QED
      BY <3>1 DEF Book!Next
  <2>9. CASE Pledged(b, held)
    <3>1. Book!Pledge(b)
      BY <2>3, <2>6, <2>9 DEF shares, Pledged, DebtKept, Book!Pledge, Book!no_more
    <3> QED
      BY <3>1 DEF Book!Next
  <2>10. CASE Released(b, held)
    <3>1. Book!Release(b)
      BY <2>3, <2>6, <2>10
      DEF shares, Released, DebtKept, Book!Release, Book!no_more, Book!nothing_pledged, is_empty
    <3> QED
      BY <3>1 DEF Book!Next
  <2>11. CASE Seized(b, debt, held)
    <3>1. Book!Seize(b)
      BY <2>3, <2>5, <2>6, <2>11
      DEF shares, Seized, Book!Seize, Book!no_more, Book!nothing_pledged, is_empty
    <3> QED
      BY <3>1 DEF Book!Next
  <2> QED
    BY <2>1, <2>7, <2>8, <2>9, <2>10, <2>11
<1>4. CASE BooksKept
  BY <1>4 DEF BooksKept, SupplyKept, DebtKept, CollateralKept, Book!book
<1> QED
  BY <1>2, <1>3, <1>4 DEF BookStep

\* The pool implements the lending book, under the same condition as above.
THEOREM PoolImplementsLendingBook ==
    ASSUME LendingPricesCount
    PROVE  Spec => ImplementsLendingBook
<1>1. Init => Book!Init
  BY ImplementsBookInit
<1>2. SecuredInv /\ [Next]_vars => [Book!Next]_Book!book
  BY StepIsBookStep, TurnIsBookAction DEF SecuredInv, BooksInv
<1> QED
  BY <1>1, <1>2, SecuredInvIsInvariant, PTL DEF Spec, ImplementsLendingBook, Book!Spec

-----------------------------------------------------------------------------
\* A flagged lender does not pass units on: their balance falls only in a
\* redemption, which nobody gains from.
LEMMA FlaggedStep ==
    ASSUME Inv, BookStep, NEW l \in lender_require_commit,
           token'.balances[l] < token.balances[l]
    PROVE  /\ token'.total_supply < token.total_supply
           /\ \A m \in Accounts \ {l} : token'.balances[m] = token.balances[m]
<1>1. /\ token \in Token /\ token.balances \in [Accounts \cup {POOL} -> Nat]
      /\ token.total_supply \in Nat /\ token.balances[l] \in Nat /\ l \in Accounts
      /\ Lenders \subseteq Accounts
  BY DEF Inv, TypeOK, Token, Amount, Accounts
<1>2. token' # token
  BY <1>1
<1>3. PICK k \in Lenders, n \in Positive :
               Supplied(k, n) \/ Redeemed(k, n) \/ \E m \in Lenders : PassedOn(k, m, n)
  BY <1>2 DEF BookStep, LenderTurn, BorrowerTurn, Drawn, Settled, Pledged, Released, Seized,
              BooksKept, SupplyKept
<1>4. n \in Nat /\ n > 0 /\ token.balances[k] \in Nat
  BY <1>1 DEF Positive
<1>5. CASE Supplied(k, n)
  <2>1. token'.balances = [token.balances EXCEPT ![k] = @ + n]
    BY <1>5 DEF Supplied, Minted, mint
  <2> QED
    BY <1>1, <1>4, <2>1
<1>6. CASE Redeemed(k, n)
  <2>1. /\ token'.balances = [token.balances EXCEPT ![k] = @ - n]
        /\ token'.total_supply = token.total_supply - n
    BY <1>6 DEF Redeemed, Burned, apply_burn
  <2>2. k = l
    BY <1>1, <2>1
  <2> QED
    BY <1>1, <1>4, <2>1, <2>2
<1>7. CASE \E m \in Lenders : PassedOn(k, m, n)
  <2>1. PICK m \in Lenders : k \notin lender_require_commit /\ token' = move(token, k, m, n)
    BY <1>7 DEF PassedOn, Passed
  <2>2. token'.balances = [[token.balances EXCEPT ![k] = @ - n] EXCEPT ![m] = @ + n]
    BY <1>1, <2>1, MoveParts
  <2>3. k # l
    BY <2>1
  <2>4. token'.balances[l] >= token.balances[l]
    BY <1>1, <1>4, <2>2, <2>3
  <2> QED
    BY <1>1, <1>4, <2>2, <2>4
<1> QED
  BY <1>3, <1>5, <1>6, <1>7

\* A lender flagged as under restriction never passes units to another lender.
THEOREM FlaggedLendersStay == Spec => FlaggedLendersDoNotTransfer
<1>1. BooksInv /\ [Next]_vars
        => [ \A l \in lender_require_commit :
               token'.balances[l] < token.balances[l] =>
                   /\ token'.total_supply < token.total_supply
                   /\ \A m \in Accounts \ {l} : token'.balances[m] = token.balances[m] ]_vars
  BY StepIsBookStep, FlaggedStep DEF BooksInv
<1> QED
  BY <1>1, BooksInvIsInvariant, PTL DEF Spec, FlaggedLendersDoNotTransfer

-----------------------------------------------------------------------------
\* Seizures.  Debt and collateral of one borrower fall together only in a
\* liquidation of that borrower.
LEMMA SeizureIsLiquidation ==
    ASSUME Inv, [Next]_vars, NEW b \in Borrowers, seized_from(b)
    PROVE  \E s \in Operators, z \in Inputs.seizures, x \in Inputs.payments :
               Liquidate(s, b, z, x)
<1>1. /\ scaled_borrow'[b] # scaled_borrow[b]
      /\ borrower_collateral'[b] # borrower_collateral[b]
  BY StoredTypes, NextInv DEF seized_from, Inv, TypeOK, Amount
<1>2. CASE LenderStep
  BY <1>1, <1>2 DEF LenderStep, Lend, Withdraw, WithdrawExact, WithdrawCw20, WithdrawUnits,
              TransferExact, TransferCw20, ForwardUnits, position_vars
<1>3. CASE BorrowerStep
  BY <1>1, <1>3 DEF BorrowerStep, Borrow, Repay, AddCollateral, RemoveCollateral,
              AdjustDirectedCollateralSale, position_vars
<1>4. CASE LiquidationStep
  <2>1. PICK s \in Operators, d \in Borrowers, z \in Inputs.seizures, x \in Inputs.payments :
                 Liquidate(s, d, z, x)
    BY <1>4 DEF LiquidationStep
  <2>2. PICK debt : scaled_borrow' = [scaled_borrow EXCEPT ![d] = debt]
    BY <2>1 DEF Liquidate
  <2>3. d = b
    BY <1>1, <2>2 DEF Inv, TypeOK
  <2> QED
    BY <2>1, <2>3
<1>5. CASE ReserveStep
  BY <1>1, <1>5 DEF ReserveStep, EliminateDeficitFromReserve, EliminateDeficitFromBank,
              SocializeDeficit, WithdrawReserve, UpdateRateParams, Donate, position_vars
<1>6. CASE GovernanceStep \/ WorldStep \/ UNCHANGED vars
  BY <1>1, <1>6, QuietStepHolds DEF Held, position_vars
<1> QED
  BY <1>2, <1>3, <1>4, <1>5, <1>6 DEF Next

\* What the figures of a liquidation say of the borrower as stored, and what
\* the borrower is left with.
LEMMA SeizureFigures ==
    ASSUME Inv, NEW s \in Operators, NEW b \in Borrowers,
           NEW z \in Inputs.seizures, NEW x \in Inputs.payments, Liquidate(s, b, z, x),
           NEW f, f = figures(b, z, x)
    PROVE  /\ can_liquidate(s, f)
           /\ f.r = accrued /\ f.held = borrower_collateral[b] /\ f.seize = z
           /\ f.scaled = scaled_borrow[b] /\ f.debt = debt_of(b)
           /\ f.payoff = payoff_of(b) /\ f.prices = acted_on_prices
           /\ f.directed <=> ( /\ is_live(directed_sale[b], now)
                               /\ is_seize_within_offer(directed_sale[b].amounts, z) )
           /\ f.dead = unpriceable(quotes, now, contract.max_liquidation_staleness_seconds,
                                   borrower_collateral[b])
           /\ \A a \in Collaterals : f.left[a] = saturating_sub(borrower_collateral[b][a], z[a])
           /\ f.payoff \in Nat /\ f.repaid \in Nat /\ f.removed \in Nat /\ f.scaled \in Nat
           /\ f.residue = f.scaled - f.removed
           /\ f.removed = scaled_repaid(f.scaled, f.repaid, f.payoff, accrued.borrow_index)
           /\ f.repaid <= f.payoff
           /\ f.bad_debt \in BOOLEAN /\ (f.bad_debt => f.residue > 0)
           /\ z \in [Collaterals -> Nat]
           /\ bank'[LENDING] - bank[LENDING] = f.repaid
           /\ scaled_borrow'[b] = IF f.bad_debt THEN 0 ELSE f.residue
           /\ taken(b) = outgoing(f)
<1>1. z \in [Collaterals -> Nat] /\ x \in Nat
  BY InputsAssumption DEF Amount
<1>2. /\ f.r = accrued /\ f.held = borrower_collateral[b] /\ f.seize = z
      /\ f.scaled = scaled_borrow[b]
      /\ f.residue = f.scaled - f.removed
      /\ f.scaled \in Nat /\ f.payoff \in Nat /\ f.repaid \in Nat /\ f.removed \in Nat
      /\ f.bad_debt \in BOOLEAN
      /\ outgoing(f) \in [Collaterals -> Nat]
  BY <1>1, FiguresFacts
<1>3. /\ f.debt = debt_of(b) /\ f.payoff = payoff_of(b) /\ f.prices = acted_on_prices
      /\ f.dead = unpriceable(quotes, now, contract.max_liquidation_staleness_seconds,
                              borrower_collateral[b])
      /\ \A a \in Collaterals : f.left[a] = saturating_sub(borrower_collateral[b][a], z[a])
      /\ f.directed <=> ( /\ is_live(directed_sale[b], now)
                          /\ is_seize_within_offer(directed_sale[b].amounts, z) )
  BY DEF figures, debt_of, payoff_of, acted_on_prices
<1>4. /\ f.removed = scaled_repaid(f.scaled, f.repaid, f.payoff, accrued.borrow_index)
      /\ f.repaid = lesser(x, f.payoff)
      /\ f.bad_debt => f.residue > 0
  BY DEF figures
<1>5. f.repaid <= f.payoff
  BY <1>1, <1>2, <1>4 DEF lesser
<1>6. /\ can_liquidate(s, f)
      /\ scaled_borrow' = [scaled_borrow EXCEPT ![b] = IF f.bad_debt THEN 0 ELSE f.residue]
      /\ borrower_collateral' =
             [borrower_collateral EXCEPT ![b] =
                 [a \in Collaterals |-> saturating_sub(@[a], outgoing(f)[a])]]
      /\ bank' = [d \in Denoms |-> IF d = LENDING THEN bank[d] + f.repaid
                                   ELSE bank[d] - outgoing(f)[d]]
  BY DEF Liquidate
<1>7. seizure_is_possible(f)
  BY <1>6 DEF can_liquidate
<1>8. bank'[LENDING] - bank[LENDING] = f.repaid
  BY <1>2, <1>6, StoredTypes DEF Denoms
<1>9. scaled_borrow'[b] = IF f.bad_debt THEN 0 ELSE f.residue
  BY <1>6 DEF Inv, TypeOK
<1>10. taken(b) = outgoing(f)
  <2>1. \A a \in Collaterals : borrower_collateral[b][a] \in Nat /\ outgoing(f)[a] \in Nat
    BY <1>2, StoredTypes
  <2>2. \A a \in Collaterals : borrower_collateral[b][a] >= outgoing(f)[a]
    <3>1. CASE f.bad_debt
      BY <1>2, <2>1, <3>1 DEF outgoing
    <3>2. CASE ~f.bad_debt
      <4>1. outgoing(f) = z
        BY <1>2, <3>2 DEF outgoing
      <4>2. \A a \in Collaterals : z[a] > 0 => borrower_collateral[b][a] >= z[a]
        BY <1>2, <1>7 DEF seizure_is_possible, held_types
      <4> QED
        BY <1>1, <2>1, <4>1, <4>2
    <3> QED
      BY <3>1, <3>2
  <2>3. borrower_collateral'[b]
            = [a \in Collaterals |-> saturating_sub(borrower_collateral[b][a], outgoing(f)[a])]
    BY <1>6 DEF Inv, TypeOK
  <2>4. \A a \in Collaterals :
            borrower_collateral[b][a] - borrower_collateral'[b][a] = outgoing(f)[a]
    BY <2>1, <2>2, <2>3 DEF saturating_sub
  <2> QED
    BY <1>2, <2>4 DEF taken
<1> QED
  BY <1>1, <1>2, <1>3, <1>4, <1>5, <1>6, <1>8, <1>9, <1>10

\* Collateral is seized only from a liquidatable borrower, or on the terms of
\* a live offer, short of the sweep that ends a write-off.
LEMMA SeizureStep ==
    ASSUME Inv, [Next]_vars, NEW b \in Borrowers, seized_from(b)
    PROVE  \/ health_of(b) = Liquidatable
           \/ /\ now < directed_sale[b].expires_at
              /\ \/ is_seize_within_offer(directed_sale[b].amounts, taken(b))
                 \/ written_off(b)
<1>1. PICK s \in Operators, z \in Inputs.seizures, x \in Inputs.payments :
               Liquidate(s, b, z, x)
  BY SeizureIsLiquidation
<1>2. z \in [Collaterals -> Nat] /\ x \in Nat
  BY InputsAssumption DEF Amount
<1>0. PICK f : f = figures(b, z, x)
  OBVIOUS
<1>3. /\ can_liquidate(s, f)
      /\ f.held = borrower_collateral[b] /\ f.seize = z
      /\ f.debt = debt_of(b) /\ f.prices = acted_on_prices
      /\ f.directed <=> ( /\ is_live(directed_sale[b], now)
                          /\ is_seize_within_offer(directed_sale[b].amounts, z) )
      /\ taken(b) = outgoing(f)
  BY <1>0, <1>1, SeizureFigures
<1>4. f.bad_debt => written_off(b)
  BY <1>0, <1>1, <1>2, WriteOffEmpties
<1>5. may_be_liquidated(f)
  BY <1>3 DEF can_liquidate
<1>6. ~f.bad_debt => taken(b) = z
  BY <1>3 DEF outgoing
<1> QED
  BY <1>3, <1>4, <1>5, <1>6 DEF may_be_liquidated, health_of, is_live

\* The same, as a property of every behaviour.
THEOREM SeizuresHaveCause == Spec => SeizureHasCause
<1>1. Inv /\ [Next]_vars
        => [ \A b \in Borrowers : seized_from(b) =>
               \/ health_of(b) = Liquidatable
               \/ /\ now < directed_sale[b].expires_at
                  /\ \/ is_seize_within_offer(directed_sale[b].amounts, taken(b))
                     \/ written_off(b) ]_vars
  BY SeizureStep
<1> QED
  BY <1>1, InvIsInvariant, PTL DEF Spec, SeizureHasCause

-----------------------------------------------------------------------------
\* A payment short of the payoff leaves some of the debt.
LEMMA PartialPaymentLeavesDebt ==
    ASSUME NEW scaled \in Nat, NEW index \in Nat \ {0}, NEW repaid \in Nat,
           repaid < scaled_to_underlying_borrow_ceil(scaled, index)
    PROVE  underlying_to_scaled_borrow(repaid, index) < scaled
<1> DEFINE worth == scaled * index
           q == (repaid * ONE * ONE) \div index
<1>1. worth \in Nat /\ ONE \in Nat \ {0} /\ repaid * ONE \in Nat
  BY OneAssumption
<1>2. (scaled * ONE) * index = worth * ONE /\ (worth * ONE) \div ONE = worth
  BY <1>1
<1>3. scaled_to_underlying_borrow_ceil(scaled, index) = ceil_to_u128(worth)
  BY <1>2 DEF scaled_to_underlying_borrow_ceil, checked_mul
<1>4. repaid * ONE < worth
  <2>1. /\ worth \div ONE \in Nat /\ ONE * (worth \div ONE) <= worth
        /\ worth % ONE = worth - ONE * (worth \div ONE)
    BY <1>1, DivisionBounds
  <2> DEFINE w == worth \div ONE
  <2>2. worth % ONE # 0 => ONE * w < worth
    BY <1>1, <2>1
  <2>3. repaid < w + (IF worth % ONE = 0 THEN 0 ELSE 1)
    BY <1>3 DEF ceil_to_u128
  <2>4. w \in Nat /\ ONE * w \in Nat /\ ONE * w <= worth
    BY <1>1, <2>1
  <2> HIDE DEF w, worth
  <2>5. CASE repaid < w
    <3>1. repaid + 1 <= w
      BY <2>4, <2>5
    <3>2. (repaid + 1) * ONE <= w * ONE
      BY <1>1, <2>4, <3>1, ProductMonotone
    <3>3. (repaid + 1) * ONE = repaid * ONE + ONE /\ w * ONE = ONE * w
      BY <1>1, <2>4
    <3> QED
      BY <1>1, <2>4, <3>2, <3>3
  <2>6. CASE repaid = w /\ worth % ONE # 0
    <3>1. repaid * ONE = ONE * w
      BY <1>1, <2>4, <2>6
    <3> QED
      BY <2>2, <2>6, <3>1
  <2> QED
    BY <2>3, <2>4, <2>5, <2>6
<1>5. q \in Nat /\ index * q <= repaid * ONE * ONE
  BY <1>1, DivisionBounds
<1>6. q < scaled * ONE
  <2> SUFFICES ASSUME q >= scaled * ONE PROVE FALSE
    BY <1>1, <1>5
  <2>1. index * (scaled * ONE) <= index * q
    BY <1>1, <1>5, ProductMonotone
  <2>2. index * (scaled * ONE) = worth * ONE
    BY <1>1
  <2>3. (repaid * ONE + 1) * ONE <= worth * ONE
    BY <1>1, <1>4, ProductMonotone
  <2>4. (repaid * ONE + 1) * ONE = repaid * ONE * ONE + ONE
    BY <1>1
  <2>5. index * q \in Nat /\ repaid * ONE * ONE \in Nat /\ worth * ONE \in Nat
    BY <1>1, <1>5
  <2> HIDE DEF q, worth
  <2> QED
    BY <1>1, <1>5, <2>1, <2>2, <2>3, <2>4, <2>5
<1>7. underlying_to_scaled_borrow(repaid, index) = q \div ONE
  BY DEF underlying_to_scaled_borrow, checked_div, floor_to_u128
<1>8. q \div ONE \in Nat /\ ONE * (q \div ONE) <= q
  BY <1>1, <1>5, DivisionBounds
<1> HIDE DEF q
<1> SUFFICES ASSUME q \div ONE >= scaled PROVE FALSE
  BY <1>7, <1>8
<1>9. ONE * scaled <= ONE * (q \div ONE)
  BY <1>1, <1>8, ProductMonotone
<1>10. ONE * scaled = scaled * ONE /\ ONE * scaled \in Nat /\ ONE * (q \div ONE) \in Nat
  BY <1>1, <1>8
<1> QED
  BY <1>5, <1>6, <1>8, <1>9, <1>10

\* A seizure is paid for.
LEMMA PaidStep ==
    ASSUME Inv, [Next]_vars, NEW b \in Borrowers, seized_from(b)
    PROVE  LET paid       == bank'[LENDING] - bank[LENDING]
               paid_value == value_usd(acted_on_prices, LENDING, paid)
               forgiven   == scaled_borrow'[b] = 0 /\ paid < payoff_of(b)
           IN  IF forgiven
               THEN /\ is_empty(borrower_collateral'[b])
                    /\ market_value_usd(acted_on_prices, borrower_collateral[b])
                         < value_usd(acted_on_prices, LENDING, payoff_of(b))
               ELSE /\ \/ paid_value <= market_value_usd(acted_on_prices, taken(b))
                       \/ scaled_borrow'[b] = 0 /\ market_value_usd(acted_on_prices, taken(b)) = 0
                    /\ market_value_usd(acted_on_prices, taken(b))
                         <= checked_mul(paid_value, contract.liquidation_bonus_rate)
<1>1. PICK s \in Operators, z \in Inputs.seizures, x \in Inputs.payments :
               Liquidate(s, b, z, x)
  BY SeizureIsLiquidation
<1>2. z \in [Collaterals -> Nat] /\ x \in Nat
  BY InputsAssumption DEF Amount
<1>0. PICK f : f = figures(b, z, x)
  OBVIOUS
<1>3. /\ can_liquidate(s, f)
      /\ f.held = borrower_collateral[b] /\ f.seize = z
      /\ f.scaled = scaled_borrow[b]
      /\ f.payoff = payoff_of(b) /\ f.prices = acted_on_prices
      /\ f.payoff \in Nat /\ f.repaid \in Nat /\ f.removed \in Nat /\ f.scaled \in Nat
      /\ f.residue = f.scaled - f.removed
      /\ f.removed = scaled_repaid(f.scaled, f.repaid, f.payoff, accrued.borrow_index)
      /\ f.repaid <= f.payoff
      /\ f.bad_debt \in BOOLEAN /\ (f.bad_debt => f.residue > 0)
      /\ bank'[LENDING] - bank[LENDING] = f.repaid
      /\ scaled_borrow'[b] = IF f.bad_debt THEN 0 ELSE f.residue
      /\ taken(b) = outgoing(f)
  BY <1>0, <1>1, SeizureFigures
<1>4. f.bad_debt => written_off(b)
  BY <1>0, <1>1, <1>2, WriteOffEmpties
<1>5. payoff_of(b) = scaled_to_underlying_borrow_ceil(f.scaled, accrued.borrow_index)
  BY <1>3 DEF payoff_of
<1>6. accrued.borrow_index \in Nat \ {0}
  BY AccruedFacts
<1>7. f.repaid < f.payoff => f.residue > 0
  BY <1>3, <1>5, <1>6, PartialPaymentLeavesDebt DEF scaled_repaid
<1>8. f.bad_debt => f.repaid < f.payoff
  BY <1>3 DEF scaled_repaid
<1>9. writeoff_is_insolvent(f) /\ within_value_band(f)
  BY <1>3 DEF can_liquidate
<1>10. CASE f.bad_debt
  BY <1>3, <1>4, <1>8, <1>9, <1>10 DEF writeoff_is_insolvent, written_off
<1>11. CASE ~f.bad_debt
  <2>1. ~(scaled_borrow'[b] = 0 /\ f.repaid < payoff_of(b))
    BY <1>3, <1>7, <1>11
  <2>2. taken(b) = f.seize
    BY <1>3, <1>11 DEF outgoing
  <2>3. /\ \/ f.residue = 0 /\ market_value_usd(f.prices, f.seize) = 0
           \/ market_value_usd(f.prices, f.seize) >= value_usd(f.prices, LENDING, f.repaid)
        /\ market_value_usd(f.prices, f.seize)
             <= checked_mul(value_usd(f.prices, LENDING, f.repaid),
                            contract.liquidation_bonus_rate)
    BY <1>9, <1>11 DEF within_value_band
  <2>4. \A m, v : m >= v <=> v <= m
    OBVIOUS
  <2> QED
    BY <1>3, <1>11, <2>1, <2>2, <2>3, <2>4
<1> QED
  BY <1>3, <1>10, <1>11

\* The same, as a property of every behaviour.
THEOREM SeizuresArePaidFor == Spec => SeizureIsPaidFor
<1>1. Inv /\ [Next]_vars
        => [ \A b \in Borrowers : seized_from(b) =>
               LET paid       == bank'[LENDING] - bank[LENDING]
                   paid_value == value_usd(acted_on_prices, LENDING, paid)
                   forgiven   == scaled_borrow'[b] = 0 /\ paid < payoff_of(b)
               IN  IF forgiven
                   THEN /\ is_empty(borrower_collateral'[b])
                        /\ market_value_usd(acted_on_prices, borrower_collateral[b])
                             < value_usd(acted_on_prices, LENDING, payoff_of(b))
                   ELSE /\ \/ paid_value <= market_value_usd(acted_on_prices, taken(b))
                           \/ scaled_borrow'[b] = 0
                              /\ market_value_usd(acted_on_prices, taken(b)) = 0
                        /\ market_value_usd(acted_on_prices, taken(b))
                             <= checked_mul(paid_value, contract.liquidation_bonus_rate) ]_vars
  BY PaidStep
<1> QED
  BY <1>1, InvIsInvariant, PTL DEF Spec, SeizureIsPaidFor

-----------------------------------------------------------------------------
\* A denom that is not held does not count: prices that agree on the lending
\* denom and on what is held judge alike.
LEMMA HealthOfSamePrices ==
    ASSUME NEW c, NEW p, NEW q, NEW held \in [Collaterals -> Nat], NEW debt,
           p[LENDING] = q[LENDING],
           \A a \in Denoms : p[a] \in Nat /\ q[a] \in Nat,
           \A a \in Collaterals : held[a] > 0 => p[a] = q[a]
    PROVE  get_borrower_health(c, p, held, debt) = get_borrower_health(c, q, held, debt)
<1>1. \A a \in Collaterals : value_usd(p, a, held[a]) = value_usd(q, a, held[a])
  <2> TAKE a \in Collaterals
  <2>1. CASE held[a] > 0
    BY <2>1 DEF value_usd
  <2>2. CASE held[a] = 0
    <3>1. p[a] * held[a] = q[a] * held[a]
      BY <2>2 DEF Denoms
    <3> QED
      BY <3>1 DEF value_usd
  <2> QED
    BY <2>1, <2>2
<1>2. calculate_total_collateral_value_usd(c, p, held) = calculate_total_collateral_value_usd(c, q, held)
  <2>1. [a \in Collaterals |->
            checked_mul(value_usd(p, a, held[a]), haircut_percentage(c, a))]
          = [a \in Collaterals |->
                checked_mul(value_usd(q, a, held[a]), haircut_percentage(c, a))]
    BY <1>1
  <2> QED
    BY <2>1 DEF calculate_total_collateral_value_usd
<1>3. calculate_borrow_value_usd(p, debt) = calculate_borrow_value_usd(q, debt)
  BY DEF calculate_borrow_value_usd, value_usd
<1> QED
  BY <1>2, <1>3 DEF get_borrower_health, calculate_ltv

\* The prices a liquidation acts on, and the last-known ones.
LEMMA PriceTypes ==
    ASSUME Inv
    PROVE  \A d \in Denoms : /\ acted_on_prices[d] \in Nat
                             /\ prices_with_unpriceable_last_known(quotes)[d] \in Nat
BY DEF Inv, TypeOK, Quotes, Atomics, acted_on_prices, liquidation_prices,
       prices_with_unpriceable_last_known

\* A stranger takes nothing without a usable quote, and liquidates, short of a
\* directed fill, only who is liquidatable with every last-known quote counted.
LEMMA StrangerStep ==
    ASSUME Inv, NEW s \in Operators, NEW b \in Borrowers,
           NEW z \in Inputs.seizures, NEW x \in Inputs.payments,
           contract.liquidation_access = Permissionless, s # ownership.owner,
           Liquidate(s, b, z, x)
    PROVE  /\ \A a \in Collaterals : taken(b)[a] > 0 => acted_on_prices[a] > 0
           /\ ~(is_live(directed_sale[b], now)
                  /\ is_seize_within_offer(directed_sale[b].amounts, z))
                => get_borrower_health(contract,
                       prices_with_unpriceable_last_known(quotes),
                       borrower_collateral[b], debt_of(b)) = Liquidatable
<1>0. PICK f : f = figures(b, z, x)
  OBVIOUS
<1>1. /\ can_liquidate(s, f)
      /\ f.held = borrower_collateral[b] /\ f.seize = z
      /\ f.debt = debt_of(b) /\ f.prices = acted_on_prices
      /\ f.directed <=> ( /\ is_live(directed_sale[b], now)
                          /\ is_seize_within_offer(directed_sale[b].amounts, z) )
      /\ f.dead = unpriceable(quotes, now, contract.max_liquidation_staleness_seconds,
                              borrower_collateral[b])
      /\ \A a \in Collaterals : f.left[a] = saturating_sub(borrower_collateral[b][a], z[a])
      /\ z \in [Collaterals -> Nat]
      /\ taken(b) = outgoing(f)
  BY <1>0, SeizureFigures
<1>2. /\ may_be_liquidated(f)
      /\ seizure_is_possible(f)
      /\ require_owner_for_unpriceable(f, s)
  BY <1>1 DEF can_liquidate
<1>3. /\ ~f.directed => ~unpriceable_is_load_bearing(f)
      /\ f.bad_debt => \A a \in f.dead : ~(f.left[a] > 0)
  BY <1>2 DEF require_owner_for_unpriceable, is_owner, assert_owner
<1>4. ASSUME NEW a \in Collaterals, borrower_collateral[b][a] > 0, a \notin f.dead
      PROVE  acted_on_prices[a] > 0
  BY <1>1, <1>4 DEF unpriceable, acted_on_prices, liquidation_prices, usable, Denoms
<1>5. \A a \in Collaterals : borrower_collateral[b][a] \in Nat /\ z[a] \in Nat
  BY <1>1, StoredTypes
<1>6. ASSUME NEW a \in Collaterals, taken(b)[a] > 0
      PROVE  acted_on_prices[a] > 0
  <2>1. CASE z[a] > 0
    <3>1. a \notin f.dead /\ borrower_collateral[b][a] >= z[a]
      BY <1>1, <1>2, <2>1 DEF seizure_is_possible, held_types
    <3> QED
      BY <1>4, <1>5, <2>1, <3>1
  <2>2. CASE z[a] = 0
    <3>1. f.bad_debt /\ borrower_collateral[b][a] > 0
      BY <1>1, <1>6, <2>2 DEF outgoing
    <3>2. f.left[a] > 0
      BY <1>1, <1>5, <2>2, <3>1 DEF saturating_sub
    <3> QED
      BY <1>3, <1>4, <3>1, <3>2
  <2> QED
    BY <1>5, <2>1, <2>2
<1>7. ASSUME ~f.directed
      PROVE  get_borrower_health(contract, prices_with_unpriceable_last_known(quotes),
                 borrower_collateral[b], debt_of(b)) = Liquidatable
  <2>1. CASE f.dead # {}
    BY <1>1, <1>3, <1>7, <2>1 DEF unpriceable_is_load_bearing
  <2>2. CASE f.dead = {}
    <3>1. get_borrower_health(contract, f.prices, f.held, f.debt) = Liquidatable
      BY <1>2, <1>7 DEF may_be_liquidated
    <3>2. \A a \in Collaterals : borrower_collateral[b][a] > 0 =>
              acted_on_prices[a] = prices_with_unpriceable_last_known(quotes)[a]
      BY <1>4, <2>2 DEF acted_on_prices, liquidation_prices, Denoms,
                        prices_with_unpriceable_last_known
    <3>3. acted_on_prices[LENDING] = prices_with_unpriceable_last_known(quotes)[LENDING]
      BY <1>1 DEF can_liquidate, has_position, acted_on_prices, liquidation_prices, Denoms,
                        prices_with_unpriceable_last_known
    <3>4. get_borrower_health(contract, prices_with_unpriceable_last_known(quotes),
              borrower_collateral[b], debt_of(b))
            = get_borrower_health(contract, acted_on_prices, borrower_collateral[b], debt_of(b))
      BY <1>5, <3>2, <3>3, PriceTypes, StoredTypes, HealthOfSamePrices
    <3> QED
      BY <1>1, <3>1, <3>4
  <2> QED
    BY <2>1, <2>2
<1> QED
  BY <1>1, <1>6, <1>7

\* The same, as a property of every behaviour.
THEOREM StrangersKeepOff == Spec => StrangersRespectDeadQuotes
<1>1. Inv /\ [Next]_vars
        => [ \A s \in Operators, b \in Borrowers, z \in Inputs.seizures, x \in Inputs.payments :
               /\ contract.liquidation_access = Permissionless
               /\ s # ownership.owner
               /\ seized_from(b)
               /\ Liquidate(s, b, z, x)
               => /\ \A a \in Collaterals : taken(b)[a] > 0 => acted_on_prices[a] > 0
                  /\ ~(is_live(directed_sale[b], now)
                         /\ is_seize_within_offer(directed_sale[b].amounts, z))
                       => get_borrower_health(contract,
                              prices_with_unpriceable_last_known(quotes),
                              borrower_collateral[b], debt_of(b)) = Liquidatable ]_vars
  BY StrangerStep
<1> QED
  BY <1>1, InvIsInvariant, PTL DEF Spec, StrangersRespectDeadQuotes
=============================================================================
