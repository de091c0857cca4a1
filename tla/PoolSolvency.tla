---------------------------- MODULE PoolSolvency ----------------------------
(***************************************************************************)
(* The pool with a record of what truncation may have cost it so far, so   *)
(* that its solvency can be stated over a whole history rather than one    *)
(* transaction at a time.  spent is an auxiliary variable, in atomics:     *)
(* nothing in the contracts stores it and no message depends on it.        *)
(***************************************************************************)
EXTENDS PoolProperties

CONSTANT
    MaxSpent    \* bound of the model on spent, which grows for ever

VARIABLE
    spent       \* what accruals and loans may have lost to truncation

solvency_vars == <<vars, spent>>

\* The accrual of a reserve that is behind the block time (update_reserve_indexes):
\* an atomic for each scaled unit of debt, and one part in ONE of the debt.
accrual_cost ==
    IF reserve.last_updated_at < now
    THEN reserve.total_scaled_borrow + total_borrow(reserve) \div ONE
    ELSE 0

\* A loan recorded at a quotient that was truncated before it was rounded up
\* (underlying_to_scaled_borrow_ceil): less than borrow_index / ONE, so nothing
\* until interest has accrued.
loan_cost ==
    IF \E b \in Borrowers, x \in Inputs.borrows : Borrow(b, x)
    THEN (accrued.borrow_index - 1) \div ONE
    ELSE 0

SolvencyInit == Init /\ spent = 0

\* A message that leaves the stored reserve as it was has accrued nothing.
SolvencyNext ==
    /\ Next
    /\ spent' = spent + loan_cost + (IF reserve' = reserve THEN 0 ELSE accrual_cost)
    /\ spent' <= MaxSpent

SolvencySpec == SolvencyInit /\ [][SolvencyNext]_solvency_vars

-----------------------------------------------------------------------------
\* The pool is solvent over its whole life, up to truncation: coins, loans and
\* booked losses cover the claims of the lenders and the fees of the protocol,
\* at the indexes of now, but for the atomics that accruals and loans have lost.
\* No order of loans, repayments, seizures, write-offs, haircuts, donations and
\* fee withdrawals adds anything to that.
SolventUpToTruncation == Margin + spent + accrual_cost >= 0
=============================================================================
