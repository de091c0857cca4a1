---------------------------- MODULE LendingBook ----------------------------
(***************************************************************************)
(* What the pool promises its users, without indexes, prices or coins:     *)
(* every transaction concerns the position of one account, or passes       *)
(* shares from one account to another.  Nobody's shares, debt or           *)
(* collateral change as a side effect of somebody else's transaction,      *)
(* except that a seizure takes collateral against a reduction of that      *)
(* borrower's debt.                                                        *)
(***************************************************************************)
EXTENDS Naturals

CONSTANTS Holders, Borrowers, Collaterals

VARIABLES
    shares,         \* repo token units, by holder
    debts,          \* scaled debt, by borrower
    pledged         \* collateral map, by borrower

book == <<shares, debts, pledged>>

OnlyShares(h)  == shares' = [shares EXCEPT ![h] = shares'[h]]
OnlyDebt(b)    == debts' = [debts EXCEPT ![b] = debts'[b]]
OnlyPledged(b) == pledged' = [pledged EXCEPT ![b] = pledged'[b]]

nothing_pledged(held) == \A a \in Collaterals : held[a] = 0
no_more(left, held)   == \A a \in Collaterals : left[a] <= held[a]

Supply(h) == OnlyShares(h) /\ shares'[h] > shares[h] /\ UNCHANGED <<debts, pledged>>
Redeem(h) == OnlyShares(h) /\ shares'[h] < shares[h] /\ UNCHANGED <<debts, pledged>>

Pass(h, k) ==
    /\ shares' = [shares EXCEPT ![h] = shares'[h], ![k] = shares'[k]]
    /\ shares'[k] > shares[k]
    /\ shares'[h] + shares'[k] = shares[h] + shares[k]
    /\ UNCHANGED <<debts, pledged>>

Draw(b) ==
    /\ OnlyDebt(b) /\ debts'[b] > debts[b]
    /\ ~nothing_pledged(pledged[b])
    /\ UNCHANGED <<shares, pledged>>

Settle(b) == OnlyDebt(b) /\ debts'[b] < debts[b] /\ UNCHANGED <<shares, pledged>>

Pledge(b) ==
    /\ OnlyPledged(b) /\ no_more(pledged[b], pledged'[b])
    /\ UNCHANGED <<shares, debts>>

\* An indebted borrower cannot take everything back.
Release(b) ==
    /\ OnlyPledged(b) /\ no_more(pledged'[b], pledged[b])
    /\ debts[b] > 0 => ~nothing_pledged(pledged'[b])
    /\ UNCHANGED <<shares, debts>>

\* A borrower left without collateral is left without debt.
Seize(b) ==
    /\ OnlyDebt(b) /\ debts'[b] < debts[b]
    /\ OnlyPledged(b) /\ no_more(pledged'[b], pledged[b])
    /\ nothing_pledged(pledged'[b]) => debts'[b] = 0
    /\ UNCHANGED shares

Init ==
    /\ shares = [h \in Holders |-> 0]
    /\ debts = [b \in Borrowers |-> 0]
    /\ pledged = [b \in Borrowers |-> [a \in Collaterals |-> 0]]

Next ==
    \/ \E h \in Holders : Supply(h) \/ Redeem(h)
    \/ \E h, k \in Holders : Pass(h, k)
    \/ \E b \in Borrowers : \/ Draw(b) \/ Settle(b)
                            \/ Pledge(b) \/ Release(b) \/ Seize(b)

Spec == Init /\ [][Next]_book
=============================================================================
