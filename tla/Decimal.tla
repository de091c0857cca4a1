------------------------------ MODULE Decimal ------------------------------
(***************************************************************************)
(* The fixed-point arithmetic the contracts compute with.                  *)
(*                                                                         *)
(* A Decimal256 is an unsigned integer number of atomics, ONE of which     *)
(* make the number 1 (10^18 in the code).  Coin amounts, scaled balances   *)
(* and token balances are plain naturals.  Decimal256 multiplication and   *)
(* division truncate towards zero; that truncation is what every rounding  *)
(* property of the pool is about, so it is kept.  ONE is a parameter: the  *)
(* model checker uses a small ONE, so that truncation bites after a few    *)
(* steps, and the proofs hold for every ONE.                               *)
(***************************************************************************)
EXTENDS Integers

CONSTANT
    ONE             \* atomics in the decimal number 1

ASSUME OneAssumption == ONE \in Nat \ {0}

Amount  == Nat      \* u128: coins, scaled balances, token balances
Atomics == Nat      \* Decimal256, by its atomics

\* Decimal256::checked_mul and Decimal256::checked_div.
checked_mul(x, y) == (x * y) \div ONE
checked_div(x, y) == (x * ONE) \div y

\* Decimal256::from_ratio.
from_ratio(num, den) == (num * ONE) \div den

\* The whole part of a decimal, and the whole part rounded up.
floor_to_u128(x) == x \div ONE
ceil_to_u128(x)  == (x \div ONE) + (IF x % ONE = 0 THEN 0 ELSE 1)

saturating_sub(x, y) == IF x >= y THEN x - y ELSE 0

lesser(x, y) == IF x <= y THEN x ELSE y
=============================================================================
