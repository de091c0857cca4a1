--------------------------- MODULE MCPoolSolvency ---------------------------
(***************************************************************************)
(* The small instance book of MCPool with the record that PoolSolvency     *)
(* adds to it.  Its amounts are large and its truncation coarse, so that   *)
(* the margin does fall below 0 and the record is what makes up for it.    *)
(***************************************************************************)
EXTENDS MCPool, PoolSolvency
=============================================================================
