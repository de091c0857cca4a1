----------------------------- MODULE MCRepoToken -----------------------------
(***************************************************************************)
(* A small instance of RepoToken for TLC: a holder, an owner, the pool that*)
(* mints and a second contract that can become minter or pool.  The token  *)
(* starts without a pool, as when it is instantiated before it.            *)
(***************************************************************************)
EXTENDS RepoToken, TLC

CONSTANTS holder, boss, first_pool, second_pool

MCAddresses == {holder, boss, first_pool, second_pool}
=============================================================================
