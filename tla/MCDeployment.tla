---------------------------- MODULE MCDeployment ----------------------------
(***************************************************************************)
(* A small instance of Deployment for TLC: two pools that may share the    *)
(* first of two tokens, a deployer and a stranger.                         *)
(***************************************************************************)
EXTENDS Deployment, TLC

Interchangeable == Permutations(Pools) \cup Permutations(Tokens) \cup Permutations(Accounts)
=============================================================================
