----------------------------- MODULE MCMigration -----------------------------
(***************************************************************************)
(* A small instance of Migration for TLC: a pool and another contract, in  *)
(* every state old code may have left, and three releases of the code.     *)
(***************************************************************************)
EXTENDS Migration

CONSTANTS pool, other, ann, bob

MCContractName == [c \in {pool, other} |-> IF c = pool THEN "pool" ELSE "other"]

OldOwnerships == {initialize_owner(o) : o \in {ann, NO_ONE}}

MCLegacy ==
    { s \in [ version : {0}, legacy_admin : {bob, NO_ONE}, ownership : OldOwnerships,
              custodian : {ann, NO_ONE}, liquidator : {bob, NO_ONE},
              liquidation_access : {"owner_only", "permissionless"} ] :
        s.legacy_admin # NO_ONE \/ s.ownership.owner # NO_ONE }

MCCodes == [name : {"pool", "other"}, version : 1..2]
=============================================================================
