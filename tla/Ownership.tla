----------------------------- MODULE Ownership -----------------------------
(***************************************************************************)
(* packages/lib/src/common/ownership.rs: the two-step ownership transfer   *)
(* the three contracts share.  cw_ownable itself is external; it is        *)
(* modelled by the actions the wrapper passes on.  Renouncing is rejected  *)
(* by the wrapper, so there always is an owner.  NO_ONE stands for an      *)
(* absent pending owner.                                                   *)
(***************************************************************************)
EXTENDS Naturals

NO_ONE == "no_one"
NEVER  == 0         \* a transfer without an expiry

initialize_owner(owner) ==
    [owner |-> owner, pending_owner |-> NO_ONE, pending_expiry |-> NEVER]

assert_owner(o, sender) == sender = o.owner

expired(expiry, at) == expiry # NEVER /\ at >= expiry

\* Action::TransferOwnership, by the owner; an expiry must lie in the future.
can_transfer_ownership(o, sender, expiry, at) ==
    assert_owner(o, sender) /\ ~expired(expiry, at)
transfer_ownership(o, new_owner, expiry) ==
    [o EXCEPT !.pending_owner = new_owner, !.pending_expiry = expiry]

\* Action::AcceptOwnership, by the pending owner, before the expiry.
can_accept_ownership(o, sender, at) ==
    /\ o.pending_owner = sender
    /\ ~expired(o.pending_expiry, at)
accept_ownership(o) == initialize_owner(o.pending_owner)
=============================================================================
