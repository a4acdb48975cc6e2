----------------------------- MODULE MCDelivery -----------------------------
(* Small instances of Delivery for TLC. *)
EXTENDS Delivery, TLC

CONSTANTS alice, bob, a1, b1, b2

MCAgents == {alice, bob}
MCConns == {a1, b1, b2}
MCOwner == (a1 :> alice) @@ (b1 :> bob) @@ (b2 :> bob)

MCOwnerB == (b1 :> bob) @@ (b2 :> bob)

Symm == Permutations({b1, b2})

=============================================================================
