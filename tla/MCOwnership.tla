---------------------------- MODULE MCOwnership ----------------------------
(* Small instances of Ownership. *)
EXTENDS OwnershipInv, TLC

Symmetry == Permutations(Session)

(* The clocks of the hosts are not all the slowest there can be.            *)
RapidInit == Init /\ \E s \in Session : skew[s] = MaxSkew

RapidSpec == RapidInit /\ [][Next]_vars
=============================================================================
