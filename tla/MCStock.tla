------------------------------- MODULE MCStock -------------------------------
(* Small instances of Stock for TLC. *)
EXTENDS Stock, TLC

CONSTANTS shelf, stock, partner, loss

Ask(p, n, a, b) == [pick |-> p, demand |-> n, src |-> a, dst |-> b]
TwoShelves == [l \in Locations |-> IF l = stock THEN {shelf} ELSE {}]
OneOnHand == [l \in {stock, loss, partner} |-> IF l = stock THEN 1 ELSE 0]
OneEachWay == <<Ask(1, 1, partner, stock), Ask(2, 2, stock, partner)>>
OneFromStock == {<<stock, 1>>}
Symmetry == Permutations(Requests)
=============================================================================
