------------------------------ MODULE MCBudget ------------------------------
(* Budget with a few consumers, for TLC. *)
EXTENDS Budget, TLC

CONSTANTS alice, bob, carol, dave, erin

(* More caps than MaxConsumers, and names known only from a client.  *)
SomeCapped == {alice, bob, carol, dave, erin}
ThreeCaps == alice :> 2 @@ bob :> 1 @@ carol :> 1

CallerSymmetry == Permutations(Callers)
============================================================================
