--------------------------- MODULE MCRedemptions ----------------------------
(***************************************************************************)
(* Instances of Redemptions for TLC, priced by PointsMath.                 *)
(***************************************************************************)
EXTENDS Redemptions, PointsMath, TLC

MCPriceOf(base, deltas) == EffectiveCost(base, deltas)

BothKinds     == {"self_serve", "needs_approval"}

OneOrTwo  == {1, 2}
JustOne   == {1}
MinusTwo  == {-2}
NoDeltas  == {}

AllOps      == OpNames

Symmetry == Permutations(Requests)
=============================================================================
