----------------------------- MODULE PointsMath -----------------------------
(***************************************************************************)
(* The pure arithmetic of internal/service/points_math.go.                 *)
(***************************************************************************)
EXTENDS Integers, FiniteSetsExt

Shift(deltas) == MapThenSumSet(LAMBDA a : deltas[a], DOMAIN deltas)

\* The base cost plus the deltas of the active adjustments, floored at zero once,
\* after the sum.  `deltas' maps each active adjustment to its delta.
EffectiveCost(base, deltas) == Max({0, base + Shift(deltas)})
=============================================================================
