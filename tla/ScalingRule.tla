---------------------------- MODULE ScalingRule ----------------------------
(***************************************************************************)
(* The hysteresis-band scaling rule of the operator: the pure function     *)
(* computeDesiredReplicas of workloadlifecycle_controller.go, over Go's    *)
(* int32, and the facts about one application of it that the properties of *)
(* the reconciler are stated with.                                         *)
(*                                                                         *)
(* A workload's spec is a record: target (targetDeployment), high          *)
(* (kvCacheThresholdPercent), low (kvCacheScaleDownThresholdPercent), min  *)
(* (minReplicas) and max (maxReplicas).                                    *)
(***************************************************************************)
EXTENDS Integers

CONSTANT Half   \* 2^31 in the program: an int32 lies in -Half .. Half-1

ASSUME HalfAssumption == Half \in Nat \ {0}

Int32 == -Half .. Half - 1

\* A replica count as the API server stores one: an int32 that is not negative.
ReplicaCounts == 0 .. Half - 1

\* int32 addition of +1 or -1: the result leaves the range by at most one.
Wrap(n) == IF n >= Half THEN n - 2 * Half
           ELSE IF n < -Half THEN n + 2 * Half
           ELSE n

AtMost(n, bound) == IF n > bound THEN bound ELSE n
AtLeast(n, bound) == IF n < bound THEN bound ELSE n

\* Mutant: the count is compared with the bound before it is moved.
ComputeUncapped(current, kv, spec) ==
    CASE kv > spec.high -> Wrap(AtMost(current, spec.max) + 1)
      [] kv <= spec.high /\ kv < spec.low -> AtLeast(Wrap(current - 1), spec.min)
      [] OTHER -> current

\* Mutant: the step down has no bound.
ComputeFloorless(current, kv, spec) ==
    CASE kv > spec.high -> AtMost(Wrap(current + 1), spec.max)
      [] kv <= spec.high /\ kv < spec.low -> Wrap(current - 1)
      [] OTHER -> current

ComputeDesired(current, kv, spec) ==
    CASE kv > spec.high -> AtMost(Wrap(current + 1), spec.max)
      [] kv <= spec.high /\ kv < spec.low -> AtLeast(Wrap(current - 1), spec.min)
      [] OTHER -> current

-----------------------------------------------------------------------------
(* Vocabulary of the properties. *)

InBounds(n, spec) == n \in spec.min .. spec.max

\* How far a count lies outside the configured bounds.
Excess(n, spec) == IF n > spec.max THEN n - spec.max
                   ELSE IF n < spec.min THEN spec.min - n
                   ELSE 0

\* How far a count is from where the rule comes to rest while the usage stays.
Remaining(n, kv, spec) ==
    CASE kv > spec.high -> IF n > spec.max THEN n - spec.max ELSE spec.max - n
      [] kv <= spec.high /\ kv < spec.low -> IF n > spec.min THEN n - spec.min ELSE spec.min - n
      [] OTHER -> 0

=============================================================================
