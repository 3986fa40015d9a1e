------------------------------ MODULE LoadPlan ------------------------------
(***************************************************************************)
(* A load test as the server under load sees it: one stage of the plan     *)
(* after the other, each with exactly as much to do as the plan says until *)
(* it closes, and never more of it at work; a stage begins when the one    *)
(* before it has closed and come to rest.  The stages are those of a ramp, *)
(* the levels of concurrency of a sweep, or the turns of a chat.           *)
(***************************************************************************)
EXTENDS Integers, Sequences

VARIABLES
    plan,       \* the concurrency of each stage
    repeats,    \* the first stage follows the last
    stage,      \* the stage reached; 0 where there is no plan to follow
    pool,       \* sessions or requests of the stage that is open
    busy        \* those at work on the server

vars == <<plan, repeats, stage, pool, busy>>

Init ==
    \/ stage = 0
    \/ stage = 1 /\ pool = plan[1] /\ busy = 0

\* Requests begin and end; at some moment the stage closes for good.
Work ==
    /\ stage > 0
    /\ pool' \in {pool, 0}
    /\ busy' \in 0 .. plan[stage]
    /\ UNCHANGED <<plan, repeats, stage>>

Following == IF stage < Len(plan) THEN {stage + 1} ELSE IF repeats THEN {1} ELSE {}

Advance ==
    /\ stage > 0
    /\ pool = 0 /\ busy = 0
    /\ stage' \in Following
    /\ pool' = plan[stage']
    /\ busy' = 0
    /\ UNCHANGED <<plan, repeats>>

\* A generator that a user started has no plan to follow.
Unplanned == stage = 0 /\ UNCHANGED <<plan, repeats, stage>>

Next == Work \/ Advance \/ Unplanned

Spec == Init /\ [][Next]_vars

=============================================================================
