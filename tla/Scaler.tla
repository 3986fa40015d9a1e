------------------------------- MODULE Scaler -------------------------------
(***************************************************************************)
(* What the operator promises its users, without caches, work queues,      *)
(* versions or Reconciles in progress: a scaling is one atomic step from   *)
(* the stored count to the count the scaling rule computes from it, and a  *)
(* report is one atomic write of a status that the stored spec explains.   *)
(* Any number of operator processes together must look like this.          *)
(***************************************************************************)
EXTENDS ScalingRule

CONSTANTS
    Workloads, Deployments, Specs, Counts,
    Readings,       \* what metrics endpoints may answer
    Disturbances,   \* "scale", "target", "edit", "lifecycle": what others may write
    Absent,
    NoStatus        \* the status of a new workload

VARIABLES wl, deploy

-----------------------------------------------------------------------------
(* The operator.                                                           *)

\* The usage a rescaling was decided on, and the spec, are those of some
\* moment; the count it moves is the stored one.
Rescale(d) ==
    /\ deploy[d] # Absent
    /\ \E s \in Specs, kv \in Readings :
          /\ s.target = d
          /\ ComputeDesired(deploy[d], kv, s) \in ReplicaCounts
          /\ deploy' = [deploy EXCEPT ![d] = ComputeDesired(deploy[d], kv, s)]
    /\ UNCHANGED wl

\* n is the count the decision started from.
Decided(n, st, spec) == st.desired = ComputeDesired(n, st.kv, spec)

\* A status st that may replace the status old of a workload with this spec:
\* what was not observed keeps its value, what was decided follows by the
\* scaling rule from the recorded usage.
Explained(old, st, spec) ==
    \/ st.reason = "MetricsUnavailable" /\ st.kv = old.kv /\ st.desired = old.desired
    \/ st.reason = "TargetDeploymentNotFound" /\ st.kv \in Readings /\ st.desired = old.desired
    \/ st.reason = "Holding" /\ st.kv \in Readings /\ Decided(st.desired, st, spec)
    \/ /\ st.reason \in {"ScaledUp", "ScaledDown", "ScaleFailed"}
       /\ st.kv \in Readings
       /\ \E n \in ReplicaCounts \ {st.desired} :
             /\ Decided(n, st, spec)
             /\ st.reason = "ScaledUp" => n < st.desired
             /\ st.reason = "ScaledDown" => n > st.desired

Report(w) ==
    /\ wl[w] # Absent /\ wl'[w] # Absent
    /\ wl' = [wl EXCEPT ![w].status = wl'[w].status]
    /\ wl'[w].status.gen = wl[w].gen
    /\ Explained(wl[w].status, wl'[w].status, wl[w].spec)
    /\ UNCHANGED deploy

-----------------------------------------------------------------------------
(* Everybody else.                                                         *)

Edit(w, s) ==
    /\ "edit" \in Disturbances
    /\ wl[w] # Absent
    /\ wl' = [wl EXCEPT ![w] = [spec |-> s, gen |-> wl[w].gen + 1, status |-> wl[w].status]]
    /\ UNCHANGED deploy

Delete(w) ==
    /\ "lifecycle" \in Disturbances
    /\ wl' = [wl EXCEPT ![w] = Absent]
    /\ UNCHANGED deploy

Create(w, s) ==
    /\ "lifecycle" \in Disturbances
    /\ wl[w] = Absent
    /\ wl' = [wl EXCEPT ![w] = [spec |-> s, gen |-> 1, status |-> NoStatus]]
    /\ UNCHANGED deploy

\* A Deployment is scaled, or deleted, or created.
SetCount(d, n) ==
    /\ IF n = Absent \/ deploy[d] = Absent THEN "target" \in Disturbances
       ELSE "scale" \in Disturbances
    /\ deploy' = [deploy EXCEPT ![d] = n]
    /\ UNCHANGED wl

-----------------------------------------------------------------------------
Init ==
    /\ wl \in [Workloads -> {[spec |-> s, gen |-> 1, status |-> NoStatus] : s \in Specs}]
    /\ deploy \in [Deployments -> Counts \cup {Absent}]

Next ==
    \/ \E d \in Deployments : Rescale(d) \/ \E n \in Counts \cup {Absent} : SetCount(d, n)
    \/ \E w \in Workloads : Report(w) \/ Delete(w) \/ \E s \in Specs : Edit(w, s) \/ Create(w, s)

Spec == Init /\ [][Next]_<<wl, deploy>>

=============================================================================
