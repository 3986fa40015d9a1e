---------------------------- MODULE ScalerProofs ----------------------------
(***************************************************************************)
(* The operator of module Reconciler implements module Scaler, for every   *)
(* value of the constants: caches, versions, work queues and the Reconciles*)
(* in progress are invisible in what the API server stores.                *)
(***************************************************************************)
EXTENDS ReconcilerProofs

USE DEF store, caches

-----------------------------------------------------------------------------
(* What a Reconcile has observed and decided by each of its steps. *)

Observed(r) == r.kv \in Readings
Holding(r) == r.outcome = "Holding" /\ Desired(r) = r.current
Scaling(r) == r.current \in ReplicaCounts /\ Desired(r) # r.current
Scaled(r) ==
    /\ r.outcome \in {"ScaledUp", "ScaledDown", "ScaleFailed"}
    /\ r.outcome = "ScaledUp" => Desired(r) >= r.current
    /\ r.outcome = "ScaledDown" => Desired(r) < r.current
DecisionSoFar(r) ==
    /\ r.pc \in {"deployment", "update"} => Observed(r)
    /\ r.pc = "update" => Scaling(r)
    /\ r.pc = "status" =>
         \/ r.outcome = MetricsUnavailable
         \/ r.outcome = TargetDeploymentNotFound /\ Observed(r)
         \/ Holding(r) /\ Observed(r)
         \/ Scaled(r) /\ Scaling(r) /\ Observed(r)
DInv == IInv /\ \A o \in Operators : DecisionSoFar(rec[o])

LEMMA ConcludeFields ==
    ASSUME TypeOK, NEW o \in Operators, rec[o].pc # "idle", NEW reason, NEW events,
           Conclude(o, reason, events)
    PROVE  /\ rec'[o].pc = "status" /\ rec'[o].outcome = reason
           /\ rec'[o].kv = rec[o].kv /\ rec'[o].current = rec[o].current
           /\ rec'[o].obj = rec[o].obj
  BY InFlightRec DEF Conclude, TypeOK, InFlight

\* The decision a Reconcile carries to its Update and its status write is the
\* one the scaling rule makes of what it observed.
LEMMA DecisionStep == DInv /\ [Next]_vars => \A o \in Operators : DecisionSoFar(rec'[o])
<1> SUFFICES ASSUME DInv, [Next]_vars, NEW o \in Operators PROVE DecisionSoFar(rec'[o])
  OBVIOUS
<1> USE DEF DecisionSoFar, Observed
<1> TypeOK
  BY DEF DInv, IInv
<1>1. CASE rec'[o] = rec[o]
  BY <1>1 DEF DInv
<1>2. CASE rec'[o] = Idle
  BY <1>2 DEF Idle, Begin
<1>3. ASSUME NEW w \in Workloads, Fetch(o, w) PROVE DecisionSoFar(rec'[o])
  BY <1>3 DEF Fetch, Begin, TypeOK
<1>4. ASSUME rec[o].pc # "idle" PROVE rec[o] \in InFlight
  BY <1>4, InFlightRec
<1>5. ASSUME MetricsFailed(o) PROVE DecisionSoFar(rec'[o])
  BY <1>5, ConcludeFields DEF MetricsFailed
<1>6. ASSUME MetricsRead(o) PROVE DecisionSoFar(rec'[o])
  <2>1. rec[o] \in InFlight /\ rec[o].w \in Workloads
    BY <1>4, <1>6 DEF MetricsRead, InFlight
  <2>2. Answer(o) \in Readings
    BY <1>6, <2>1 DEF MetricsRead, Answer, Readings, TypeOK
  <2>3. rec'[o].pc = "deployment" /\ rec'[o].kv = Answer(o)
    BY <1>6, <2>1 DEF MetricsRead, TypeOK, InFlight
  <2> QED BY <2>2, <2>3
<1>7. ASSUME TargetMissing(o) PROVE DecisionSoFar(rec'[o])
  BY <1>7, ConcludeFields DEF TargetMissing, DInv
<1>8. ASSUME HoldSteady(o) \/ DecideToScale(o) PROVE DecisionSoFar(rec'[o])
  <2>1. rec[o] \in InFlight /\ rec[o].pc = "deployment"
    BY <1>4, <1>8 DEF HoldSteady, DecideToScale
  <2>2. Seen(o) \in ReplicaCounts
    BY <1>8, <2>1, TargetType DEF HoldSteady, DecideToScale, Seen, TypeOK
  <2>3. /\ rec'[o].kv = rec[o].kv /\ rec'[o].obj = rec[o].obj /\ rec'[o].current = Seen(o)
        /\ HoldSteady(o) => rec'[o].pc = "status" /\ rec'[o].outcome = "Holding"
        /\ DecideToScale(o) => rec'[o].pc = "update"
    BY <1>8, <2>1 DEF HoldSteady, DecideToScale, TypeOK, InFlight
  <2>4. Desired(rec'[o]) = Wanted(o)
    BY <2>3 DEF Desired, Wanted
  <2>5. Observed(rec'[o])
    BY <2>1, <2>3 DEF DInv
  <2>6. CASE HoldSteady(o)
    BY <2>3, <2>4, <2>5, <2>6 DEF HoldSteady, Holding
  <2>7. CASE DecideToScale(o)
    BY <2>2, <2>3, <2>4, <2>5, <2>7 DEF DecideToScale, Scaling
  <2> QED BY <1>8, <2>6, <2>7
<1>9. ASSUME Scale(o) \/ ScaleRejected(o) \/ ScaleFault(o) PROVE DecisionSoFar(rec'[o])
  <2>1. rec[o] \in InFlight /\ rec[o].pc = "update"
    BY <1>4, <1>9 DEF Scale, ScaleRejected, ScaleFault
  <2>2. /\ rec'[o].pc = "status"
        /\ rec'[o].kv = rec[o].kv /\ rec'[o].current = rec[o].current /\ rec'[o].obj = rec[o].obj
        /\ rec'[o].outcome \in {Direction(rec[o]), "ScaleFailed"}
    BY <1>9, <2>1, ConcludeFields DEF Scale, ScaleRejected, ScaleFault
  <2>3. Desired(rec'[o]) = Desired(rec[o])
    BY <2>2 DEF Desired
  <2>4. Desired(rec[o]) \in Int /\ rec[o].current \in Int
    BY <2>1, DesiredIsInt DEF Desired, InFlight, Objs
  <2>5. Scaled(rec'[o])
    BY <2>2, <2>3, <2>4 DEF Scaled, Direction
  <2>6. Scaling(rec'[o]) /\ Observed(rec'[o])
    BY <2>1, <2>2, <2>3 DEF Scaling, DInv
  <2> QED BY <2>2, <2>5, <2>6
<1> QED BY RecordStep, <1>1, <1>2, <1>3, <1>5, <1>6, <1>7, <1>8, <1>9 DEF DInv

-----------------------------------------------------------------------------
(* The writes. *)

LEMMA SameRule ==
    /\ \A n, kv, s : Promise!ComputeDesired(n, kv, s) = ComputeDesired(n, kv, s)
    /\ Promise!ReplicaCounts = ReplicaCounts
  BY DEF Promise!ComputeDesired, Promise!AtMost, Promise!AtLeast, Promise!Wrap, Promise!ReplicaCounts,
         ComputeDesired, AtMost, AtLeast, Wrap, ReplicaCounts

\* An Update that is accepted is a scaling of the stored count.
LEMMA UpdateIsRescale ==
    ASSUME DInv, NEW o \in Operators, rec[o].pc = "update", UpdateAccepted(o), ReplaceCount(o)
    PROVE  \E d \in Deployments : Promise!Rescale(d)
<1> TypeOK /\ CopiesAgree
  BY DEF DInv, IInv
<1>1. rec[o] \in InFlight
  BY InFlightRec
<1> DEFINE d == Target(o)
<1>2. d \in Deployments
  BY <1>1, TargetType
<1>3. deploy[d] = rec[o].current
  BY <1>2 DEF UpdateAccepted, CopiesAgree, HeldDeployment
<1>4. rec[o].current \in ReplicaCounts /\ rec[o].kv \in Readings
  BY DEF DInv, DecisionSoFar, Scaling, Observed
<1>5. deploy[d] # Absent
  BY <1>3, <1>4, ConstantsAssumption DEF ReplicaCounts
<1>6. rec[o].obj.spec \in Specs /\ rec[o].obj.spec.target = d
  BY <1>1 DEF InFlight, Objs, Target
<1>7. Desired(rec[o]) = Promise!ComputeDesired(deploy[d], rec[o].kv, rec[o].obj.spec)
  BY <1>3, SameRule DEF Desired
<1>8. Desired(rec[o]) \in Promise!ReplicaCounts
  BY SameRule DEF UpdateAccepted
<1>9. deploy' = [deploy EXCEPT ![d] = Desired(rec[o])] /\ wl' = wl
  BY DEF ReplaceCount
<1>10. Promise!Rescale(d)
  BY <1>4, <1>5, <1>6, <1>7, <1>8, <1>9 DEF Promise!Rescale
<1> QED BY <1>2, <1>10

\* The status of a Reconcile that holds the stored workload is explained.
LEMMA StatusExplained ==
    ASSUME DInv, NEW o \in Operators, rec[o].pc = "status"
    PROVE  Promise!Explained(rec[o].obj.status, NewStatus(rec[o]), rec[o].obj.spec)
<1> DEFINE r == rec[o]
           st == NewStatus(r)
<1> TypeOK
  BY DEF DInv, IInv
<1>1. r \in InFlight
  BY InFlightRec
<1>2. DecisionSoFar(r)
  BY DEF DInv
<1>3. /\ st.reason = r.outcome
      /\ st.kv = IF r.outcome = MetricsUnavailable THEN r.obj.status.kv ELSE r.kv
      /\ st.desired = IF r.outcome \in {MetricsUnavailable, TargetDeploymentNotFound}
                      THEN r.obj.status.desired ELSE Desired(r)
  BY DEF NewStatus
<1>4. CASE r.outcome = MetricsUnavailable
  BY <1>3, <1>4 DEF Promise!Explained, MetricsUnavailable
<1>5. CASE r.outcome = TargetDeploymentNotFound /\ Observed(r)
  BY <1>3, <1>5 DEF Promise!Explained, MetricsUnavailable, TargetDeploymentNotFound, Observed
<1>6. CASE Holding(r) /\ Observed(r)
  <2>1. st.reason = "Holding" /\ st.kv = r.kv /\ st.desired = r.current
    BY <1>3, <1>6 DEF Holding, MetricsUnavailable, TargetDeploymentNotFound
  <2>2. Promise!Decided(st.desired, st, r.obj.spec)
    BY <1>6, <2>1, SameRule DEF Promise!Decided, Holding, Desired
  <2> QED BY <1>6, <2>1, <2>2 DEF Promise!Explained, Observed
<1>7. CASE Scaled(r) /\ Scaling(r) /\ Observed(r)
  <2>1. st.reason = r.outcome /\ st.kv = r.kv /\ st.desired = Desired(r)
    BY <1>3, <1>7 DEF Scaled, MetricsUnavailable, TargetDeploymentNotFound
  <2>2. Promise!Decided(r.current, st, r.obj.spec)
    BY <2>1, SameRule DEF Promise!Decided, Desired
  <2>3. Desired(r) \in Int /\ r.current \in Int
    BY <1>1, DesiredIsInt DEF Desired, InFlight, Objs
  <2>4. /\ r.current \in Promise!ReplicaCounts \ {st.desired}
        /\ st.reason = "ScaledUp" => r.current < st.desired
        /\ st.reason = "ScaledDown" => r.current > st.desired
    BY <1>7, <2>1, <2>3, SameRule DEF Scaled, Scaling
  <2> QED BY <1>7, <2>1, <2>2, <2>4 DEF Promise!Explained, Scaled, Observed
<1> QED BY <1>2, <1>4, <1>5, <1>6, <1>7 DEF DecisionSoFar

\* A status write that is accepted is a report, or changes nothing.
LEMMA WriteIsReport ==
    ASSUME DInv, NEW o \in Operators, WriteStatus(o)
    PROVE  \E w \in Workloads : Promise!Report(w)
<1> TypeOK /\ CopiesAgree
  BY DEF DInv, IInv
<1> DEFINE w == rec[o].w
<1>1. rec[o] \in InFlight /\ rec[o].pc = "status" /\ w \in Workloads
  BY InFlightRec DEF WriteStatus, InFlight
<1>2. rec[o].obj = wl[w]
  BY <1>1 DEF WriteStatus, StatusAccepted, CopiesAgree, HeldWorkload
<1>3. wl[w] \in Objs
  BY <1>1, <1>2 DEF InFlight
<1>4. wl' = [wl EXCEPT ![w].status = NewStatus(rec[o])] /\ deploy' = deploy
  BY DEF WriteStatus
<1>5. wl'[w] = [wl[w] EXCEPT !.status = NewStatus(rec[o])]
  BY <1>1, <1>4 DEF TypeOK
<1>6. wl'[w].status = NewStatus(rec[o]) /\ wl'[w] \in Objs
  BY <1>1, <1>3, <1>5, NewStatusType DEF Objs
<1>7. wl' = [wl EXCEPT ![w].status = wl'[w].status]
  BY <1>4, <1>6
<1>8. wl[w] # Absent /\ wl'[w] # Absent
  BY <1>3, <1>6, AbsentAssumption
<1>9. wl'[w].status.gen = wl[w].gen
  BY <1>2, <1>6 DEF NewStatus
<1>10. Promise!Explained(wl[w].status, wl'[w].status, wl[w].spec)
  BY <1>1, <1>2, <1>6, StatusExplained
<1>11. Promise!Report(w)
  BY <1>4, <1>7, <1>8, <1>9, <1>10 DEF Promise!Report
<1> QED BY <1>1, <1>11

-----------------------------------------------------------------------------
(* The refinement. *)

LEMMA InitRefines == Init => Promise!Init
  BY DEF Init, Promise!Init, NewWorkload

\* Every step is a step of Scaler or changes nothing Scaler sees.
LEMMA NextRefines == DInv /\ [Next]_vars => [Promise!Next]_<<wl, deploy>>
<1> SUFFICES ASSUME DInv, [Next]_vars PROVE [Promise!Next]_<<wl, deploy>>
  OBVIOUS
<1> TypeOK
  BY DEF DInv, IInv
<1>1. ASSUME NEW o \in Operators, Scale(o) \/ ScaleFault(o)
      PROVE  Promise!Next \/ UNCHANGED <<wl, deploy>>
  <2>1. rec[o].pc = "update" /\ UpdateAccepted(o)
    BY <1>1 DEF Scale, ScaleFault
  <2>2. ReplaceCount(o) \/ UNCHANGED <<wl, deploy>>
    BY <1>1 DEF Scale, ScaleFault
  <2> QED BY <2>1, <2>2, UpdateIsRescale DEF Promise!Next
<1>2. ASSUME NEW o \in Operators, WriteStatus(o) PROVE Promise!Next
  BY <1>2, WriteIsReport DEF Promise!Next
<1>3. ASSUME NEW o \in Operators, Step(o) \/ Manager(o), ~Scale(o), ~WriteStatus(o)
      PROVE  UNCHANGED <<wl, deploy>>
  BY <1>3 DEF Step, Manager, Fetch, FetchGone, MetricsFailed, MetricsRead, TargetMissing, HoldSteady,
     DecideToScale, ScaleRejected, StatusRejected, Requeue, SyncWorkload, SyncDeployment
<1>4. ASSUME NEW w \in Workloads, NEW s \in Specs, EditSpec(w, s) \/ CreateWorkload(w, s)
      PROVE  Promise!Next
  <2>1. Promise!Edit(w, s) \/ Promise!Create(w, s)
    BY <1>4 DEF EditSpec, CreateWorkload, StoreWorkload, NewWorkload, Promise!Edit, Promise!Create
  <2> QED BY <2>1 DEF Promise!Next
<1>5. ASSUME NEW w \in Workloads, DeleteWorkload(w) PROVE Promise!Next
  <2>1. Promise!Delete(w)
    BY <1>5 DEF DeleteWorkload, StoreWorkload, Promise!Delete
  <2> QED BY <2>1 DEF Promise!Next
<1>6. ASSUME NEW w \in Workloads, TouchWorkload(w) PROVE UNCHANGED <<wl, deploy>>
  BY <1>6 DEF TouchWorkload, StoreWorkload, TypeOK
<1>7. ASSUME NEW d \in Deployments, TouchDeployment(d) PROVE UNCHANGED <<wl, deploy>>
  BY <1>7 DEF TouchDeployment, StoreDeployment, TypeOK
<1>8. ASSUME NEW d \in Deployments, NEW n \in Counts, ExternalScale(d, n) \/ CreateDeployment(d, n)
      PROVE  Promise!Next
  <2>1. n # Absent
    BY ConstantsAssumption DEF ReplicaCounts
  <2>2. Promise!SetCount(d, n)
    BY <1>8, <2>1 DEF ExternalScale, CreateDeployment, StoreDeployment, Promise!SetCount
  <2> QED BY <2>2 DEF Promise!Next
<1>9. ASSUME NEW d \in Deployments, DeleteDeployment(d) PROVE Promise!Next
  <2>1. Promise!SetCount(d, Absent)
    BY <1>9 DEF DeleteDeployment, StoreDeployment, Promise!SetCount
  <2> QED BY <2>1 DEF Promise!Next
<1>10. ASSUME \/ \E w \in Workloads, l \in Answers : ChangeLoad(w, l)
              \/ \E o \in Operators : StatusFault(o) \/ Restart(o)
       PROVE  UNCHANGED <<wl, deploy>>
  BY <1>10 DEF ChangeLoad, StatusFault, Restart
<1>11. ASSUME Undisturbed PROVE Promise!Next \/ UNCHANGED <<wl, deploy>>
  BY <1>1, <1>2, <1>3, <1>11 DEF Undisturbed
<1>12. ASSUME Disturbance PROVE Promise!Next \/ UNCHANGED <<wl, deploy>>
  BY <1>1, <1>4, <1>5, <1>6, <1>7, <1>8, <1>9, <1>10, <1>12 DEF Disturbance
<1> QED BY <1>11, <1>12 DEF Next, vars

\* The operator implements the abstract scaler.
THEOREM Refinement == Spec => ImplementsScaler
<1>1. Init => DInv
  <2>1. Init => \A o \in Operators : DecisionSoFar(rec[o])
    BY DEF Init, DecisionSoFar, Idle, Begin
  <2> QED BY <2>1, InitTypes, InitAgrees DEF DInv, IInv
<1>2. DInv /\ [Next]_vars => DInv'
  BY DecisionStep, NextTypes, NextAgrees DEF DInv, IInv
<1> QED BY <1>1, <1>2, InitRefines, NextRefines, PTL DEF Spec, ImplementsScaler, Promise!Spec

=============================================================================
