-------------------------- MODULE ReconcilerProofs --------------------------
(***************************************************************************)
(* Proofs, for every value of the constants, of what the runs check of     *)
(* module Reconciler on small instances.                                   *)
(***************************************************************************)
EXTENDS ReconcilerProperties, TLAPS

USE DEF store, caches

-----------------------------------------------------------------------------
(* The scaling rule. *)

\* Whatever the spec, the scaling rule computes an integer.
LEMMA DesiredIsInt ==
    ASSUME NEW current \in Int, NEW kv \in Int, NEW s \in Specs
    PROVE  ComputeDesired(current, kv, s) \in Int
  <1>1. s.high \in Int /\ s.low \in Int /\ s.min \in Int /\ s.max \in Int
    BY ConstantsAssumption
  <1>2. Wrap(current + 1) \in Int /\ Wrap(current - 1) \in Int
    BY HalfAssumption DEF Wrap
  <1>3. /\ AtMost(Wrap(current + 1), s.max) \in Int
        /\ AtLeast(Wrap(current - 1), s.min) \in Int
    BY <1>1, <1>2 DEF AtMost, AtLeast
  <1> QED BY <1>1, <1>3 DEF ComputeDesired

-----------------------------------------------------------------------------
(* Types. *)

\* A Reconcile past its first step holds a well-formed record.
LEMMA InFlightRec ==
    ASSUME TypeOK, NEW o \in Operators, rec[o].pc # "idle"
    PROVE  rec[o] \in InFlight
  BY DEF TypeOK, Idle, Begin

LEMMA IdleRec ==
    ASSUME TypeOK, NEW o \in Operators, rec[o].pc = "idle"
    PROVE  rec[o].w = Absent
  <1>1. rec[o] \in InFlight \cup {Idle}
    BY DEF TypeOK
  <1>2. rec[o] \notin InFlight
    BY DEF InFlight
  <1> QED BY <1>1, <1>2 DEF Idle, Begin

LEMMA TargetType ==
    ASSUME NEW o \in Operators, rec[o] \in InFlight
    PROVE  Target(o) \in Deployments
  BY ConstantsAssumption DEF InFlight, Objs, Target, AcceptedSpec

LEMMA NewStatusType ==
    ASSUME NEW r \in InFlight
    PROVE  NewStatus(r) \in Status
  <1>1. r.obj \in Objs /\ r.obj.status \in Status /\ r.obj.spec \in Specs /\ r.obj.gen \in Nat
    BY DEF InFlight, Objs
  <1>2. Desired(r) \in Int
    BY <1>1, DesiredIsInt DEF InFlight, Desired
  <1> QED BY <1>1, <1>2 DEF NewStatus, Status, InFlight

\* The record a Reconcile starts with.
LEMMA FetchType ==
    ASSUME NEW w \in Workloads, NEW x \in Objs
    PROVE  Begin("metrics", w, x) \in InFlight
  <1>1. NoReason \in Reasons
    BY DEF Reasons
  <1> QED BY <1>1 DEF Begin, InFlight

\* What every exit of Reconcile leaves in its record.
LEMMA ConcludeType ==
    ASSUME TypeOK, NEW o \in Operators, rec[o].pc # "idle",
           NEW reason \in Reasons, NEW events \in SUBSET EventReasons,
           Conclude(o, reason, events)
    PROVE  rec' \in [Operators -> InFlight \cup {Idle}]
  <1>1. rec[o] \in InFlight
    BY InFlightRec
  <1>2. [rec[o] EXCEPT !.pc = "status", !.outcome = reason, !.emitted = @ \cup events]
          \in InFlight
    BY <1>1 DEF InFlight
  <1> QED BY <1>2 DEF Conclude, TypeOK

\* The end of a Reconcile.
LEMMA FinishType ==
    ASSUME TypeOK, NEW o \in Operators, rec[o].pc = "status", Finish(o)
    PROVE  /\ rec' \in [Operators -> InFlight \cup {Idle}]
           /\ delayed' \in [Operators -> SUBSET Workloads]
  <1>1. rec[o].w \in Workloads
    BY InFlightRec DEF InFlight
  <1> QED BY <1>1 DEF Finish, TypeOK

\* Writes of objects by other clients.
LEMMA StoreWorkloadType ==
    ASSUME TypeOK, NEW w \in Workloads, NEW x \in Objs \cup {Absent}, StoreWorkload(w, x)
    PROVE  TypeOK'
  BY DEF TypeOK, StoreWorkload, AfterWrite

LEMMA StoreDeploymentType ==
    ASSUME TypeOK, NEW d \in Deployments, NEW n \in ReplicaCounts \cup {Absent},
           StoreDeployment(d, n)
    PROVE  TypeOK'
  BY DEF TypeOK, StoreDeployment, AfterWrite

\* The inductive invariant.  TypeOK alone is not inductive: that a status is
\* only ever written to a workload that exists follows from the copies' versions.
IInv == TypeOK /\ CopiesAgree

LEMMA InitTypes == Init => TypeOK
  <1> SUFFICES ASSUME Init PROVE TypeOK
    OBVIOUS
  <1>1. \A s \in Specs : NewWorkload(s) \in Objs
    BY DEF NewWorkload, NoStatus, Objs, Status, Reasons
  <1>2. Counts \subseteq ReplicaCounts
    BY ConstantsAssumption
  <1> QED BY <1>1, <1>2 DEF Init, TypeOK, Objects

LEMMA NextTypes == IInv /\ [Next]_vars => TypeOK'
<1> SUFFICES ASSUME TypeOK, CopiesAgree, [Next]_vars PROVE TypeOK'
  BY DEF IInv
<1>1. ASSUME NEW o \in Operators, NEW w \in Workloads, Fetch(o, w) PROVE TypeOK'
  <2>1. wlCache[o][w] \in Objs
    BY <1>1 DEF Fetch, TypeOK
  <2>2. Begin("metrics", w, wlCache[o][w]) \in InFlight
    BY <2>1, FetchType
  <2> QED BY <1>1, <2>2 DEF Fetch, Copy, Objects, TypeOK
<1>2. ASSUME NEW o \in Operators, NEW w \in Workloads, FetchGone(o, w) PROVE TypeOK'
  BY <1>2 DEF FetchGone, TypeOK
<1>3. ASSUME NEW o \in Operators, MetricsFailed(o) PROVE TypeOK'
  <2>1. Warning(rec[o], MetricsUnavailable) \in SUBSET EventReasons
    BY DEF Warning, EventReasons, FailureReasons
  <2>2. MetricsUnavailable \in Reasons
    BY DEF Reasons, FailureReasons
  <2> QED BY <1>3, <2>1, <2>2, ConcludeType DEF MetricsFailed, TypeOK
<1>4. ASSUME NEW o \in Operators, MetricsRead(o) PROVE TypeOK'
  <2>1. rec[o] \in InFlight
    BY <1>4, InFlightRec DEF MetricsRead
  <2>2. Answer(o) \in Int
    BY <1>4, <2>1, ConstantsAssumption, HalfAssumption
       DEF MetricsRead, Answer, TypeOK, InFlight, Int32
  <2>3. Recovery(rec[o], MetricsUnavailable) \in SUBSET EventReasons
    BY DEF Recovery, EventReasons
  <2>4. [rec[o] EXCEPT !.pc = "deployment", !.kv = Answer(o),
                       !.emitted = @ \cup Recovery(rec[o], MetricsUnavailable)] \in InFlight
    BY <2>1, <2>2, <2>3 DEF InFlight
  <2> QED BY <1>4, <2>4 DEF MetricsRead, TypeOK
<1>5. ASSUME NEW o \in Operators, TargetMissing(o) PROVE TypeOK'
  <2>1. Warning(rec[o], TargetDeploymentNotFound) \in SUBSET EventReasons
    BY DEF Warning, EventReasons, FailureReasons
  <2>2. TargetDeploymentNotFound \in Reasons
    BY DEF Reasons, FailureReasons
  <2> QED BY <1>5, <2>1, <2>2, ConcludeType DEF TargetMissing, TypeOK
<1>6. ASSUME NEW o \in Operators, HoldSteady(o) \/ DecideToScale(o) PROVE TypeOK'
  <2>1. rec[o] \in InFlight
    BY <1>6, InFlightRec DEF HoldSteady, DecideToScale
  <2>2. Target(o) \in Deployments
    BY <2>1, TargetType
  <2>3. Seen(o) \in Int
    BY <1>6, <2>2, HalfAssumption DEF HoldSteady, DecideToScale, Seen, TypeOK, ReplicaCounts
  <2>4. Recovery(rec[o], TargetDeploymentNotFound) \in SUBSET EventReasons
    BY DEF Recovery, EventReasons
  <2>5. [rec[o] EXCEPT !.pc = "status", !.outcome = "Holding", !.current = Seen(o),
                !.emitted = @ \cup Recovery(rec[o], TargetDeploymentNotFound)] \in InFlight
    BY <2>1, <2>3, <2>4 DEF InFlight, Reasons
  <2>6. [rec[o] EXCEPT !.pc = "update", !.current = Seen(o),
                !.emitted = @ \cup Recovery(rec[o], TargetDeploymentNotFound)] \in InFlight
    BY <2>1, <2>3, <2>4 DEF InFlight
  <2>7. CASE HoldSteady(o)
    BY <2>7, <2>5 DEF HoldSteady, TypeOK
  <2>8. CASE DecideToScale(o)
    BY <2>8, <2>6, <2>2 DEF DecideToScale, TypeOK, Copy, Objects
  <2> QED BY <1>6, <2>7, <2>8
<1>7. ASSUME NEW o \in Operators, Scale(o) \/ ScaleRejected(o) \/ ScaleFault(o) PROVE TypeOK'
  <2>1. rec[o].pc = "update"
    BY <1>7 DEF Scale, ScaleRejected, ScaleFault
  <2>2. /\ Direction(rec[o]) \in Reasons
        /\ {Direction(rec[o])} \in SUBSET EventReasons
    BY DEF Direction, Reasons, EventReasons, ScaleReasons
  <2>3. /\ "ScaleFailed" \in Reasons
        /\ Warning(rec[o], "ScaleFailed") \in SUBSET EventReasons
    BY DEF Warning, Reasons, EventReasons, FailureReasons
  <2>4. rec' \in [Operators -> InFlight \cup {Idle}]
    BY <1>7, <2>1, <2>2, <2>3, ConcludeType DEF Scale, ScaleRejected, ScaleFault
  <2>5. ASSUME UpdateAccepted(o), ReplaceCount(o) PROVE TypeOK'
    BY <2>4, <2>5 DEF UpdateAccepted, ReplaceCount, TypeOK, AfterWrite
  <2>6. ASSUME UNCHANGED <<store, caches, inSync, queue, delayed>> PROVE TypeOK'
    BY <2>4, <2>6 DEF TypeOK
  <2> QED BY <1>7, <2>5, <2>6 DEF Scale, ScaleRejected, ScaleFault
<1>8. ASSUME NEW o \in Operators, WriteStatus(o) PROVE TypeOK'
  <2>1. rec[o] \in InFlight
    BY <1>8, InFlightRec DEF WriteStatus
  <2>2. wl' \in [Workloads -> Objs \cup {Absent}]
    <3>1. NewStatus(rec[o]) \in Status
      BY <2>1, NewStatusType
    <3>2. wl[rec[o].w] \in Objs
      BY <1>8, <2>1 DEF WriteStatus, StatusAccepted, CopiesAgree, HeldWorkload, InFlight
    <3>3. [wl[rec[o].w] EXCEPT !.status = NewStatus(rec[o])] \in Objs
      BY <3>1, <3>2 DEF Objs
    <3> QED BY <1>8, <3>3 DEF WriteStatus, TypeOK
  <2>3. inSync' \subseteq Operators \X {"cache", "held"} \X Objects
    BY <1>8 DEF WriteStatus, AfterWrite, Held, TypeOK
  <2> QED BY <1>8, <2>2, <2>3, FinishType DEF WriteStatus, TypeOK
<1>9. ASSUME NEW o \in Operators, StatusRejected(o) \/ StatusFault(o) PROVE TypeOK'
  <2>1. inSync' \subseteq Operators \X {"cache", "held"} \X Objects
    BY <1>9 DEF StatusRejected, StatusFault, Held, TypeOK
  <2> QED BY <1>9, <2>1, FinishType DEF StatusRejected, StatusFault, TypeOK
<1>10. ASSUME NEW o \in Operators, NEW w \in Workloads, Requeue(o, w) \/ SyncWorkload(o, w)
       PROVE  TypeOK'
  <2>1. CASE Requeue(o, w)
    BY <2>1 DEF Requeue, TypeOK
  <2>2. CASE SyncWorkload(o, w)
    <3>1. <<o, "cache", w>> \in Operators \X {"cache", "held"} \X Objects
      BY DEF Objects
    <3> QED BY <2>2, <3>1 DEF SyncWorkload, TypeOK
  <2> QED BY <1>10, <2>1, <2>2
<1>11. ASSUME NEW o \in Operators, NEW d \in Deployments, SyncDeployment(o, d) PROVE TypeOK'
  BY <1>11 DEF SyncDeployment, TypeOK, Objects
<1>12. ASSUME NEW w \in Workloads, NEW s \in Specs, EditSpec(w, s) \/ CreateWorkload(w, s)
       PROVE  TypeOK'
  <2>1. CASE EditSpec(w, s)
    <3>1. [spec |-> s, gen |-> wl[w].gen + 1, status |-> wl[w].status] \in Objs
      BY <2>1 DEF EditSpec, TypeOK, Objs
    <3> QED BY <2>1, <3>1, StoreWorkloadType DEF EditSpec
  <2>2. CASE CreateWorkload(w, s)
    <3>1. NewWorkload(s) \in Objs
      BY DEF NewWorkload, NoStatus, Objs, Status, Reasons
    <3> QED BY <2>2, <3>1, StoreWorkloadType DEF CreateWorkload
  <2> QED BY <1>12, <2>1, <2>2
<1>13. ASSUME NEW w \in Workloads, TouchWorkload(w) \/ DeleteWorkload(w) PROVE TypeOK'
  <2>1. wl[w] \in Objs \cup {Absent}
    BY DEF TypeOK
  <2> QED BY <1>13, <2>1, StoreWorkloadType DEF TouchWorkload, DeleteWorkload
<1>14. ASSUME NEW w \in Workloads, NEW l \in Answers, ChangeLoad(w, l) PROVE TypeOK'
  BY <1>14 DEF ChangeLoad, TypeOK
<1>15. ASSUME NEW d \in Deployments, NEW n \in Counts, ExternalScale(d, n) \/ CreateDeployment(d, n)
       PROVE  TypeOK'
  <2>1. n \in ReplicaCounts
    BY ConstantsAssumption
  <2> QED BY <1>15, <2>1, StoreDeploymentType DEF ExternalScale, CreateDeployment
<1>16. ASSUME NEW d \in Deployments, TouchDeployment(d) \/ DeleteDeployment(d) PROVE TypeOK'
  <2>1. deploy[d] \in ReplicaCounts \cup {Absent}
    BY DEF TypeOK
  <2> QED BY <1>16, <2>1, StoreDeploymentType DEF TouchDeployment, DeleteDeployment
<1>17. ASSUME NEW o \in Operators, Restart(o) PROVE TypeOK'
  <2>1. inSync' \subseteq Operators \X {"cache", "held"} \X Objects
    BY <1>17 DEF Restart, TypeOK, Held
  <2>2. /\ wlCache' \in [Operators -> [Workloads -> Objs \cup {Absent}]]
        /\ depCache' \in [Operators -> [Deployments -> ReplicaCounts \cup {Absent}]]
    BY <1>17 DEF Restart, TypeOK
  <2>3. /\ queue' \in [Operators -> SUBSET Workloads]
        /\ delayed' \in [Operators -> SUBSET Workloads]
        /\ rec' \in [Operators -> InFlight \cup {Idle}]
    BY <1>17 DEF Restart, TypeOK
  <2>4. wl' = wl /\ deploy' = deploy /\ load' = load
    BY <1>17 DEF Restart
  <2> QED BY <2>1, <2>2, <2>3, <2>4 DEF TypeOK
<1>18. CASE UNCHANGED vars
  BY <1>18 DEF vars, TypeOK
<1> QED
  BY <1>1, <1>2, <1>3, <1>4, <1>5, <1>6, <1>7, <1>8, <1>9, <1>10, <1>11, <1>12, <1>13, <1>14,
     <1>15, <1>16, <1>17, <1>18
  DEF Next, Undisturbed, Step, Manager, Disturbance

-----------------------------------------------------------------------------
(* Agreement of copies that carry the stored version. *)

LEMMA InitAgrees == Init => CopiesAgree
  BY DEF Init, CopiesAgree, CachedWorkload, CachedDeployment, HeldWorkload, HeldDeployment,
         IsCurrent, Objects

LEMMA NextAgrees == IInv /\ [Next]_vars => CopiesAgree'
<1> SUFFICES ASSUME TypeOK, CopiesAgree, [Next]_vars PROVE CopiesAgree'
  BY DEF IInv
<1> USE DEF CopiesAgree, CachedWorkload, CachedDeployment, HeldWorkload, HeldDeployment,
            IsCurrent, Target
<1>1. ASSUME NEW o \in Operators, NEW w \in Workloads, Fetch(o, w) PROVE CopiesAgree'
  BY <1>1, ConstantsAssumption DEF Fetch, Copy, Begin, TypeOK
<1>2. ASSUME NEW o \in Operators, NEW w \in Workloads, FetchGone(o, w) PROVE CopiesAgree'
  BY <1>2 DEF FetchGone
<1>3. ASSUME NEW o \in Operators, MetricsFailed(o) PROVE CopiesAgree'
  BY <1>3 DEF MetricsFailed, Conclude, TypeOK
<1>4. ASSUME NEW o \in Operators, MetricsRead(o) PROVE CopiesAgree'
  <2>1. rec[o] \in InFlight
    BY <1>4, InFlightRec DEF MetricsRead
  <2>2. /\ rec'[o].pc = "deployment" /\ rec'[o].w = rec[o].w /\ rec'[o].obj = rec[o].obj
        /\ \A p \in Operators \ {o} : rec'[p] = rec[p]
    BY <1>4, <2>1 DEF MetricsRead, TypeOK, InFlight
  <2>3. rec[o].pc = "metrics" /\ UNCHANGED <<store, caches, inSync>>
    BY <1>4 DEF MetricsRead
  <2> QED BY <2>2, <2>3
<1>5. ASSUME NEW o \in Operators, TargetMissing(o) PROVE CopiesAgree'
  BY <1>5 DEF TargetMissing, Conclude, TypeOK
<1>6. ASSUME NEW o \in Operators, HoldSteady(o) PROVE CopiesAgree'
  <2>1. rec[o] \in InFlight
    BY <1>6, InFlightRec DEF HoldSteady
  <2>2. /\ rec'[o].pc = "status" /\ rec'[o].w = rec[o].w /\ rec'[o].obj = rec[o].obj
        /\ \A p \in Operators \ {o} : rec'[p] = rec[p]
    BY <1>6, <2>1 DEF HoldSteady, TypeOK, InFlight
  <2>3. rec[o].pc = "deployment" /\ UNCHANGED <<store, caches, inSync>>
    BY <1>6 DEF HoldSteady
  <2> QED BY <2>2, <2>3
<1>7. ASSUME NEW o \in Operators, DecideToScale(o) PROVE CopiesAgree'
  <2>1. rec[o] \in InFlight
    BY <1>7, InFlightRec DEF DecideToScale
  <2>2. /\ rec'[o].pc = "update" /\ rec'[o].w = rec[o].w /\ rec'[o].obj = rec[o].obj
        /\ rec'[o].current = Seen(o)
        /\ \A p \in Operators \ {o} : rec'[p] = rec[p]
    BY <1>7, <2>1 DEF DecideToScale, TypeOK, InFlight
  <2>3. /\ rec[o].pc = "deployment" /\ UNCHANGED <<store, caches>>
        /\ inSync' = inSync \cup Copy(o, Target(o))
    BY <1>7 DEF DecideToScale
  <2>4. Target(o) \in Deployments
    BY <2>1, TargetType
  <2>6. ASSUME NEW p \in Operators, NEW w \in Workloads
        PROVE  CachedWorkload(p, w)' /\ HeldWorkload(p, w)'
    BY <2>2, <2>3, <2>4, ConstantsAssumption DEF Copy
  <2>7. ASSUME NEW p \in Operators, NEW d \in Deployments
        PROVE  CachedDeployment(p, d)' /\ HeldDeployment(p, d)'
    BY <2>2, <2>3, <2>4 DEF Copy, Seen
  <2> QED BY <2>6, <2>7
<1>8. ASSUME NEW o \in Operators, Scale(o) PROVE CopiesAgree'
  BY <1>8 DEF Scale, ReplaceCount, AfterWrite, Conclude, TypeOK
<1>9. ASSUME NEW o \in Operators, ScaleRejected(o) PROVE CopiesAgree'
  BY <1>9 DEF ScaleRejected, Conclude, TypeOK
<1>10. ASSUME NEW o \in Operators, ScaleFault(o) PROVE CopiesAgree'
  BY <1>10 DEF ScaleFault, ReplaceCount, AfterWrite, Conclude, TypeOK
<1>11. ASSUME NEW o \in Operators, WriteStatus(o) PROVE CopiesAgree'
  BY <1>11 DEF WriteStatus, Finish, AfterWrite, Held, TypeOK
<1>12. ASSUME NEW o \in Operators, StatusRejected(o) \/ StatusFault(o) PROVE CopiesAgree'
  <2>1. /\ \A p \in Operators \ {o} : rec'[p] = rec[p]
        /\ inSync' = inSync \ Held(o)
        /\ UNCHANGED <<store, caches>>
    BY <1>12 DEF StatusRejected, StatusFault, Finish, TypeOK
  <2> QED BY <2>1 DEF Held
<1>13. ASSUME NEW o \in Operators, NEW w \in Workloads, Requeue(o, w) PROVE CopiesAgree'
  BY <1>13 DEF Requeue
<1>14. ASSUME NEW o \in Operators, NEW w \in Workloads, SyncWorkload(o, w) PROVE CopiesAgree'
  BY <1>14, ConstantsAssumption DEF SyncWorkload, TypeOK
<1>15. ASSUME NEW o \in Operators, NEW d \in Deployments, SyncDeployment(o, d) PROVE CopiesAgree'
  BY <1>15, ConstantsAssumption DEF SyncDeployment, TypeOK
<1>16. ASSUME NEW w \in Workloads, NEW x, StoreWorkload(w, x) PROVE CopiesAgree'
  BY <1>16 DEF StoreWorkload, AfterWrite, TypeOK
<1>17. ASSUME NEW d \in Deployments, NEW x, StoreDeployment(d, x) PROVE CopiesAgree'
  BY <1>17 DEF StoreDeployment, AfterWrite, TypeOK
<1>18. ASSUME NEW w \in Workloads, NEW l \in Answers, ChangeLoad(w, l) PROVE CopiesAgree'
  BY <1>18 DEF ChangeLoad
<1>19. ASSUME NEW o \in Operators, Restart(o) PROVE CopiesAgree'
  BY <1>19 DEF Restart, Held, TypeOK, Objects
<1>20. CASE UNCHANGED vars
  BY <1>20 DEF vars
<1> QED
  BY <1>1, <1>2, <1>3, <1>4, <1>5, <1>6, <1>7, <1>8, <1>9, <1>10, <1>11, <1>12, <1>13, <1>14,
     <1>15, <1>16, <1>17, <1>18, <1>19, <1>20
  DEF Next, Undisturbed, Step, Manager, Disturbance, EditSpec, CreateWorkload, TouchWorkload,
      DeleteWorkload, ExternalScale, CreateDeployment, TouchDeployment, DeleteDeployment

\* The invariant every other theorem rests on.
THEOREM Inductive == Spec => []IInv
<1>1. Init => IInv
  BY InitTypes, InitAgrees DEF IInv
<1>2. IInv /\ [Next]_vars => IInv'
  BY NextTypes, NextAgrees DEF IInv
<1> QED BY <1>1, <1>2, PTL DEF Spec

\* The state keeps its types along every step.
THEOREM TypeCorrect == Spec => []TypeOK
<1>1. IInv => TypeOK
  BY DEF IInv
<1> QED BY <1>1, Inductive, PTL

\* Every copy that carries the stored version is the stored object.
THEOREM Agreement == Spec => []CopiesAgree
<1>1. IInv => CopiesAgree
  BY DEF IInv
<1> QED BY <1>1, Inductive, PTL

-----------------------------------------------------------------------------
(* What the writes promise. *)

\* The only operator step that changes a Deployment is an accepted Update.
LEMMA UpdateStep ==
    ASSUME IInv, [Next]_vars, NEW o \in Operators, NEW d \in Deployments,
           Updating(o), deploy'[d] # deploy[d]
    PROVE  /\ d = Target(o)
           /\ deploy'[d] = Desired(rec[o])
           /\ deploy[d] = rec[o].current
           /\ rec[o] \in InFlight
           /\ deploy'[d] \in ReplicaCounts
<1>1. ASSUME NEW p \in Operators, Step(p) \/ Manager(p), ~Scale(p) PROVE deploy' = deploy
  BY <1>1 DEF Step, Manager, Fetch, FetchGone, MetricsFailed, MetricsRead, TargetMissing, HoldSteady,
     DecideToScale, ScaleRejected, WriteStatus, StatusRejected, Requeue, SyncWorkload, SyncDeployment
<1>2. ASSUME Disturbance, \A p \in Operators : ~ScaleFault(p)
      PROVE  deploy' = deploy \/ rec' = rec
  BY <1>2 DEF Disturbance, EditSpec, TouchWorkload, DeleteWorkload, CreateWorkload, StoreWorkload,
     ExternalScale, TouchDeployment, DeleteDeployment, CreateDeployment, StoreDeployment,
     ChangeLoad, StatusFault, Restart
<1>3. PICK p \in Operators : Scale(p) \/ ScaleFault(p)
  <2>1. deploy' # deploy /\ rec' # rec
    BY DEF Updating
  <2> QED BY <2>1, <1>1, <1>2 DEF Next, Undisturbed, vars
<1>4. UpdateAccepted(p) /\ ReplaceCount(p)
  BY <1>3 DEF Scale, ScaleFault
<1>5. p = o
  <2>1. \A q \in Operators \ {p} : rec'[q] = rec[q]
    BY <1>3 DEF Scale, ScaleFault, Conclude, IInv, TypeOK
  <2> QED BY <2>1 DEF Updating
<1>6. rec[o] \in InFlight
  BY InFlightRec DEF Updating, IInv
<1>7. Target(o) \in Deployments
  BY <1>6, TargetType
<1>8. d = Target(o) /\ deploy'[d] = Desired(rec[o])
  BY <1>4, <1>5 DEF ReplaceCount, IInv, TypeOK
<1>9. deploy[d] = rec[o].current
  BY <1>4, <1>5, <1>7, <1>8 DEF UpdateAccepted, IInv, CopiesAgree, HeldDeployment
<1> QED BY <1>4, <1>5, <1>6, <1>8, <1>9 DEF UpdateAccepted

\* A scaling decision is only ever applied to the count it was computed from.
THEOREM ScalesFromStored == Spec => ScalesFromStoredCount
<1> DEFINE A == \A o \in Operators : \A d \in Deployments :
                  Updating(o) /\ deploy'[d] # deploy[d] =>
                    /\ d = Target(o)
                    /\ deploy'[d] = ComputeDesired(deploy[d], rec[o].kv, rec[o].obj.spec)
<1>1. IInv /\ [Next]_vars => A
  BY UpdateStep DEF Desired
<1>2. IInv /\ [Next]_vars => [A]_vars
  BY <1>1
<1> QED BY <1>2, Inductive, PTL DEF Spec, ScalesFromStoredCount

\* One application of the rule: inside the bounds it stays inside and moves by
\* one in the direction of the pressure, outside it never moves further out.
LEMMA DesiredWithinBounds ==
    ASSUME NEW n \in ReplicaCounts, NEW kv \in Int, NEW s \in Specs,
           s.min <= s.max, ComputeDesired(n, kv, s) # n,
           ComputeDesired(n, kv, s) \in ReplicaCounts
    PROVE  LET m == ComputeDesired(n, kv, s)
           IN /\ Excess(m, s) <= Excess(n, s)
              /\ InBounds(n, s) => /\ InBounds(m, s)
                                   /\ \/ m = n + 1 /\ kv > s.high
                                      \/ m = n - 1 /\ kv < s.low
<1>1. /\ s.high \in Int /\ s.low \in Int
      /\ s.min \in 1 .. Half - 1 /\ s.max \in 1 .. Half - 1
  BY ConstantsAssumption, HalfAssumption DEF AcceptedSpec, ReplicaCounts, Int32
<1>2. CASE kv > s.high
  <2>1. ComputeDesired(n, kv, s) = AtMost(Wrap(n + 1), s.max)
    BY <1>1, <1>2 DEF ComputeDesired
  <2> QED BY <1>1, <1>2, <2>1, HalfAssumption DEF AtMost, Wrap, Excess, InBounds, ReplicaCounts
<1>3. CASE kv <= s.high /\ kv < s.low
  <2>1. ComputeDesired(n, kv, s) = AtLeast(Wrap(n - 1), s.min)
    BY <1>1, <1>3 DEF ComputeDesired
  <2> QED BY <1>1, <1>3, <2>1, HalfAssumption DEF AtLeast, Wrap, Excess, InBounds, ReplicaCounts
<1>4. CASE kv <= s.high /\ kv >= s.low
  BY <1>1, <1>4 DEF ComputeDesired
<1> QED BY <1>1, <1>2, <1>3, <1>4

\* No Update takes a count out of bounds it was in, or further out.
THEOREM Bounded == Spec => MovesWithinBounds
<1> DEFINE A == \A o \in Operators : \A d \in Deployments :
          LET s == rec[o].obj.spec
              kv == rec[o].kv
          IN Updating(o) /\ deploy'[d] # deploy[d] /\ s.min <= s.max =>
               /\ Excess(deploy'[d], s) <= Excess(deploy[d], s)
               /\ InBounds(deploy[d], s) =>
                    /\ InBounds(deploy'[d], s)
                    /\ \/ deploy'[d] = deploy[d] + 1 /\ kv > s.high
                       \/ deploy'[d] = deploy[d] - 1 /\ kv < s.low
<1>1. ASSUME IInv, [Next]_vars, NEW o \in Operators, NEW d \in Deployments,
             Updating(o), deploy'[d] # deploy[d], rec[o].obj.spec.min <= rec[o].obj.spec.max
      PROVE  LET s == rec[o].obj.spec
                 kv == rec[o].kv
             IN /\ Excess(deploy'[d], s) <= Excess(deploy[d], s)
                /\ InBounds(deploy[d], s) =>
                     /\ InBounds(deploy'[d], s)
                     /\ \/ deploy'[d] = deploy[d] + 1 /\ kv > s.high
                        \/ deploy'[d] = deploy[d] - 1 /\ kv < s.low
  <2>1. /\ deploy'[d] = ComputeDesired(deploy[d], rec[o].kv, rec[o].obj.spec)
        /\ deploy[d] \in Int
        /\ rec[o].kv \in Int /\ rec[o].obj.spec \in Specs
        /\ deploy'[d] \in ReplicaCounts
    BY <1>1, UpdateStep DEF Desired, InFlight, Objs
  <2>2. deploy[d] \in ReplicaCounts
    BY <2>1, ConstantsAssumption, <1>1 DEF IInv, TypeOK
  <2> QED BY <1>1, <2>1, <2>2, DesiredWithinBounds
<1>2. IInv /\ [Next]_vars => [A]_vars
  BY <1>1
<1> QED BY <1>2, Inductive, PTL DEF Spec, MovesWithinBounds

\* One application of the rule that changes the count brings it strictly
\* closer to where the rule rests, whatever the bounds and the bands.
LEMMA DesiredIsCloser ==
    ASSUME NEW n \in ReplicaCounts, NEW kv \in Int, NEW s \in Specs,
           ComputeDesired(n, kv, s) # n,
           ComputeDesired(n, kv, s) \in ReplicaCounts
    PROVE  Remaining(ComputeDesired(n, kv, s), kv, s) < Remaining(n, kv, s)
<1>1. /\ s.high \in Int /\ s.low \in Int
      /\ s.min \in 1 .. Half - 1 /\ s.max \in 1 .. Half - 1
  BY ConstantsAssumption, HalfAssumption DEF AcceptedSpec, ReplicaCounts, Int32
<1>2. CASE kv > s.high
  <2>1. ComputeDesired(n, kv, s) = AtMost(Wrap(n + 1), s.max)
    BY <1>1, <1>2 DEF ComputeDesired
  <2>2. \A m : Remaining(m, kv, s) = IF m > s.max THEN m - s.max ELSE s.max - m
    BY <1>1, <1>2 DEF Remaining
  <2> QED BY <1>1, <2>1, <2>2, HalfAssumption DEF AtMost, Wrap, ReplicaCounts
<1>3. CASE kv <= s.high /\ kv < s.low
  <2>1. ComputeDesired(n, kv, s) = AtLeast(Wrap(n - 1), s.min)
    BY <1>1, <1>3 DEF ComputeDesired
  <2>2. \A m : Remaining(m, kv, s) = IF m > s.min THEN m - s.min ELSE s.min - m
    BY <1>1, <1>3 DEF Remaining
  <2> QED BY <1>1, <2>1, <2>2, HalfAssumption DEF AtLeast, Wrap, ReplicaCounts
<1>4. CASE kv <= s.high /\ kv >= s.low
  BY <1>1, <1>4 DEF ComputeDesired
<1> QED BY <1>1, <1>2, <1>3, <1>4

\* The distance is a natural number, so it cannot shrink for ever.
LEMMA RemainingIsNat ==
    ASSUME NEW n \in ReplicaCounts, NEW kv \in Int, NEW s \in Specs
    PROVE  Remaining(n, kv, s) \in Nat
<1>1. s.high \in Int /\ s.low \in Int /\ s.min \in Int /\ s.max \in Int
  BY ConstantsAssumption
<1>2. CASE kv > s.high
  <2>1. Remaining(n, kv, s) = IF n > s.max THEN n - s.max ELSE s.max - n
    BY <1>1, <1>2 DEF Remaining
  <2> QED BY <1>1, <2>1, HalfAssumption DEF ReplicaCounts
<1>3. CASE kv <= s.high /\ kv < s.low
  <2>1. Remaining(n, kv, s) = IF n > s.min THEN n - s.min ELSE s.min - n
    BY <1>1, <1>3 DEF Remaining
  <2> QED BY <1>1, <2>1, HalfAssumption DEF ReplicaCounts
<1>4. CASE kv <= s.high /\ kv >= s.low
  <2>1. Remaining(n, kv, s) = 0
    BY <1>1, <1>4 DEF Remaining
  <2> QED BY <2>1
<1> QED BY <1>1, <1>2, <1>3, <1>4

\* Where the rule rests: the distance is used up exactly at the fixed points
\* of computeDesiredReplicas.  The one count it cannot leave properly is the
\* largest int32: under pressure the increment wraps to a count below zero.
THEOREM RestsWhereNothingRemains ==
    ASSUME NEW n \in ReplicaCounts, NEW kv \in Int, NEW s \in Specs
    PROVE  /\ n # Half - 1 =>
                (ComputeDesired(n, kv, s) = n <=> Remaining(n, kv, s) = 0)
           /\ n = Half - 1 /\ kv > s.high => ComputeDesired(n, kv, s) \notin ReplicaCounts
<1>1. /\ s.high \in Int /\ s.low \in Int
      /\ s.min \in 1 .. Half - 1 /\ s.max \in 1 .. Half - 1
  BY ConstantsAssumption, HalfAssumption DEF AcceptedSpec, ReplicaCounts, Int32
<1>2. CASE kv > s.high
  <2>1. ComputeDesired(n, kv, s) = AtMost(Wrap(n + 1), s.max)
    BY <1>1, <1>2 DEF ComputeDesired
  <2>2. Remaining(n, kv, s) = IF n > s.max THEN n - s.max ELSE s.max - n
    BY <1>1, <1>2 DEF Remaining
  <2> QED BY <1>1, <2>1, <2>2, HalfAssumption DEF AtMost, Wrap, ReplicaCounts
<1>3. CASE kv <= s.high /\ kv < s.low
  <2>1. ComputeDesired(n, kv, s) = AtLeast(Wrap(n - 1), s.min)
    BY <1>1, <1>3 DEF ComputeDesired
  <2>2. Remaining(n, kv, s) = IF n > s.min THEN n - s.min ELSE s.min - n
    BY <1>1, <1>3 DEF Remaining
  <2> QED BY <1>1, <1>3, <2>1, <2>2, HalfAssumption DEF AtLeast, Wrap, ReplicaCounts
<1>4. CASE kv <= s.high /\ kv >= s.low
  <2>1. ComputeDesired(n, kv, s) = n
    BY <1>1, <1>4 DEF ComputeDesired
  <2>2. Remaining(n, kv, s) = 0
    BY <1>1, <1>4 DEF Remaining
  <2> QED BY <1>1, <1>4, <2>1, <2>2
<1> QED BY <1>1, <1>2, <1>3, <1>4

\* Every Update brings the count closer to where the rule rests for the usage
\* and the spec it was decided on.
THEOREM Approaching == Spec => UpdatesApproachRest
<1> DEFINE A == \A o \in Operators : \A d \in Deployments :
          LET s == rec[o].obj.spec
              kv == rec[o].kv
          IN Updating(o) /\ deploy'[d] # deploy[d] =>
               Remaining(deploy'[d], kv, s) < Remaining(deploy[d], kv, s)
<1>1. ASSUME IInv, [Next]_vars, NEW o \in Operators, NEW d \in Deployments,
             Updating(o), deploy'[d] # deploy[d]
      PROVE  Remaining(deploy'[d], rec[o].kv, rec[o].obj.spec)
               < Remaining(deploy[d], rec[o].kv, rec[o].obj.spec)
  <2>1. /\ deploy'[d] = ComputeDesired(deploy[d], rec[o].kv, rec[o].obj.spec)
        /\ deploy[d] \in Int
        /\ rec[o].kv \in Int /\ rec[o].obj.spec \in Specs
        /\ deploy'[d] \in ReplicaCounts
    BY <1>1, UpdateStep DEF Desired, InFlight, Objs
  <2>2. deploy[d] \in ReplicaCounts
    BY <2>1, ConstantsAssumption, <1>1 DEF IInv, TypeOK
  <2> QED BY <1>1, <2>1, <2>2, DesiredIsCloser
<1>2. IInv /\ [Next]_vars => [A]_vars
  BY <1>1
<1> QED BY <1>2, Inductive, PTL DEF Spec, UpdatesApproachRest

\* The only step that changes the status of a workload that stays is an
\* accepted write of a Reconcile that holds the stored object.
LEMMA StatusStep ==
    ASSUME IInv, [Next]_vars, NEW w \in Workloads, StatusChanges(w)
    PROVE  \E o \in Operators :
             /\ rec[o] \in InFlight /\ rec[o].pc = "status"
             /\ rec[o].w = w /\ rec[o].obj = wl[w]
             /\ wl'[w] = [wl[w] EXCEPT !.status = NewStatus(rec[o])]
<1>1. ASSUME NEW p \in Operators, Step(p) \/ Manager(p), ~WriteStatus(p) PROVE wl' = wl
  BY <1>1 DEF Step, Manager, Fetch, FetchGone, MetricsFailed, MetricsRead, TargetMissing, HoldSteady,
     DecideToScale, Scale, ScaleRejected, ReplaceCount, StatusRejected, Requeue, SyncWorkload,
     SyncDeployment
<1>2. ASSUME Disturbance PROVE ~StatusChanges(w)
  <2>1. ASSUME NEW v \in Workloads, NEW s \in Specs, EditSpec(v, s) PROVE ~StatusChanges(w)
    <3>1. wl' = [wl EXCEPT ![v] = [spec |-> s, gen |-> wl[v].gen + 1, status |-> wl[v].status]]
      BY <2>1 DEF EditSpec, StoreWorkload
    <3>2. CASE w = v
      BY <3>1, <3>2 DEF StatusChanges, IInv, TypeOK
    <3>3. CASE w # v
      BY <3>1, <3>3 DEF StatusChanges, IInv, TypeOK
    <3> QED BY <3>2, <3>3
  <2>2. ASSUME NEW v \in Workloads, NEW s \in Specs, CreateWorkload(v, s) PROVE ~StatusChanges(w)
    BY <2>2 DEF CreateWorkload, StoreWorkload, StatusChanges, IInv, TypeOK
  <2>3. ASSUME NEW v \in Workloads, TouchWorkload(v) \/ DeleteWorkload(v) PROVE ~StatusChanges(w)
    BY <2>3 DEF TouchWorkload, DeleteWorkload, StoreWorkload, StatusChanges, IInv, TypeOK
  <2>4. ASSUME wl' = wl PROVE ~StatusChanges(w)
    BY <2>4 DEF StatusChanges
  <2> QED BY <1>2, <2>1, <2>2, <2>3, <2>4
          DEF Disturbance, ChangeLoad, ExternalScale, CreateDeployment, TouchDeployment,
              DeleteDeployment, StoreDeployment, ScaleFault, ReplaceCount, StatusFault, Restart
<1>3. PICK o \in Operators : WriteStatus(o)
  <2>1. wl' # wl
    BY DEF StatusChanges
  <2> QED BY <2>1, <1>1, <1>2 DEF Next, Undisturbed, vars
<1>4. rec[o] \in InFlight /\ rec[o].pc = "status"
  BY <1>3, InFlightRec DEF WriteStatus, IInv
<1>5. rec[o].w = w
  BY <1>3 DEF WriteStatus, StatusChanges, IInv, TypeOK
<1>6. rec[o].obj = wl[w]
  BY <1>3, <1>5 DEF WriteStatus, StatusAccepted, IInv, CopiesAgree, HeldWorkload
<1>7. wl'[w] = [wl[w] EXCEPT !.status = NewStatus(rec[o])]
  BY <1>3, <1>5 DEF WriteStatus, IInv, TypeOK
<1> QED BY <1>4, <1>5, <1>6, <1>7

\* A stored status vouches for the spec it was computed from.
THEOREM Vouching == Spec => StatusVouchesForSpec
<1> DEFINE A == \A w \in Workloads : StatusChanges(w) =>
                  /\ wl'[w].status.gen = wl[w].gen
                  /\ wl'[w].spec = wl[w].spec
                  /\ \E o \in Operators : rec[o].w = w /\ rec[o].obj.spec = wl[w].spec
<1>1. ASSUME IInv, [Next]_vars, NEW w \in Workloads, StatusChanges(w)
      PROVE  /\ wl'[w].status.gen = wl[w].gen
             /\ wl'[w].spec = wl[w].spec
             /\ \E o \in Operators : rec[o].w = w /\ rec[o].obj.spec = wl[w].spec
  <2>1. PICK o \in Operators :
             /\ rec[o] \in InFlight /\ rec[o].w = w /\ rec[o].obj = wl[w]
             /\ wl'[w] = [wl[w] EXCEPT !.status = NewStatus(rec[o])]
    BY <1>1, StatusStep
  <2>2. wl[w] \in Objs
    BY <2>1 DEF InFlight
  <2>3. wl'[w].status = NewStatus(rec[o]) /\ wl'[w].spec = wl[w].spec
    BY <2>1, <2>2 DEF Objs
  <2> QED BY <2>1, <2>3 DEF NewStatus
<1>2. IInv /\ [Next]_vars => [A]_vars
  BY <1>1
<1> QED BY <1>2, Inductive, PTL DEF Spec, StatusVouchesForSpec

\* How the record of an operator changes: by one of the steps of Reconcile, or
\* back to idle.
LEMMA RecordStep ==
    ASSUME IInv, [Next]_vars, NEW o \in Operators
    PROVE  \/ rec'[o] = rec[o]
           \/ rec'[o] = Idle
           \/ \E w \in Workloads : Fetch(o, w)
           \/ MetricsFailed(o) \/ MetricsRead(o) \/ TargetMissing(o)
           \/ HoldSteady(o) \/ DecideToScale(o)
           \/ Scale(o) \/ ScaleRejected(o) \/ ScaleFault(o)
<1>1. ASSUME NEW p \in Operators \ {o}, Step(p) \/ Manager(p) PROVE rec'[o] = rec[o]
  BY <1>1 DEF Step, Manager, Fetch, FetchGone, MetricsFailed, MetricsRead, TargetMissing, HoldSteady,
     DecideToScale, Scale, ScaleRejected, WriteStatus, StatusRejected, Finish, Conclude, Requeue,
     SyncWorkload, SyncDeployment, IInv, TypeOK
<1>2. ASSUME \/ \E w \in Workloads : FetchGone(o, w)
             \/ Manager(o)
      PROVE  rec'[o] = rec[o]
  BY <1>2 DEF FetchGone, Manager, Requeue, SyncWorkload, SyncDeployment
<1>3. ASSUME WriteStatus(o) \/ StatusRejected(o) PROVE rec'[o] = Idle
  BY <1>3 DEF WriteStatus, StatusRejected, Finish, IInv, TypeOK
<1>4. ASSUME NEW p \in Operators, p # o, ScaleFault(p) \/ StatusFault(p) \/ Restart(p)
      PROVE  rec'[o] = rec[o]
  BY <1>4 DEF ScaleFault, StatusFault, Restart, Finish, Conclude, IInv, TypeOK
<1>5. ASSUME StatusFault(o) \/ Restart(o) PROVE rec'[o] = Idle
  BY <1>5 DEF StatusFault, Restart, Finish, IInv, TypeOK
<1>6. ASSUME Disturbance
      PROVE  \/ rec' = rec
             \/ \E p \in Operators : ScaleFault(p) \/ StatusFault(p) \/ Restart(p)
  BY <1>6 DEF Disturbance, EditSpec, CreateWorkload, TouchWorkload, DeleteWorkload, StoreWorkload,
     ChangeLoad, ExternalScale, CreateDeployment, TouchDeployment, DeleteDeployment, StoreDeployment
<1> QED BY <1>1, <1>2, <1>3, <1>4, <1>5, <1>6 DEF Next, Undisturbed, Step, vars

-----------------------------------------------------------------------------
(* Events and status. *)

\* What a Reconcile has emitted by each of its steps: Recovered once the
\* observation it last failed at succeeds, and at its exit all that a change
\* to its outcome must be announced with.
EventsSoFar(r) ==
    /\ r.pc \in {"deployment", "update"} /\ Prior(r) = MetricsUnavailable => "Recovered" \in r.emitted
    /\ r.pc = "update" /\ Prior(r) = TargetDeploymentNotFound => "Recovered" \in r.emitted
    /\ r.pc = "status" => Announced(Prior(r), r.outcome, r.emitted)
EInv == IInv /\ \A o \in Operators : EventsSoFar(rec[o])

LEMMA EventsStep == EInv /\ [Next]_vars => \A o \in Operators : EventsSoFar(rec'[o])
<1> SUFFICES ASSUME EInv, [Next]_vars, NEW o \in Operators PROVE EventsSoFar(rec'[o])
  OBVIOUS
<1> USE DEF EventsSoFar, Announced, Prior, Warning, Recovery, MetricsUnavailable,
            TargetDeploymentNotFound, FailureReasons, ScaleReasons
<1>1. CASE rec'[o] = rec[o]
  BY <1>1 DEF EInv
<1>2. CASE rec'[o] = Idle
  BY <1>2 DEF Idle, Begin
<1>3. ASSUME NEW w \in Workloads, Fetch(o, w) PROVE EventsSoFar(rec'[o])
  BY <1>3 DEF Fetch, Begin, EInv, IInv, TypeOK
<1>4. ASSUME rec[o].pc # "idle" PROVE rec[o] \in InFlight
  BY <1>4, InFlightRec DEF EInv, IInv
<1>5. ASSUME MetricsFailed(o) PROVE EventsSoFar(rec'[o])
  BY <1>4, <1>5 DEF MetricsFailed, Conclude, EInv, IInv, TypeOK, InFlight
<1>6. ASSUME MetricsRead(o) PROVE EventsSoFar(rec'[o])
  BY <1>4, <1>6 DEF MetricsRead, EInv, IInv, TypeOK, InFlight
<1>7. ASSUME TargetMissing(o) PROVE EventsSoFar(rec'[o])
  BY <1>4, <1>7 DEF TargetMissing, Conclude, EInv, IInv, TypeOK, InFlight
<1>8. ASSUME HoldSteady(o) PROVE EventsSoFar(rec'[o])
  BY <1>4, <1>8 DEF HoldSteady, EInv, IInv, TypeOK, InFlight
<1>9. ASSUME DecideToScale(o) PROVE EventsSoFar(rec'[o])
  BY <1>4, <1>9 DEF DecideToScale, EInv, IInv, TypeOK, InFlight
<1>10. ASSUME Scale(o) PROVE EventsSoFar(rec'[o])
  BY <1>4, <1>10 DEF Scale, Conclude, Direction, EInv, IInv, TypeOK, InFlight
<1>11. ASSUME ScaleRejected(o) \/ ScaleFault(o) PROVE EventsSoFar(rec'[o])
  <2>1. rec[o].pc = "update" /\ Conclude(o, "ScaleFailed", Warning(rec[o], "ScaleFailed"))
    BY <1>11 DEF ScaleRejected, ScaleFault
  <2> QED BY <1>4, <2>1 DEF Conclude, EInv, IInv, TypeOK, InFlight
<1> QED BY RecordStep, <1>1, <1>2, <1>3, <1>5, <1>6, <1>7, <1>8, <1>9, <1>10, <1>11 DEF EInv

\* Every stored change of the recorded reason was announced by its Reconcile.
THEOREM Announcing == Spec => NoSilentTransition
<1> DEFINE A == \A w \in Workloads : StatusChanges(w) =>
                  \E o \in Operators :
                    /\ rec[o].w = w
                    /\ Announced(wl[w].status.reason, wl'[w].status.reason, rec[o].emitted)
<1>1. Init => EInv
  <2>1. Init => \A o \in Operators : EventsSoFar(rec[o])
    BY DEF Init, EventsSoFar, Idle, Begin
  <2> QED BY <2>1, InitTypes, InitAgrees DEF EInv, IInv
<1>2. EInv /\ [Next]_vars => EInv'
  BY EventsStep, NextTypes, NextAgrees DEF EInv, IInv
<1>3. ASSUME EInv, [Next]_vars, NEW w \in Workloads, StatusChanges(w)
      PROVE  \E o \in Operators :
               /\ rec[o].w = w
               /\ Announced(wl[w].status.reason, wl'[w].status.reason, rec[o].emitted)
  <2>1. PICK o \in Operators :
             /\ rec[o] \in InFlight /\ rec[o].pc = "status"
             /\ rec[o].w = w /\ rec[o].obj = wl[w]
             /\ wl'[w] = [wl[w] EXCEPT !.status = NewStatus(rec[o])]
    BY <1>3, StatusStep DEF EInv
  <2>2. wl[w] \in Objs
    BY <2>1 DEF InFlight
  <2>3. wl'[w].status = NewStatus(rec[o])
    BY <2>1, <2>2 DEF Objs
  <2>4. Announced(Prior(rec[o]), rec[o].outcome, rec[o].emitted)
    BY <1>3, <2>1 DEF EInv, EventsSoFar
  <2> QED BY <2>1, <2>3, <2>4 DEF NewStatus, Prior
<1>4. EInv /\ [Next]_vars => [A]_vars
  BY <1>3
<1> QED BY <1>1, <1>2, <1>4, PTL DEF Spec, NoSilentTransition

-----------------------------------------------------------------------------
(* Polling. *)

PInv == IInv /\ \A o \in Operators, w \in Workloads : KnownIsTracked(o, w)

\* The steps of a Reconcile between its first and its last leave its workload.
LEMMA ReconcileKeepsName ==
    ASSUME IInv, NEW o \in Operators, NEW p \in Operators,
           \/ MetricsFailed(p) \/ MetricsRead(p) \/ TargetMissing(p) \/ HoldSteady(p)
           \/ DecideToScale(p) \/ Scale(p) \/ ScaleRejected(p) \/ ScaleFault(p)
    PROVE  rec'[o].w = rec[o].w
<1>1. rec[p] \in InFlight
  BY InFlightRec DEF MetricsFailed, MetricsRead, TargetMissing, HoldSteady, DecideToScale,
     Scale, ScaleRejected, ScaleFault, IInv
<1>2. ASSUME NEW reason, NEW events, Conclude(p, reason, events) PROVE rec'[o].w = rec[o].w
  BY <1>1, <1>2 DEF Conclude, IInv, TypeOK, InFlight
<1>3. CASE MetricsRead(p)
  BY <1>1, <1>3 DEF MetricsRead, IInv, TypeOK, InFlight
<1>4. CASE HoldSteady(p)
  BY <1>1, <1>4 DEF HoldSteady, IInv, TypeOK, InFlight
<1>5. CASE DecideToScale(p)
  BY <1>1, <1>5 DEF DecideToScale, IInv, TypeOK, InFlight
<1> QED BY <1>2, <1>3, <1>4, <1>5 DEF MetricsFailed, TargetMissing, Scale, ScaleRejected, ScaleFault

LEMMA PollingStep == PInv /\ [Next]_vars => \A o \in Operators, w \in Workloads : KnownIsTracked(o, w)'
<1> SUFFICES ASSUME PInv, [Next]_vars, NEW o \in Operators, NEW w \in Workloads
             PROVE  KnownIsTracked(o, w)'
  OBVIOUS
<1> USE DEF KnownIsTracked, Tracked
<1>1. ASSUME wlCache' = wlCache, queue' = queue, delayed' = delayed,
             rec'[o].w = rec[o].w
      PROVE  KnownIsTracked(o, w)'
  BY <1>1 DEF PInv
<1>2. ASSUME NEW p \in Operators, NEW v \in Workloads, Fetch(p, v) \/ FetchGone(p, v)
      PROVE  KnownIsTracked(o, w)'
  <2>1. p = o => rec[o].w \notin Workloads
    BY <1>2, IdleRec, ConstantsAssumption DEF Fetch, FetchGone, PInv, IInv
  <2>2. CASE p # o
    BY <1>2, <2>2 DEF Fetch, FetchGone, PInv, IInv, TypeOK
  <2>3. CASE p = o
    BY <1>2, <2>1, <2>3 DEF Fetch, FetchGone, Begin, PInv, IInv, TypeOK
  <2> QED BY <2>2, <2>3
<1>3. ASSUME NEW p \in Operators, WriteStatus(p) \/ StatusRejected(p) \/ StatusFault(p)
      PROVE  KnownIsTracked(o, w)'
  <2>1. Finish(p) /\ wlCache' = wlCache /\ queue' = queue
    BY <1>3 DEF WriteStatus, StatusRejected, StatusFault
  <2>2. CASE p # o
    BY <2>1, <2>2 DEF Finish, PInv, IInv, TypeOK
  <2>3. CASE p = o
    BY <2>1, <2>3 DEF Finish, PInv, IInv, TypeOK
  <2> QED BY <2>2, <2>3
<1>4. ASSUME NEW p \in Operators, NEW v \in Workloads, Requeue(p, v)
      PROVE  KnownIsTracked(o, w)'
  BY <1>4 DEF Requeue, PInv, IInv, TypeOK
<1>5. ASSUME NEW p \in Operators, NEW v \in Workloads, SyncWorkload(p, v)
      PROVE  KnownIsTracked(o, w)'
  BY <1>5 DEF SyncWorkload, Triggers, PInv, IInv, TypeOK
<1>6. ASSUME NEW p \in Operators, Restart(p) PROVE KnownIsTracked(o, w)'
  <2>1. CASE p # o
    BY <1>6, <2>1 DEF Restart, PInv, IInv, TypeOK
  <2>2. CASE p = o
    BY <1>6, <2>2 DEF Restart, PInv, IInv, TypeOK
  <2> QED BY <2>1, <2>2
<1>7. ASSUME NEW p \in Operators,
             \/ MetricsFailed(p) \/ MetricsRead(p) \/ TargetMissing(p) \/ HoldSteady(p)
             \/ DecideToScale(p) \/ Scale(p) \/ ScaleRejected(p) \/ ScaleFault(p)
      PROVE  KnownIsTracked(o, w)'
  <2>2. rec'[o].w = rec[o].w
    BY <1>7, ReconcileKeepsName DEF PInv
  <2>3. wlCache' = wlCache /\ queue' = queue /\ delayed' = delayed
    BY <1>7 DEF MetricsFailed, MetricsRead, TargetMissing, HoldSteady, DecideToScale, Scale,
       ScaleRejected, ScaleFault, ReplaceCount
  <2> QED BY <1>1, <2>2, <2>3
<1>8. ASSUME NEW p \in Operators, NEW d \in Deployments, SyncDeployment(p, d)
      PROVE  KnownIsTracked(o, w)'
  BY <1>8, <1>1 DEF SyncDeployment
<1>9. CASE UNCHANGED vars
  BY <1>9, <1>1 DEF vars
<1>10. ASSUME Disturbance PROVE KnownIsTracked(o, w)'
  <2>1. ASSUME wlCache' = wlCache, queue' = queue, delayed' = delayed, rec' = rec
        PROVE  KnownIsTracked(o, w)'
    BY <2>1, <1>1
  <2>2. \/ wlCache' = wlCache /\ queue' = queue /\ delayed' = delayed /\ rec' = rec
        \/ \E p \in Operators : ScaleFault(p) \/ StatusFault(p) \/ Restart(p)
    BY <1>10 DEF Disturbance, EditSpec, CreateWorkload, TouchWorkload, DeleteWorkload, StoreWorkload,
       ChangeLoad, ExternalScale, CreateDeployment, TouchDeployment, DeleteDeployment, StoreDeployment
  <2> QED BY <2>1, <2>2, <1>3, <1>6, <1>7
<1> QED
  BY <1>2, <1>3, <1>4, <1>5, <1>7, <1>8, <1>9, <1>10 DEF Next, Undisturbed, Step, Manager

\* A workload that exists is always queued, delayed, being reconciled, or
\* about to be announced: polling it never stops.
THEOREM Polling == Spec => []PollingNeverStops
<1>1. Init => PInv
  <2>1. Init => \A o \in Operators, w \in Workloads : KnownIsTracked(o, w)
    BY DEF Init, KnownIsTracked, Tracked
  <2> QED BY <2>1, InitTypes, InitAgrees DEF PInv, IInv
<1>2. PInv /\ [Next]_vars => PInv'
  BY PollingStep, NextTypes, NextAgrees DEF PInv, IInv
<1>3. PInv => PollingNeverStops
  BY DEF PInv, IInv, CopiesAgree, CachedWorkload, KnownIsTracked, PollingNeverStops
<1> QED BY <1>1, <1>2, <1>3, PTL DEF Spec

\* Once every workload is there and is not edited, the watch triggers nothing:
\* every copy has the generation of the stored object.
Unedited ==
    \A w \in Workloads :
        /\ wl[w] # Absent /\ wl[w].gen = 1
        /\ \A o \in Operators : wlCache[o][w] # Absent /\ wlCache[o][w].gen = 1
One(o, w) == /\ ~(w \in queue[o] /\ w \in delayed[o])
             /\ rec[o].w = w => w \notin queue[o] \cup delayed[o]
OInv == IInv /\ Unedited /\ \A o \in Operators, w \in Workloads : One(o, w)

LEMMA NobodyEdits ==
    ASSUME OInv, [Next]_vars, Disturbances \cap {"edit", "lifecycle"} = {}
    PROVE  Unedited'
<1>1. CASE wl' = wl
  <2>1. CASE wlCache' = wlCache
    BY <1>1, <2>1 DEF Unedited, OInv
  <2>2. ASSUME NEW o \in Operators, NEW w \in Workloads, SyncWorkload(o, w) PROVE Unedited'
    BY <2>2, <1>1 DEF SyncWorkload, Unedited, OInv, IInv, TypeOK
  <2>3. ASSUME NEW o \in Operators, Restart(o) PROVE Unedited'
    BY <2>3, <1>1 DEF Restart, Unedited, OInv, IInv, TypeOK
  <2>4. \/ wlCache' = wlCache
        \/ \E o \in Operators : Restart(o) \/ \E w \in Workloads : SyncWorkload(o, w)
    BY DEF Next, Undisturbed, Step, Manager, Fetch, FetchGone, MetricsFailed, MetricsRead,
       TargetMissing, HoldSteady, DecideToScale, Scale, ScaleRejected, ReplaceCount, WriteStatus,
       StatusRejected, Requeue, SyncDeployment, Disturbance, EditSpec, CreateWorkload,
       TouchWorkload, DeleteWorkload, StoreWorkload, ChangeLoad, ExternalScale, CreateDeployment,
       TouchDeployment, DeleteDeployment, StoreDeployment, ScaleFault, StatusFault, vars
  <2> QED BY <2>1, <2>2, <2>3, <2>4
<1>2. ASSUME NEW o \in Operators, WriteStatus(o) PROVE Unedited'
  <2>1. rec[o].w \in Workloads
    BY <1>2, InFlightRec DEF WriteStatus, InFlight, OInv, IInv
  <2>2. wl[rec[o].w] \in Objs
    BY <2>1 DEF OInv, IInv, TypeOK, Unedited
  <2>3. /\ wl' = [wl EXCEPT ![rec[o].w] = [wl[rec[o].w] EXCEPT !.status = NewStatus(rec[o])]]
        /\ wlCache' = wlCache
    BY <1>2 DEF WriteStatus
  <2>4. [wl[rec[o].w] EXCEPT !.status = NewStatus(rec[o])] \in Objs
    BY <2>1, <2>2, <1>2, InFlightRec, NewStatusType DEF WriteStatus, Objs, OInv, IInv
  <2>5. [wl[rec[o].w] EXCEPT !.status = NewStatus(rec[o])].gen = wl[rec[o].w].gen
    BY <2>2 DEF Objs
  <2> QED BY <2>1, <2>3, <2>4, <2>5, AbsentAssumption DEF Unedited, OInv, IInv, TypeOK
<1>3. wl' = wl \/ \E o \in Operators : WriteStatus(o)
  <2>1. ASSUME NEW w \in Workloads, TouchWorkload(w) PROVE wl' = wl
    BY <2>1 DEF TouchWorkload, StoreWorkload, OInv, IInv, TypeOK
  <2> QED BY <2>1 DEF Next, Undisturbed, Step, Manager, Fetch, FetchGone, MetricsFailed, MetricsRead,
       TargetMissing, HoldSteady, DecideToScale, Scale, ScaleRejected, ReplaceCount,
       StatusRejected, Requeue, SyncWorkload, SyncDeployment, Disturbance, EditSpec, CreateWorkload,
       DeleteWorkload, ChangeLoad, ExternalScale, CreateDeployment,
       TouchDeployment, DeleteDeployment, StoreDeployment, ScaleFault, StatusFault, Restart, vars
<1> QED BY <1>1, <1>2, <1>3

LEMMA OneStep ==
    ASSUME OInv, [Next]_vars, Disturbances \cap {"edit", "lifecycle"} = {},
           NEW o \in Operators, NEW w \in Workloads
    PROVE  One(o, w)'
<1> USE DEF One
<1>1. ASSUME queue' = queue, delayed' = delayed, rec'[o].w = rec[o].w \/ rec'[o].w = Absent
      PROVE  One(o, w)'
  BY <1>1, ConstantsAssumption DEF OInv
<1>2. ASSUME NEW p \in Operators, NEW v \in Workloads, Fetch(p, v) \/ FetchGone(p, v)
      PROVE  One(o, w)'
  <2>1. CASE Fetch(p, v)
    BY <2>1 DEF Fetch, Begin, OInv, IInv, TypeOK
  <2>2. CASE FetchGone(p, v)
    BY <2>2 DEF FetchGone, OInv, IInv, TypeOK
  <2> QED BY <1>2, <2>1, <2>2
<1>3. ASSUME NEW p \in Operators, WriteStatus(p) \/ StatusRejected(p) \/ StatusFault(p)
      PROVE  One(o, w)'
  <2>1. Finish(p) /\ queue' = queue
    BY <1>3 DEF WriteStatus, StatusRejected, StatusFault
  <2>2. CASE p # o
    BY <2>1, <2>2 DEF Finish, OInv, IInv, TypeOK
  <2>3. CASE p = o
    <3>1. rec'[o] = Idle /\ delayed'[o] = delayed[o] \cup {rec[o].w}
      BY <2>1, <2>3 DEF Finish, OInv, IInv, TypeOK
    <3>2. rec'[o].w \notin Workloads
      BY <3>1, ConstantsAssumption DEF Idle, Begin
    <3> QED BY <2>1, <3>1, <3>2 DEF OInv
  <2> QED BY <2>2, <2>3
<1>4. ASSUME NEW p \in Operators, NEW v \in Workloads, Requeue(p, v) PROVE One(o, w)'
  BY <1>4 DEF Requeue, OInv, IInv, TypeOK
<1>5. ASSUME NEW p \in Operators, NEW v \in Workloads, SyncWorkload(p, v) PROVE One(o, w)'
  <2>1. ~Triggers(wlCache[p][v], wl[v])
    BY DEF Triggers, OInv, Unedited
  <2>2. queue' = queue /\ delayed' = delayed /\ rec' = rec
    BY <1>5, <2>1 DEF SyncWorkload, OInv, IInv, TypeOK
  <2> QED BY <2>2, <1>1
<1>6. ASSUME NEW p \in Operators, Restart(p) PROVE One(o, w)'
  <2>1. CASE p # o
    BY <1>6, <2>1 DEF Restart, OInv, IInv, TypeOK
  <2>2. CASE p = o
    <3>1. delayed'[o] = {} /\ rec'[o] = Idle
      BY <1>6, <2>2 DEF Restart, OInv, IInv, TypeOK
    <3>2. rec'[o].w \notin Workloads
      BY <3>1, ConstantsAssumption DEF Idle, Begin
    <3> QED BY <3>1, <3>2
  <2> QED BY <2>1, <2>2
<1>7. ASSUME NEW p \in Operators,
             \/ MetricsFailed(p) \/ MetricsRead(p) \/ TargetMissing(p) \/ HoldSteady(p)
             \/ DecideToScale(p) \/ Scale(p) \/ ScaleRejected(p) \/ ScaleFault(p)
      PROVE  One(o, w)'
  <2>1. rec'[o].w = rec[o].w
    BY <1>7, ReconcileKeepsName DEF OInv
  <2>2. queue' = queue /\ delayed' = delayed
    BY <1>7 DEF MetricsFailed, MetricsRead, TargetMissing, HoldSteady, DecideToScale, Scale,
       ScaleRejected, ScaleFault, ReplaceCount
  <2> QED BY <1>1, <2>1, <2>2
<1>8. \/ queue' = queue /\ delayed' = delayed /\ rec' = rec
      \/ \E p \in Operators : \/ \E v \in Workloads : \/ Fetch(p, v) \/ FetchGone(p, v)
                                                      \/ Requeue(p, v) \/ SyncWorkload(p, v)
                              \/ MetricsFailed(p) \/ MetricsRead(p) \/ TargetMissing(p)
                              \/ HoldSteady(p) \/ DecideToScale(p) \/ Scale(p) \/ ScaleRejected(p)
                              \/ ScaleFault(p) \/ WriteStatus(p) \/ StatusRejected(p)
                              \/ StatusFault(p) \/ Restart(p)
  BY DEF Next, Undisturbed, Step, Manager, SyncDeployment, Disturbance, EditSpec, CreateWorkload,
     TouchWorkload, DeleteWorkload, StoreWorkload, ChangeLoad, ExternalScale, CreateDeployment,
     TouchDeployment, DeleteDeployment, StoreDeployment, vars
<1> QED BY <1>1, <1>2, <1>3, <1>4, <1>5, <1>6, <1>7, <1>8

\* As long as nobody edits, deletes or creates workloads, a workload is never
\* queued while a timer or a Reconcile of it is outstanding.
THEOREM PollingOnce == Spec => []PollsOnce
<1>1. CASE Disturbances \cap {"edit", "lifecycle"} = {}
  <2>1. Init => OInv
    <3> SUFFICES ASSUME Init PROVE OInv
      OBVIOUS
    <3>1. \A s \in Specs : NewWorkload(s) \in Objs /\ NewWorkload(s).gen = 1
      BY DEF NewWorkload, NoStatus, Objs, Status, Reasons
    <3>2. Unedited
      BY <3>1, AbsentAssumption DEF Init, Unedited
    <3>3. \A o \in Operators, w \in Workloads : One(o, w)
      BY ConstantsAssumption DEF Init, One, Idle, Begin
    <3> QED BY <3>2, <3>3, InitTypes, InitAgrees DEF OInv, IInv
  <2>2. OInv /\ [Next]_vars => OInv'
    BY <1>1, NobodyEdits, OneStep, NextTypes, NextAgrees DEF OInv, IInv
  <2>3. OInv => PollsOnce
    BY DEF OInv, One, PollsOnce
  <2> QED BY <2>1, <2>2, <2>3, PTL DEF Spec
<1>2. CASE ~(Disturbances \cap {"edit", "lifecycle"} = {})
  <2>1. PollsOnce
    BY <1>2 DEF PollsOnce
  <2> QED BY <2>1, PTL
<1> QED BY <1>1, <1>2
-----------------------------------------------------------------------------
(* Rest. *)

\* The Reconcile of w that a quiet operator has in progress.
LEMMA QuietRecord ==
    ASSUME IInv, NEW o \in Operators, NEW w \in Workloads, Quiet(o, w), rec[o].w = w
    PROVE  /\ rec[o] \in InFlight /\ rec[o].pc \notin {"idle", "update"}
           /\ rec[o].obj = wl[w] /\ wl[w] \in Objs /\ wl[w] # Absent
           /\ rec[o].emitted = {} /\ Prior(rec[o]) = Diagnosis(w)
<1>1. rec[o] \in InFlight
  BY ConstantsAssumption DEF IInv, TypeOK, Idle, Begin
<1>2. rec[o].obj = wl[w] /\ rec[o].emitted = {} /\ rec[o].pc # "update"
  BY DEF Quiet, Informed
<1>3. wl[w].status.reason = Diagnosis(w) /\ wl[w] # Absent
  BY DEF Quiet, Settled, Reportable, Observable
<1> QED BY <1>1, <1>2, <1>3 DEF InFlight, Prior, IInv, TypeOK

\* What Reconcile came to for a workload that is settled is what it comes to
\* again: the status it would write is the one that is stored.
LEMMA SameStatus ==
    ASSUME IInv, NEW o \in Operators, NEW w \in Workloads, Quiet(o, w),
           rec[o].w = w, rec[o].pc = "status"
    PROVE  NewStatus(rec[o]) = wl[w].status
<1> DEFINE r == rec[o]
           st == wl[w].status
           d == wl[w].spec.target
<1>1. /\ r.obj = wl[w] /\ wl[w] \in Objs
      /\ r.outcome = Diagnosis(w)
      /\ load[w] # Unreachable => r.kv = load[w]
      /\ r.outcome = "Holding" => r.current = deploy[d]
  BY QuietRecord DEF Quiet, Informed
<1>2. /\ st.reason = Diagnosis(w) /\ st.gen = wl[w].gen
      /\ load[w] # Unreachable => st.kv = load[w]
      /\ Diagnosis(w) = "Holding" =>
           /\ st.desired = deploy[d]
           /\ deploy[d] = ComputeDesired(deploy[d], load[w], wl[w].spec)
  BY DEF Quiet, Settled
<1>3. /\ Diagnosis(w) \in {MetricsUnavailable, TargetDeploymentNotFound, "Holding"}
      /\ Diagnosis(w) = MetricsUnavailable <=> load[w] = Unreachable
  BY DEF Diagnosis, MetricsUnavailable, TargetDeploymentNotFound
<1>4. NewStatus(r) = [reason |-> st.reason, gen |-> st.gen, kv |-> st.kv, desired |-> st.desired]
  <2>1. (IF r.outcome = MetricsUnavailable THEN r.obj.status.kv ELSE r.kv) = st.kv
    BY <1>1, <1>2, <1>3
  <2>2. (IF r.outcome \in {MetricsUnavailable, TargetDeploymentNotFound}
         THEN r.obj.status.desired ELSE Desired(r)) = st.desired
    BY <1>1, <1>2, <1>3 DEF Desired, MetricsUnavailable, TargetDeploymentNotFound
  <2> QED BY <1>1, <1>2, <2>1, <2>2 DEF NewStatus
<1>5. st \in Status
  BY <1>1 DEF Objs
<1> QED BY <1>4, <1>5 DEF Status

\* No step of that Reconcile changes what is stored.
LEMMA StoreRests ==
    ASSUME IInv, NEW o \in Operators, NEW w \in Workloads, Quiet(o, w), rec[o].w = w, Step(o)
    PROVE  UNCHANGED <<wl, deploy, load>>
<1>1. ASSUME WriteStatus(o) PROVE wl' = wl
  <2>1. /\ rec[o].pc = "status"
        /\ wl' = [wl EXCEPT ![w] = [wl[w] EXCEPT !.status = NewStatus(rec[o])]]
    BY <1>1 DEF WriteStatus
  <2>2. [wl[w] EXCEPT !.status = NewStatus(rec[o])] = wl[w]
    BY <2>1, SameStatus, QuietRecord DEF Objs
  <2> QED BY <2>1, <2>2 DEF IInv, TypeOK
<1>2. ~Scale(o)
  BY QuietRecord DEF Scale
<1> QED BY <1>1, <1>2
    DEF Step, Fetch, FetchGone, MetricsFailed, MetricsRead, TargetMissing, HoldSteady,
        DecideToScale, ScaleRejected, WriteStatus, StatusRejected

\* It goes on as it began: it observes what it must come to.
LEMMA ReconcileRests ==
    ASSUME IInv, NEW o \in Operators, NEW w \in Workloads, Quiet(o, w), rec[o].w = w, Step(o)
    PROVE  Informed(o, w)'
<1> DEFINE r == rec[o]
           d == wl[w].spec.target
<1>0. wl' = wl /\ deploy' = deploy /\ load' = load
  BY StoreRests
<1>1. /\ wlCache[o][w] = wl[w] /\ depCache[o][d] = deploy[d]
      /\ r.pc = "deployment" => r.kv = load[w] /\ load[w] # Unreachable
  BY DEF Quiet, Informed
<1>2. /\ r \in InFlight /\ r.pc \notin {"idle", "update"}
      /\ r.obj = wl[w] /\ r.emitted = {} /\ Prior(r) = Diagnosis(w)
  BY QuietRecord
<1>3. Diagnosis(w)' = Diagnosis(w)
  BY <1>0 DEF Diagnosis
<1>4. rec'[o] = Idle => rec'[o].w # w
  BY ConstantsAssumption DEF Idle, Begin
<1>5. ASSUME MetricsFailed(o) PROVE Informed(o, w)'
  <2>1. load[w] = Unreachable /\ r.pc = "metrics" /\ UNCHANGED caches
    BY <1>5 DEF MetricsFailed, Answer
  <2>2. Diagnosis(w) = MetricsUnavailable
    BY <2>1 DEF Diagnosis
  <2>3. Warning(r, MetricsUnavailable) = {}
    BY <1>2, <2>2 DEF Warning
  <2>4. rec'[o] = [r EXCEPT !.pc = "status", !.outcome = MetricsUnavailable,
                            !.emitted = @ \cup Warning(r, MetricsUnavailable)]
    BY <1>5 DEF MetricsFailed, Conclude, IInv, TypeOK
  <2>5. /\ rec'[o].pc = "status" /\ rec'[o].obj = r.obj
        /\ rec'[o].emitted = {} /\ rec'[o].outcome = MetricsUnavailable
    BY <1>2, <2>3, <2>4 DEF InFlight
  <2> QED BY <1>0, <1>1, <1>2, <1>3, <2>1, <2>2, <2>5 DEF Informed, MetricsUnavailable, caches
<1>6. ASSUME MetricsRead(o) PROVE Informed(o, w)'
  <2>1. load[w] # Unreachable /\ r.pc = "metrics" /\ UNCHANGED caches
    BY <1>6 DEF MetricsRead, Answer
  <2>2. Recovery(r, MetricsUnavailable) = {}
    BY <1>2, <2>1
    DEF Recovery, Diagnosis, MetricsUnavailable, TargetDeploymentNotFound
  <2>3. rec'[o] = [r EXCEPT !.pc = "deployment", !.kv = load[w],
                            !.emitted = @ \cup Recovery(r, MetricsUnavailable)]
    BY <1>6 DEF MetricsRead, Answer, IInv, TypeOK
  <2>4. /\ rec'[o].pc = "deployment" /\ rec'[o].obj = r.obj
        /\ rec'[o].emitted = {} /\ rec'[o].kv = load[w]
    BY <1>2, <2>2, <2>3 DEF InFlight
  <2> QED BY <1>0, <1>1, <1>2, <2>1, <2>4 DEF Informed, caches
<1>7. ASSUME r.pc = "deployment"
      PROVE  /\ r.kv = load[w] /\ load[w] # Unreachable
             /\ Seen(o) = deploy[d]
             /\ Seen(o) = Absent <=> Diagnosis(w) = TargetDeploymentNotFound
             /\ Seen(o) # Absent => /\ Diagnosis(w) = "Holding"
                                    /\ Wanted(o) = Seen(o)
  <2>1. Seen(o) = deploy[d]
    BY <1>1, <1>2 DEF Seen, Target
  <2>2. /\ Seen(o) = Absent <=> Diagnosis(w) = TargetDeploymentNotFound
        /\ Seen(o) # Absent <=> Diagnosis(w) = "Holding"
    BY <1>1, <1>7, <2>1 DEF Diagnosis, TargetDeploymentNotFound
  <2> QED BY <1>1, <1>2, <1>7, <2>1, <2>2 DEF Quiet, Settled, Wanted
<1>8. ASSUME TargetMissing(o) PROVE Informed(o, w)'
  <2>1. r.pc = "deployment" /\ Seen(o) = Absent /\ UNCHANGED caches
    BY <1>8 DEF TargetMissing
  <2>2. Diagnosis(w) = TargetDeploymentNotFound /\ r.kv = load[w]
    BY <1>7, <2>1
  <2>3. Warning(r, TargetDeploymentNotFound) = {}
    BY <1>2, <2>2 DEF Warning
  <2>4. rec'[o] = [r EXCEPT !.pc = "status", !.outcome = TargetDeploymentNotFound,
                            !.emitted = @ \cup Warning(r, TargetDeploymentNotFound)]
    BY <1>8 DEF TargetMissing, Conclude, IInv, TypeOK
  <2>5. /\ rec'[o].pc = "status" /\ rec'[o].obj = r.obj /\ rec'[o].kv = r.kv
        /\ rec'[o].emitted = {} /\ rec'[o].outcome = TargetDeploymentNotFound
    BY <1>2, <2>3, <2>4 DEF InFlight
  <2> QED BY <1>0, <1>1, <1>2, <1>3, <2>1, <2>2, <2>5
      DEF Informed, TargetDeploymentNotFound, caches
<1>9. ASSUME HoldSteady(o) PROVE Informed(o, w)'
  <2>1. r.pc = "deployment" /\ Seen(o) # Absent /\ UNCHANGED caches
    BY <1>9 DEF HoldSteady
  <2>2. Diagnosis(w) = "Holding" /\ r.kv = load[w] /\ Seen(o) = deploy[d]
    BY <1>7, <2>1
  <2>3. Recovery(r, TargetDeploymentNotFound) = {}
    BY <1>2, <2>2 DEF Recovery, TargetDeploymentNotFound
  <2>4. rec'[o] = [r EXCEPT !.pc = "status", !.outcome = "Holding", !.current = Seen(o),
                            !.emitted = @ \cup Recovery(r, TargetDeploymentNotFound)]
    BY <1>9 DEF HoldSteady, IInv, TypeOK
  <2>5. /\ rec'[o].pc = "status" /\ rec'[o].obj = r.obj
        /\ rec'[o].kv = r.kv /\ rec'[o].current = Seen(o)
        /\ rec'[o].emitted = {} /\ rec'[o].outcome = "Holding"
    BY <1>2, <2>3, <2>4 DEF InFlight
  <2> QED BY <1>0, <1>1, <1>2, <1>3, <2>1, <2>2, <2>5 DEF Informed, caches
<1>10. ~DecideToScale(o)
  BY <1>7 DEF DecideToScale
<1>11. ~Scale(o) /\ ~ScaleRejected(o)
  BY <1>2 DEF Scale, ScaleRejected
<1>12. ASSUME WriteStatus(o) \/ StatusRejected(o) PROVE Informed(o, w)'
  <2>1. rec'[o] = Idle /\ UNCHANGED caches
    BY <1>12 DEF WriteStatus, StatusRejected, Finish, IInv, TypeOK
  <2> QED BY <1>0, <1>1, <1>4, <2>1 DEF Informed, caches
<1>13. \A v \in Workloads : ~Fetch(o, v) /\ ~FetchGone(o, v)
  BY <1>2 DEF Fetch, FetchGone
<1> QED BY <1>5, <1>6, <1>8, <1>9, <1>10, <1>11, <1>12, <1>13 DEF Step

\* What every other step makes of the copies o has of w and of its target.
LEMMA CachesFollow ==
    ASSUME IInv, Next, NEW o \in Operators, NEW w \in Workloads, NEW d \in Deployments
    PROVE  /\ wlCache'[o][w] \in {wlCache[o][w], wl[w]}
           /\ depCache'[o][d] \in {depCache[o][d], deploy[d]}
<1>1. ASSUME NEW p \in Operators, Step(p) PROVE UNCHANGED caches
  BY <1>1
  DEF Step, Fetch, FetchGone, MetricsFailed, MetricsRead, TargetMissing, HoldSteady, DecideToScale,
      Scale, ScaleRejected, ReplaceCount, WriteStatus, StatusRejected, caches
<1>2. ASSUME NEW p \in Operators, Manager(p)
      PROVE  /\ wlCache'[o][w] \in {wlCache[o][w], wl[w]}
             /\ depCache'[o][d] \in {depCache[o][d], deploy[d]}
  <2>1. CASE \E v \in Workloads : Requeue(p, v)
    BY <2>1 DEF Requeue, caches
  <2>2. ASSUME NEW v \in Workloads, SyncWorkload(p, v)
        PROVE  wlCache'[o][w] \in {wlCache[o][w], wl[w]} /\ depCache' = depCache
    <3>1. wlCache' = [wlCache EXCEPT ![p] = [wlCache[p] EXCEPT ![v] = wl[v]]]
      BY <2>2 DEF SyncWorkload
    <3>2. CASE p = o /\ v = w
      BY <2>2, <3>1, <3>2 DEF SyncWorkload, IInv, TypeOK
    <3>3. CASE ~(p = o /\ v = w)
      BY <2>2, <3>1, <3>3 DEF SyncWorkload, IInv, TypeOK
    <3> QED BY <3>2, <3>3
  <2>3. ASSUME NEW e \in Deployments, SyncDeployment(p, e)
        PROVE  depCache'[o][d] \in {depCache[o][d], deploy[d]} /\ wlCache' = wlCache
    <3>1. depCache' = [depCache EXCEPT ![p] = [depCache[p] EXCEPT ![e] = deploy[e]]]
      BY <2>3 DEF SyncDeployment
    <3>2. CASE p = o /\ e = d
      BY <2>3, <3>1, <3>2 DEF SyncDeployment, IInv, TypeOK
    <3>3. CASE ~(p = o /\ e = d)
      BY <2>3, <3>1, <3>3 DEF SyncDeployment, IInv, TypeOK
    <3> QED BY <3>2, <3>3
  <2> QED BY <1>2, <2>1, <2>2, <2>3 DEF Manager
<1>3. ASSUME NEW p \in Operators, Restart(p)
      PROVE  /\ wlCache'[o][w] \in {wlCache[o][w], wl[w]}
             /\ depCache'[o][d] \in {depCache[o][d], deploy[d]}
  BY <1>3 DEF Restart, IInv, TypeOK
<1>4. ASSUME Disturbance, \A p \in Operators : ~Restart(p) PROVE UNCHANGED caches
  BY <1>4
  DEF Disturbance, EditSpec, CreateWorkload, TouchWorkload, DeleteWorkload, StoreWorkload,
      ChangeLoad, ExternalScale, CreateDeployment, TouchDeployment, DeleteDeployment,
      StoreDeployment, ScaleFault, ReplaceCount, StatusFault, caches
<1> QED BY <1>1, <1>2, <1>3, <1>4 DEF Next, Undisturbed, caches

\* And of the Reconcile o has in progress: one of w goes on, begins from what
\* is there, or ends without a write.
LEMMA RecordFollows ==
    ASSUME IInv, Next, NEW o \in Operators, NEW w \in Workloads, Quiet(o, w),
           ~(rec[o].w = w /\ Step(o))
    PROVE  /\ \/ rec'[o] = rec[o]
              \/ rec'[o].w # w
              \/ rec'[o] = Begin("metrics", w, wl[w])
           /\ rec[o].w = w => rec'[o] = rec[o] \/ UNCHANGED store
<1> DEFINE Follows == /\ \/ rec'[o] = rec[o]
                         \/ rec'[o].w # w
                         \/ rec'[o] = Begin("metrics", w, wl[w])
                      /\ rec[o].w = w => rec'[o] = rec[o] \/ UNCHANGED store
<1>0. Idle.w # w
  BY ConstantsAssumption DEF Idle, Begin
<1>1. ASSUME Step(o) PROVE Follows
  <2>0. rec[o].w # w
    BY <1>1
  <2>1. ASSUME NEW v \in Workloads, Fetch(o, v) PROVE Follows
    <3>1. rec'[o] = Begin("metrics", v, wlCache[o][v])
      BY <2>1 DEF Fetch, IInv, TypeOK
    <3>2. CASE v = w
      BY <2>0, <3>1, <3>2 DEF Quiet, Informed
    <3>3. CASE v # w
      BY <2>0, <3>1, <3>3 DEF Begin
    <3> QED BY <3>2, <3>3
  <2>2. ASSUME NEW v \in Workloads, FetchGone(o, v) PROVE Follows
    BY <2>0, <2>2 DEF FetchGone
  <2>3. ASSUME MetricsFailed(o) \/ MetricsRead(o) \/ TargetMissing(o) \/ HoldSteady(o)
                 \/ DecideToScale(o) \/ Scale(o) \/ ScaleRejected(o)
        PROVE  rec'[o].w = rec[o].w
    <3>1. rec[o] \in InFlight
      BY <2>3, InFlightRec
      DEF IInv, MetricsFailed, MetricsRead, TargetMissing, HoldSteady, DecideToScale, Scale,
          ScaleRejected
    <3> QED BY <2>3, <3>1
        DEF IInv, TypeOK, InFlight, Conclude, MetricsFailed, MetricsRead, TargetMissing, HoldSteady,
            DecideToScale, Scale, ScaleRejected
  <2>4. ASSUME WriteStatus(o) \/ StatusRejected(o) PROVE rec'[o] = Idle
    BY <2>4 DEF WriteStatus, StatusRejected, Finish, IInv, TypeOK
  <2> QED BY <1>0, <1>1, <2>0, <2>1, <2>2, <2>3, <2>4 DEF Step
<1>2. ASSUME NEW p \in Operators, p # o, Step(p) PROVE rec'[o] = rec[o]
  BY <1>2
  DEF Step, Fetch, FetchGone, MetricsFailed, MetricsRead, TargetMissing, HoldSteady, DecideToScale,
      Scale, ScaleRejected, WriteStatus, StatusRejected, Conclude, Finish, IInv, TypeOK
<1>3. ASSUME NEW p \in Operators, Manager(p) PROVE rec' = rec
  BY <1>3 DEF Manager, Requeue, SyncWorkload, SyncDeployment
<1>4. ASSUME NEW p \in Operators, p # o, ScaleFault(p) \/ StatusFault(p) \/ Restart(p)
      PROVE  rec'[o] = rec[o]
  BY <1>4 DEF ScaleFault, StatusFault, Restart, Conclude, Finish, IInv, TypeOK
<1>5. ASSUME ScaleFault(o) PROVE Follows
  <2>1. rec[o].pc = "update"
    BY <1>5 DEF ScaleFault
  <2>2. rec[o].w # w /\ rec[o] \in InFlight
    BY <2>1, QuietRecord, InFlightRec DEF IInv
  <2> QED BY <1>5, <2>2 DEF ScaleFault, Conclude, InFlight, IInv, TypeOK
<1>6. ASSUME StatusFault(o) \/ Restart(o) PROVE Follows
  <2>1. rec'[o] = Idle /\ UNCHANGED store
    BY <1>6 DEF StatusFault, Restart, Finish, IInv, TypeOK
  <2> QED BY <1>0, <2>1
<1>7. ASSUME Disturbance, \A p \in Operators : ~ScaleFault(p) /\ ~StatusFault(p) /\ ~Restart(p)
      PROVE  rec' = rec
  BY <1>7
  DEF Disturbance, EditSpec, CreateWorkload, TouchWorkload, DeleteWorkload, StoreWorkload,
      ChangeLoad, ExternalScale, CreateDeployment, TouchDeployment, DeleteDeployment, StoreDeployment
<1> QED BY <1>1, <1>2, <1>3, <1>4, <1>5, <1>6, <1>7 DEF Next, Undisturbed

\* Where a status is the truth, its target at rest and an operator knows it,
\* that operator polls on without a write, a scaling or an event until somebody
\* else moves them: whatever faults, restarts, conflicts and other operators do.
THEOREM Resting == Spec => RestIsSilent
<1> DEFINE A == \A o \in Operators : \A w \in Workloads :
                  Quiet(o, w) => Quiet(o, w)' \/ MovedByOthers(o, w)
<1>1. ASSUME IInv, Next, NEW o \in Operators, NEW w \in Workloads, Quiet(o, w)
      PROVE  Quiet(o, w)' \/ MovedByOthers(o, w)
  <2> DEFINE d == wl[w].spec.target
             Still == wl'[w] = wl[w] /\ load'[w] = load[w] /\ deploy'[d] = deploy[d]
  <2>1. Still => Settled(w)' /\ Diagnosis(w)' = Diagnosis(w)
    BY <1>1 DEF Quiet, Settled, Reportable, Observable, Diagnosis
  <2>2. CASE rec[o].w = w /\ Step(o)
    <3>1. Still
      BY <1>1, <2>2, StoreRests
    <3>2. Informed(o, w)'
      BY <1>1, <2>2, ReconcileRests
    <3> QED BY <2>1, <3>1, <3>2 DEF Quiet
  <2>3. CASE ~(rec[o].w = w /\ Step(o)) /\ Still
    <3>1. d \in Deployments
      <4>1. wl[w] \in Objs
        BY <1>1 DEF Quiet, Settled, Reportable, Observable, IInv, TypeOK
      <4> QED BY <4>1, ConstantsAssumption DEF Objs, AcceptedSpec
    <3>2. wlCache[o][w] = wl[w] /\ depCache[o][d] = deploy[d]
      BY <1>1 DEF Quiet, Informed
    <3>3. wlCache'[o][w] = wl'[w] /\ depCache'[o][d] = deploy'[d]
      BY <1>1, <2>3, <3>1, <3>2, CachesFollow
    <3>4. \/ rec'[o] = rec[o]
          \/ rec'[o].w # w
          \/ rec'[o] = Begin("metrics", w, wl[w])
      BY <1>1, <2>3, RecordFollows
    <3>5. Informed(o, w)'
      <4>1. CASE rec'[o] = rec[o]
        BY <1>1, <2>1, <2>3, <3>3, <4>1 DEF Quiet, Informed
      <4>2. CASE rec'[o].w # w
        BY <2>3, <3>3, <4>2 DEF Informed
      <4>3. CASE rec'[o] = Begin("metrics", w, wl[w])
        BY <2>3, <3>3, <4>3 DEF Informed, Begin
      <4> QED BY <3>4, <4>1, <4>2, <4>3
    <3> QED BY <2>1, <2>3, <3>5 DEF Quiet
  <2>4. CASE ~(rec[o].w = w /\ Step(o)) /\ ~Still
    <3>1. rec[o].w = w => rec'[o] = rec[o] \/ UNCHANGED store
      BY <1>1, <2>4, RecordFollows
    <3>2. rec[o].w = w => rec'[o] = rec[o]
      BY <2>4, <3>1 DEF store
    <3> QED BY <2>4, <3>2 DEF MovedByOthers
  <2> QED BY <2>2, <2>3, <2>4
<1>2. IInv /\ [Next]_vars => [A]_vars
  BY <1>1
<1> QED BY <1>2, Inductive, PTL DEF Spec, RestIsSilent
=============================================================================
