----------------------------- MODULE Reconciler -----------------------------
(***************************************************************************)
(* The WorkloadLifecycle operator: WorkloadLifecycleReconciler.Reconcile   *)
(* and what it calls, run by one worker per operator process, against an   *)
(* API server that other clients write to as well.                         *)
(*                                                                         *)
(* One Reconcile is five steps, because the world can move between them:   *)
(* the read of the workload from the informer cache, the HTTP call to the  *)
(* metrics endpoint, the read of the target Deployment from the cache, the *)
(* Update of the Deployment, and the Status().Update of the workload.      *)
(*                                                                         *)
(* A resourceVersion is only ever compared for equality with the stored    *)
(* one, so it is abstracted to the set inSync of the copies that carry the *)
(* stored version: a write of an object takes every copy of it out of the  *)
(* set.  Time is abstracted: RequeueAfter and the rate limiter put the     *)
(* workload in "delayed", from which it returns at an arbitrary moment.    *)
(***************************************************************************)
EXTENDS ScalingRule, FiniteSets

CONSTANTS
    Operators,      \* operator processes (leader election is off by default)
    Workloads,      \* names of WorkloadLifecycle objects
    Deployments,    \* names of Deployments
    Specs,          \* the specs a user may give a workload
    Answers,        \* what a metrics endpoint may do: a reading, the value
                    \* int32(v * 100), or Unreachable, or Hung
    Counts,         \* the replica counts other clients may set
    MaxGeneration,  \* bound: generations a workload may reach
    Disturbances,   \* which kinds of disturbance the environment causes
    Absent,         \* no such object
    Unreachable,    \* the metrics endpoint answers with an error
    Hung            \* the metrics endpoint accepts the call and never answers

Kinds == {"edit", "lifecycle", "scale", "touch", "target", "load", "fault", "restart"}

\* What the CRD schema lets through; low has no bound, and nothing relates
\* low to high or min to max.
AcceptedSpec(s) == /\ s.target \in Deployments
                   /\ s.high \in 0 .. 100
                   /\ s.low \in Int32
                   /\ s.min \in ReplicaCounts \ {0}
                   /\ s.max \in ReplicaCounts \ {0}

ASSUME ConstantsAssumption ==
    /\ Workloads \cap Deployments = {}
    /\ \A s \in Specs : AcceptedSpec(s)
    /\ Specs \subseteq [target : Deployments, high : Int, low : Int, min : Int, max : Int]
    /\ Answers \subseteq Int32 \cup {Unreachable, Hung}
    /\ Counts \subseteq ReplicaCounts
    /\ MaxGeneration \in Nat
    /\ Disturbances \subseteq Kinds
    /\ Absent \notin Int \cup Workloads
    /\ Unreachable \notin Int /\ Hung \notin Int

VARIABLES
    wl,         \* wl[w]: the stored workload, or Absent
    deploy,     \* deploy[d]: the stored spec.replicas, or Absent
    load,       \* load[w]: what the metrics endpoint of w does when called
    wlCache,    \* wlCache[o][w]: the informer's copy of wl[w]
    depCache,   \* depCache[o][d]: the informer's copy of deploy[d]
    inSync,     \* the copies <<o, "cache" or "held", object>> at the stored version
    queue,      \* queue[o]: workloads in the work queue
    delayed,    \* delayed[o]: workloads waiting for RequeueAfter or the rate limiter
    rec         \* rec[o]: the Reconcile in progress

store == <<wl, deploy, load>>
caches == <<wlCache, depCache>>
vars == <<wl, deploy, load, wlCache, depCache, inSync, queue, delayed, rec>>

Readings == Answers \ {Unreachable, Hung}
Objects == Workloads \cup Deployments

-----------------------------------------------------------------------------
(* Status and events.  A status field and an Event share one vocabulary.   *)

NoReason == "none"   \* the empty lastTransitionReason of a new workload
MetricsUnavailable == "MetricsUnavailable"
TargetDeploymentNotFound == "TargetDeploymentNotFound"

FailureReasons == {MetricsUnavailable, TargetDeploymentNotFound, "ScaleFailed"}
ScaleReasons == {"ScaledUp", "ScaledDown"}
Reasons == {NoReason, "Holding"} \cup FailureReasons \cup ScaleReasons
EventReasons == {"Recovered"} \cup FailureReasons \cup ScaleReasons

\* gen is the ObservedGeneration both conditions carry; the conditions
\* themselves and LastScaleTime follow from the reason.
NoStatus == [reason |-> NoReason, gen |-> 0, kv |-> 0, desired |-> 0]
Status == [reason : Reasons, gen : Nat, kv : Int, desired : Int]
Objs == [spec : Specs, gen : Nat, status : Status]

\* The absence of an object is not an object.
ASSUME AbsentAssumption == Absent \notin Objs

NewWorkload(s) == [spec |-> s, gen |-> 1, status |-> NoStatus]

Begin(pc, w, obj) == [pc |-> pc, w |-> w, obj |-> obj, kv |-> 0, current |-> 0,
                      outcome |-> NoReason, emitted |-> {}]
Idle == Begin("idle", Absent, Absent)
InFlight == [pc : {"metrics", "deployment", "update", "status"}, w : Workloads,
             obj : Objs, kv : Int, current : Int, outcome : Reasons,
             emitted : SUBSET EventReasons]

\* priorReason, read once from the copy the Reconcile started from.
Prior(r) == r.obj.status.reason
Desired(r) == ComputeDesired(r.current, r.kv, r.obj.spec)

\* Mutant: warnings gated on a flip of Degraded instead of on the reason.
WarningOnDegraded(r, reason) == IF Prior(r) \in FailureReasons THEN {} ELSE {reason}

\* Mutant: no gate, a Warning on every tick.
WarningOnEveryTick(r, reason) == {reason}

\* A Warning only when the reason is new, a Recovered only when it was the last.
Warning(r, reason) == IF Prior(r) = reason THEN {} ELSE {reason}
Recovery(r, reason) == IF Prior(r) = reason THEN {"Recovered"} ELSE {}

-----------------------------------------------------------------------------
(* Versions of copies. *)

\* The copies still at the stored version after a write of object x.
AfterWrite(x) == {c \in inSync : c[3] # x}
Held(o) == {c \in inSync : c[1] = o /\ c[2] = "held"}
IsCurrent(o, x) == <<o, "held", x>> \in inSync
\* What reading x from the cache of o adds: the copy is as old as the cache's.
Copy(o, x) == IF <<o, "cache", x>> \in inSync THEN {<<o, "held", x>>} ELSE {}

-----------------------------------------------------------------------------
Init ==
    /\ wl \in [Workloads -> {NewWorkload(s) : s \in Specs}]
    /\ deploy \in [Deployments -> Counts \cup {Absent}]
    /\ load \in [Workloads -> Answers]
    /\ wlCache = [o \in Operators |-> wl]
    /\ depCache = [o \in Operators |-> deploy]
    /\ inSync = Operators \X {"cache"} \X Objects
    /\ queue = [o \in Operators |-> Workloads]
    /\ delayed = [o \in Operators |-> {}]
    /\ rec = [o \in Operators |-> Idle]

-----------------------------------------------------------------------------
(* Reconcile, step 1: r.Get of the workload.                               *)

\* Mutant: the error of r.Get is not returned.
FetchUnchecked(o, w) ==
    /\ rec[o].pc = "idle"
    /\ w \in queue[o]
    /\ queue' = [queue EXCEPT ![o] = @ \ {w}]
    /\ rec' = [rec EXCEPT ![o] = Begin("metrics", w, wlCache[o][w])]
    /\ inSync' = inSync \cup Copy(o, w)
    /\ UNCHANGED <<store, caches, delayed>>

Fetch(o, w) ==
    /\ rec[o].pc = "idle"
    /\ w \in queue[o]
    /\ wlCache[o][w] # Absent
    /\ queue' = [queue EXCEPT ![o] = @ \ {w}]
    /\ rec' = [rec EXCEPT ![o] = Begin("metrics", w, wlCache[o][w])]
    /\ inSync' = inSync \cup Copy(o, w)
    /\ UNCHANGED <<store, caches, delayed>>

\* IgnoreNotFound: no error and no requeue, polling of w ends here.
FetchGone(o, w) ==
    /\ rec[o].pc = "idle"
    /\ w \in queue[o]
    /\ wlCache[o][w] = Absent
    /\ queue' = [queue EXCEPT ![o] = @ \ {w}]
    /\ UNCHANGED <<store, caches, inSync, delayed, rec>>

\* An exit of Reconcile is chosen: its event is emitted, its status is pending.
Conclude(o, reason, events) ==
    rec' = [rec EXCEPT ![o].pc = "status", ![o].outcome = reason,
                       ![o].emitted = @ \cup events]

(* Step 2: observeMetrics.  The client has no timeout, so an endpoint that *)
(* never answers leaves the worker in this step.                           *)

\* Mutant: one provider for all workloads, as before the fix the README tells of.
SharedAnswer(o) == load[CHOOSE w \in Workloads : TRUE]

Answer(o) == load[rec[o].w]

MetricsFailed(o) ==
    /\ rec[o].pc = "metrics"
    /\ Answer(o) = Unreachable
    /\ Conclude(o, MetricsUnavailable, Warning(rec[o], MetricsUnavailable))
    /\ UNCHANGED <<store, caches, inSync, queue, delayed>>

MetricsRead(o) ==
    /\ rec[o].pc = "metrics"
    /\ Answer(o) \notin {Unreachable, Hung}
    /\ rec' = [rec EXCEPT ![o].pc = "deployment", ![o].kv = Answer(o),
                          ![o].emitted = @ \cup Recovery(rec[o], MetricsUnavailable)]
    /\ UNCHANGED <<store, caches, inSync, queue, delayed>>

(* Step 3: observeDeployment, and computeDesiredReplicas on what it found. *)

Target(o) == rec[o].obj.spec.target
Seen(o) == depCache[o][Target(o)]
Wanted(o) == ComputeDesired(Seen(o), rec[o].kv, rec[o].obj.spec)

TargetMissing(o) ==
    /\ rec[o].pc = "deployment"
    /\ Seen(o) = Absent
    /\ Conclude(o, TargetDeploymentNotFound, Warning(rec[o], TargetDeploymentNotFound))
    /\ UNCHANGED <<store, caches, inSync, queue, delayed>>

HoldSteady(o) ==
    /\ rec[o].pc = "deployment"
    /\ Seen(o) # Absent
    /\ Wanted(o) = Seen(o)
    /\ rec' = [rec EXCEPT ![o].pc = "status", ![o].outcome = "Holding", ![o].current = Seen(o),
                          ![o].emitted = @ \cup Recovery(rec[o], TargetDeploymentNotFound)]
    /\ UNCHANGED <<store, caches, inSync, queue, delayed>>

\* Mutant: the version sent is the latest one, whatever the count was read from.
DecideRereading(o) ==
    /\ rec[o].pc = "deployment"
    /\ Seen(o) # Absent
    /\ Wanted(o) # Seen(o)
    /\ rec' = [rec EXCEPT ![o].pc = "update", ![o].current = Seen(o),
                          ![o].emitted = @ \cup Recovery(rec[o], TargetDeploymentNotFound)]
    /\ inSync' = inSync \cup {<<o, "held", Target(o)>>}
    /\ UNCHANGED <<store, caches, queue, delayed>>

DecideToScale(o) ==
    /\ rec[o].pc = "deployment"
    /\ Seen(o) # Absent
    /\ Wanted(o) # Seen(o)
    /\ rec' = [rec EXCEPT ![o].pc = "update", ![o].current = Seen(o),
                          ![o].emitted = @ \cup Recovery(rec[o], TargetDeploymentNotFound)]
    /\ inSync' = inSync \cup Copy(o, Target(o))
    /\ UNCHANGED <<store, caches, queue, delayed>>

(* Step 4: r.Update of the Deployment in makeAdjustmentIfNeeded.           *)

Direction(r) == IF Desired(r) < r.current THEN "ScaledDown" ELSE "ScaledUp"

\* What the API server accepts: the copy's version is the stored one, and
\* spec.replicas is not negative.
UpdateAccepted(o) == IsCurrent(o, Target(o)) /\ Desired(rec[o]) \in ReplicaCounts

ReplaceCount(o) ==
    /\ deploy' = [deploy EXCEPT ![Target(o)] = Desired(rec[o])]
    /\ inSync' = AfterWrite(Target(o))
    /\ UNCHANGED <<wl, load, caches, queue, delayed>>

\* Mutant: a Patch of spec.replicas, which carries no version.
ScaleByPatch(o) ==
    /\ rec[o].pc = "update"
    /\ deploy[Target(o)] # Absent /\ Desired(rec[o]) \in ReplicaCounts
    /\ ReplaceCount(o)
    /\ Conclude(o, Direction(rec[o]), {Direction(rec[o])})

Scale(o) ==
    /\ rec[o].pc = "update"
    /\ UpdateAccepted(o)
    /\ ReplaceCount(o)
    /\ Conclude(o, Direction(rec[o]), {Direction(rec[o])})

\* A conflict, a Deployment deleted meanwhile, or an invalid count.
ScaleRejected(o) ==
    /\ rec[o].pc = "update"
    /\ ~UpdateAccepted(o)
    /\ Conclude(o, "ScaleFailed", Warning(rec[o], "ScaleFailed"))
    /\ UNCHANGED <<store, caches, inSync, queue, delayed>>

(* Step 5: recordStatus, whose error is only logged, and the requeue.      *)

\* Mutant: ObservedGeneration is left for SetStatusCondition to fill in.
NewStatusUngenerated(r) ==
    [reason |-> r.outcome, gen |-> r.obj.status.gen, kv |-> r.kv, desired |-> Desired(r)]

\* The pointer fields of statusUpdate that are nil keep the copy's values.
NewStatus(r) ==
    [reason |-> r.outcome,
     gen |-> r.obj.gen,
     kv |-> IF r.outcome = MetricsUnavailable THEN r.obj.status.kv ELSE r.kv,
     desired |-> IF r.outcome \in {MetricsUnavailable, TargetDeploymentNotFound}
                 THEN r.obj.status.desired ELSE Desired(r)]

\* Mutant: the status is patched, whatever version the workload is at.
StatusPatchAccepted(o) == wl[rec[o].w] # Absent /\ NewStatus(rec[o]).kv \in 0 .. 100

\* The CRD schema of .status; a zero DesiredReplicas is omitted, not invalid.
StatusAccepted(o) ==
    /\ IsCurrent(o, rec[o].w)
    /\ NewStatus(rec[o]).kv \in 0 .. 100
    /\ NewStatus(rec[o]).desired >= 0

\* Mutant: the error exits return no RequeueAfter.
FinishWithoutRequeue(o) ==
    /\ rec' = [rec EXCEPT ![o] = Idle]
    /\ delayed' = [delayed EXCEPT ![o] =
                     IF rec[o].outcome \in FailureReasons THEN @ ELSE @ \cup {rec[o].w}]

\* RequeueAfter, or the rate limiter when ScaleFailed returned its error.
Finish(o) ==
    /\ rec' = [rec EXCEPT ![o] = Idle]
    /\ delayed' = [delayed EXCEPT ![o] = @ \cup {rec[o].w}]

\* A write that changes nothing leaves the stored version as it is.  A scaling
\* also writes LastScaleTime; the message of a failure may or may not change.
WriteStatus(o) ==
    /\ rec[o].pc = "status"
    /\ StatusAccepted(o)
    /\ wl' = [wl EXCEPT ![rec[o].w].status = NewStatus(rec[o])]
    /\ \/ /\ wl' = wl /\ rec[o].outcome \notin ScaleReasons
          /\ inSync' = inSync \ Held(o)
       \/ /\ wl' # wl \/ rec[o].outcome # "Holding"
          /\ inSync' = AfterWrite(rec[o].w) \ Held(o)
    /\ Finish(o)
    /\ UNCHANGED <<deploy, load, caches, queue>>

StatusRejected(o) ==
    /\ rec[o].pc = "status"
    /\ ~StatusAccepted(o)
    /\ inSync' = inSync \ Held(o)
    /\ Finish(o)
    /\ UNCHANGED <<store, caches, queue>>

-----------------------------------------------------------------------------
(* The manager around Reconcile: timers, informers and the watch.          *)

Requeue(o, w) ==
    /\ w \in delayed[o]
    /\ delayed' = [delayed EXCEPT ![o] = @ \ {w}]
    /\ queue' = [queue EXCEPT ![o] = @ \cup {w}]
    /\ UNCHANGED <<store, caches, inSync, rec>>

\* Mutant: the watch without the predicate.
TriggersOnAnyUpdate(old, new) == old # new

\* GenerationChangedPredicate lets creations and deletions through, and of
\* the updates only those that moved metadata.generation.
Triggers(old, new) ==
    \/ old = Absent /\ new # Absent
    \/ old # Absent /\ new = Absent
    \/ old # Absent /\ new # Absent /\ old.gen # new.gen

SyncWorkload(o, w) ==
    /\ <<o, "cache", w>> \notin inSync
    /\ wlCache' = [wlCache EXCEPT ![o][w] = wl[w]]
    /\ inSync' = inSync \cup {<<o, "cache", w>>}
    /\ queue' = [queue EXCEPT ![o] =
                   IF Triggers(wlCache[o][w], wl[w]) THEN @ \cup {w} ELSE @]
    /\ UNCHANGED <<store, depCache, delayed, rec>>

\* The controller does not watch Deployments: only the cache moves.
SyncDeployment(o, d) ==
    /\ <<o, "cache", d>> \notin inSync
    /\ depCache' = [depCache EXCEPT ![o][d] = deploy[d]]
    /\ inSync' = inSync \cup {<<o, "cache", d>>}
    /\ UNCHANGED <<store, wlCache, queue, delayed, rec>>

-----------------------------------------------------------------------------
(* Disturbances: other clients of the API server, the endpoints, faults.   *)

\* A write of w by another client.
StoreWorkload(w, object) ==
    /\ wl' = [wl EXCEPT ![w] = object]
    /\ inSync' = AfterWrite(w)
    /\ UNCHANGED <<deploy, load, caches, queue, delayed, rec>>

EditSpec(w, s) ==
    /\ "edit" \in Disturbances
    /\ wl[w] # Absent
    /\ s # wl[w].spec
    /\ wl[w].gen < MaxGeneration
    /\ StoreWorkload(w, [spec |-> s, gen |-> wl[w].gen + 1, status |-> wl[w].status])

\* A write of metadata only: no new generation, but every copy is out of date.
TouchWorkload(w) ==
    /\ "touch" \in Disturbances
    /\ wl[w] # Absent
    /\ StoreWorkload(w, wl[w])

DeleteWorkload(w) ==
    /\ "lifecycle" \in Disturbances
    /\ wl[w] # Absent
    /\ StoreWorkload(w, Absent)

\* Bound: a name is used again only after every informer saw it deleted.
CreateWorkload(w, s) ==
    /\ "lifecycle" \in Disturbances
    /\ wl[w] = Absent
    /\ \A o \in Operators : wlCache[o][w] = Absent
    /\ StoreWorkload(w, NewWorkload(s))

\* A write of d by another client; one that keeps the count (the Deployment
\* controller's status, a label) still makes every copy out of date.
StoreDeployment(d, count) ==
    /\ deploy' = [deploy EXCEPT ![d] = count]
    /\ inSync' = AfterWrite(d)
    /\ UNCHANGED <<wl, load, caches, queue, delayed, rec>>

ExternalScale(d, n) ==
    /\ "scale" \in Disturbances
    /\ deploy[d] \notin {Absent, n}
    /\ StoreDeployment(d, n)

TouchDeployment(d) ==
    /\ "touch" \in Disturbances
    /\ deploy[d] # Absent
    /\ StoreDeployment(d, deploy[d])

DeleteDeployment(d) ==
    /\ "target" \in Disturbances
    /\ deploy[d] # Absent
    /\ StoreDeployment(d, Absent)

CreateDeployment(d, n) ==
    /\ "target" \in Disturbances
    /\ deploy[d] = Absent
    /\ StoreDeployment(d, n)

ChangeLoad(w, l) ==
    /\ "load" \in Disturbances
    /\ load' = [load EXCEPT ![w] = l]
    /\ UNCHANGED <<wl, deploy, caches, inSync, queue, delayed, rec>>

\* A request that fails for no reason the state shows, or whose reply is
\* lost after the API server applied it.
ScaleFault(o) ==
    /\ "fault" \in Disturbances
    /\ rec[o].pc = "update"
    /\ UpdateAccepted(o)
    /\ \/ ReplaceCount(o)
       \/ UNCHANGED <<store, caches, inSync, queue, delayed>>
    /\ Conclude(o, "ScaleFailed", Warning(rec[o], "ScaleFailed"))

\* A lost reply of a status write is a WriteStatus: its error is only logged.
StatusFault(o) ==
    /\ "fault" \in Disturbances
    /\ rec[o].pc = "status"
    /\ inSync' = inSync \ Held(o)
    /\ Finish(o)
    /\ UNCHANGED <<store, caches, queue>>

\* The process stops between any two steps; the next one lists everything
\* and gets a Create event for every workload.
Restart(o) ==
    /\ "restart" \in Disturbances
    /\ wlCache' = [wlCache EXCEPT ![o] = wl]
    /\ depCache' = [depCache EXCEPT ![o] = deploy]
    /\ inSync' = (inSync \ Held(o)) \cup ({o} \X {"cache"} \X Objects)
    /\ queue' = [queue EXCEPT ![o] = {w \in Workloads : wl[w] # Absent}]
    /\ delayed' = [delayed EXCEPT ![o] = {}]
    /\ rec' = [rec EXCEPT ![o] = Idle]
    /\ UNCHANGED <<store>>

-----------------------------------------------------------------------------
Step(o) ==
    \/ \E w \in Workloads : Fetch(o, w) \/ FetchGone(o, w)
    \/ MetricsFailed(o) \/ MetricsRead(o)
    \/ TargetMissing(o) \/ HoldSteady(o) \/ DecideToScale(o)
    \/ Scale(o) \/ ScaleRejected(o)
    \/ WriteStatus(o) \/ StatusRejected(o)

Manager(o) ==
    \/ \E w \in Workloads : Requeue(o, w) \/ SyncWorkload(o, w)
    \/ \E d \in Deployments : SyncDeployment(o, d)

Undisturbed == \E o \in Operators : Step(o) \/ Manager(o)

Disturbance ==
    \/ \E w \in Workloads : \/ \E s \in Specs : EditSpec(w, s) \/ CreateWorkload(w, s)
                            \/ TouchWorkload(w) \/ DeleteWorkload(w)
                            \/ \E l \in Answers : ChangeLoad(w, l)
    \/ \E d \in Deployments : \/ \E n \in Counts : ExternalScale(d, n) \/ CreateDeployment(d, n)
                              \/ TouchDeployment(d) \/ DeleteDeployment(d)
    \/ \E o \in Operators : ScaleFault(o) \/ StatusFault(o) \/ Restart(o)

Next == Undisturbed \/ Disturbance

Spec == Init /\ [][Next]_vars

\* The worker and the informers of a running process are scheduled; timers
\* fire; the work queue is first in first out, so whatever is queued while
\* the worker keeps coming back is eventually taken.
Fairness ==
    \A o \in Operators :
        /\ WF_vars(Step(o))
        /\ \A w \in Workloads : /\ SF_vars(Fetch(o, w) \/ FetchGone(o, w))
                                /\ WF_vars(Requeue(o, w))
                                /\ WF_vars(SyncWorkload(o, w))
        /\ \A d \in Deployments : WF_vars(SyncDeployment(o, d))

FairSpec == Spec /\ Fairness

=============================================================================
