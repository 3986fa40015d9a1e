------------------------ MODULE ReconcilerProperties ------------------------
(***************************************************************************)
(* What the operator of module Reconciler promises: a type invariant,      *)
(* safety invariants, action properties, and liveness once the environment *)
(* leaves the system alone.                                                *)
(***************************************************************************)
EXTENDS Reconciler

\* The types of the state: stored objects, the copies of them, the work
\* queues and the Reconcile each operator has in progress.
TypeOK ==
    /\ wl \in [Workloads -> Objs \cup {Absent}]
    /\ deploy \in [Deployments -> ReplicaCounts \cup {Absent}]
    /\ load \in [Workloads -> Answers]
    /\ wlCache \in [Operators -> [Workloads -> Objs \cup {Absent}]]
    /\ depCache \in [Operators -> [Deployments -> ReplicaCounts \cup {Absent}]]
    /\ inSync \subseteq Operators \X {"cache", "held"} \X Objects
    /\ queue \in [Operators -> SUBSET Workloads]
    /\ delayed \in [Operators -> SUBSET Workloads]
    /\ rec \in [Operators -> InFlight \cup {Idle}]

\* Optimistic concurrency is sound: a copy that still carries the stored
\* resourceVersion, in an informer or in a Reconcile in progress, is the
\* stored object.  Everything the writes below promise rests on it.
CachedWorkload(o, w) == <<o, "cache", w>> \in inSync => wlCache[o][w] = wl[w]
CachedDeployment(o, d) == <<o, "cache", d>> \in inSync => depCache[o][d] = deploy[d]
HeldWorkload(o, w) ==
    IsCurrent(o, w) => /\ rec[o].pc # "idle"
                       /\ rec[o].w = w
                       /\ rec[o].obj = wl[w]
HeldDeployment(o, d) ==
    IsCurrent(o, d) => /\ rec[o].pc \in {"update", "status"}
                       /\ Target(o) = d
                       /\ rec[o].current = deploy[d]
CopiesAgree ==
    \A o \in Operators :
        /\ \A w \in Workloads : CachedWorkload(o, w) /\ HeldWorkload(o, w)
        /\ \A d \in Deployments : CachedDeployment(o, d) /\ HeldDeployment(o, d)

\* Reconciliation is polling (RequeueAfter on every exit, GenerationChanged-
\* Predicate on the watch): whatever fails, a workload an informer knows is
\* queued, waiting for its timer, or being reconciled, and one that exists is
\* known to the informer or still about to be announced to it.
Tracked(o, w) == w \in queue[o] \cup delayed[o] \/ rec[o].w = w
KnownIsTracked(o, w) == wlCache[o][w] # Absent => Tracked(o, w)
PollingNeverStops ==
    \A o \in Operators, w \in Workloads :
        /\ KnownIsTracked(o, w)
        /\ wl[w] # Absent => Tracked(o, w) \/ <<o, "cache", w>> \notin inSync

\* A workload is polled once per interval: unless its spec is edited or it is
\* created anew, it is never queued while a timer or a Reconcile of it is
\* outstanding.  The operator's own status writes come back on the watch and
\* must not start the overlapping Reconciles the predicate was added against.
PollsOnce ==
    Disturbances \cap {"edit", "lifecycle"} = {} =>
      \A o \in Operators, w \in Workloads :
        /\ ~(w \in queue[o] /\ w \in delayed[o])
        /\ rec[o].w = w => w \notin queue[o] \cup delayed[o]

-----------------------------------------------------------------------------
(* Action properties.                                                      *)

\* The Reconcile that issues a Deployment Update in this step, if any.
Updating(o) == rec[o].pc = "update" /\ rec'[o].pc = "status"

\* No scaling decision is applied to a count it was not computed from: when
\* a Reconcile of any operator changes a Deployment, the new count is the
\* scaling rule applied to the count it replaces, whoever wrote that one
\* between the read of the Deployment and the Update (r.Update, no Patch).
ScalesFromStoredCount ==
    [][\A o \in Operators : \A d \in Deployments :
          Updating(o) /\ deploy'[d] # deploy[d] =>
            /\ d = Target(o)
            /\ deploy'[d] = ComputeDesired(deploy[d], rec[o].kv, rec[o].obj.spec)]_vars

\* A count inside the bounds a Reconcile read never leaves them by its
\* Update, and moves by exactly one replica, up only above the high threshold
\* and down only below the low one; a count outside the bounds, where another
\* client or an edit put it, never ends further out (min <= max).
MovesWithinBounds ==
    [][\A o \in Operators : \A d \in Deployments :
          LET s == rec[o].obj.spec
              kv == rec[o].kv
          IN Updating(o) /\ deploy'[d] # deploy[d] /\ s.min <= s.max =>
               /\ Excess(deploy'[d], s) <= Excess(deploy[d], s)
               /\ InBounds(deploy[d], s) =>
                    /\ InBounds(deploy'[d], s)
                    /\ \/ deploy'[d] = deploy[d] + 1 /\ kv > s.high
                       \/ deploy'[d] = deploy[d] - 1 /\ kv < s.low]_vars

\* Scaling does not go on for ever, nor back and forth: every Update brings
\* the count strictly closer to where the rule rests for the usage and the
\* spec it was decided on, also when min exceeds max or the bands overlap, and
\* whoever moved the count or the load before.
UpdatesApproachRest ==
    [][\A o \in Operators : \A d \in Deployments :
          LET s == rec[o].obj.spec
              kv == rec[o].kv
          IN Updating(o) /\ deploy'[d] # deploy[d] =>
               Remaining(deploy'[d], kv, s) < Remaining(deploy[d], kv, s)]_vars

\* The status of w that is replaced in this step.
StatusChanges(w) ==
    /\ wl[w] # Absent /\ wl'[w] # Absent
    /\ wl'[w].status # wl[w].status

\* The ObservedGeneration of the conditions is never a claim about a spec the
\* decision did not use: a status is only stored while the spec it was
\* computed from is the stored spec, under that spec's generation.
StatusVouchesForSpec ==
    [][\A w \in Workloads : StatusChanges(w) =>
          /\ wl'[w].status.gen = wl[w].gen
          /\ wl'[w].spec = wl[w].spec
          /\ \E o \in Operators : rec[o].w = w /\ rec[o].obj.spec = wl[w].spec]_vars

\* The events a change of the recorded reason must have been announced with.
Announced(old, new, emitted) ==
    /\ new \in FailureReasons \cup ScaleReasons /\ new # old => new \in emitted
    /\ new \in ScaleReasons => new \in emitted
    /\ old = MetricsUnavailable /\ new # old => "Recovered" \in emitted
    /\ old = TargetDeploymentNotFound /\ new \notin {old, MetricsUnavailable} =>
         "Recovered" \in emitted

\* Status (what is true now) and Events (what happened) never contradict each
\* other: every stored change of lastTransitionReason was announced by the
\* Reconcile that stores it, failures by a Warning, scalings by a Normal
\* event, the end of an observation failure by Recovered, even when caches
\* are stale, writes conflict and operators crash between event and status.
NoSilentTransition ==
    [][\A w \in Workloads : StatusChanges(w) =>
          \E o \in Operators :
             /\ rec[o].w = w
             /\ Announced(wl[w].status.reason, wl'[w].status.reason, rec[o].emitted)]_vars

-----------------------------------------------------------------------------
(* Refinement.                                                             *)

Promise == INSTANCE Scaler

\* However many operators read stale caches, collide and crash, what the API
\* server stores moves only by atomic scalings of the stored counts and by
\* reports that the stored spec explains, as module Scaler says.
ImplementsScaler == Promise!Spec

-----------------------------------------------------------------------------
(* Liveness, once the environment leaves the system alone.                 *)

EventuallyUndisturbed == <>[][Undisturbed]_vars

\* What a Reconcile of w must come to in the present state.
Diagnosis(w) ==
    IF load[w] = Unreachable THEN MetricsUnavailable
    ELSE IF deploy[wl[w].spec.target] = Absent THEN TargetDeploymentNotFound
    ELSE "Holding"

Observable(w) == wl[w] # Absent /\ load[w] # Hung
Reportable(w) == Observable(w) /\ load[w] \in (0 .. 100) \cup {Unreachable}

\* The status of w is the truth, and its target at rest.
Settled(w) ==
    LET st == wl[w].status
        d == wl[w].spec.target
    IN /\ Reportable(w)
       /\ st.reason = Diagnosis(w) /\ st.gen = wl[w].gen
       /\ load[w] # Unreachable => st.kv = load[w]
       /\ Diagnosis(w) = "Holding" =>
            /\ st.desired = deploy[d]
            /\ deploy[d] = ComputeDesired(deploy[d], load[w], wl[w].spec)

\* What operator o knows of w is what is there: its caches, and what a
\* Reconcile of w it has in progress has read; that one announced nothing.
Informed(o, w) ==
    LET r == rec[o]
        d == wl[w].spec.target
    IN /\ wlCache[o][w] = wl[w] /\ depCache[o][d] = deploy[d]
       /\ r.w = w =>
            /\ r.pc # "update" /\ r.obj = wl[w] /\ r.emitted = {}
            /\ r.pc = "deployment" => r.kv = load[w] /\ load[w] # Unreachable
            /\ r.pc = "status" =>
                 /\ r.outcome = Diagnosis(w)
                 /\ load[w] # Unreachable => r.kv = load[w]
                 /\ r.outcome = "Holding" => r.current = deploy[d]

Quiet(o, w) == Settled(w) /\ Informed(o, w)

\* The step changes w, its metrics or its target, and is no step of the
\* Reconcile of w that o has in progress.
MovedByOthers(o, w) ==
    /\ \/ wl'[w] # wl[w]
       \/ load'[w] # load[w]
       \/ deploy'[wl[w].spec.target] # deploy[wl[w].spec.target]
    /\ rec[o].w = w => rec'[o] = rec[o]

\* An operator with nothing to do is silent: where the status of w is the
\* truth and its target at rest, and o knows it, o goes on polling w without a
\* scaling, a change of the status or an event, until somebody else moves w,
\* its metrics or its target.  Restarts, faults, conflicts and the writes of
\* other operators and for other workloads do not wake it.  A Reconcile that o
\* began on older copies is not covered: it may still be rejected and warn.
RestIsSilent ==
    [][\A o \in Operators : \A w \in Workloads :
          Quiet(o, w) => Quiet(o, w)' \/ MovedByOthers(o, w)]_vars

\* The operator converges: whatever conflicts, faults, restarts and edits
\* went before, the count of a target comes to rest at a fixed point of the
\* scaling rule for the spec and the usage in force.
CountSettles ==
    EventuallyUndisturbed =>
      <>[](\A w \in Workloads :
             LET d == wl[w].spec.target
             IN Observable(w) /\ load[w] \in Readings /\ deploy[d] # Absent =>
                  deploy[d] = ComputeDesired(deploy[d], load[w], wl[w].spec))

\* Status is eventually the truth: writes that were lost or rejected are made
\* up for, and the recorded reason, count and generation become and stay the
\* ones of the state in force (for a usage the CRD schema can hold).
StatusSettles ==
    EventuallyUndisturbed =>
      <>[](\A w \in Workloads :
             Reportable(w) => /\ wl[w].status.reason = Diagnosis(w)
                              /\ wl[w].status.gen = wl[w].gen
                              /\ Diagnosis(w) = "Holding" =>
                                   wl[w].status.desired = deploy[wl[w].spec.target])

=============================================================================
