# TLA+ specifications of ai-infra-demo

This directory holds TLA+ models of the programs in this repository that keep
state and can get it wrong, the TLC configurations that check the models on
small instances, and TLAPS proofs of the most important results for every value
of the constants. `PROJECT.json` is the machine-readable index: which definition
stands for which lines, which run checks which property, which hazard of the
code each property is aimed at.

    tlc -workers 2 -config MCOperator.cfg MCReconciler   # one run
    tlapm ReconcilerProofs.tla                           # the proofs about one component

## 1. Inventory: the system and its parts

The repository is an AI-infrastructure portfolio: a Kubernetes operator written
in Go, a set of Python load generators and measurement scripts for vLLM and Ollama, and an
Ansible/Terraform set-up of a small Slurm cluster, together with charts,
dashboards and benchmark results.

### WorkloadLifecycle operator (`go-operator/`) — the core

| part | state | operations |
|---|---|---|
| `WorkloadLifecycleReconciler` (`internal/controller/workloadlifecycle_controller.go`) | none of its own: everything it remembers is `.status` | `Reconcile`: read the workload, `observeMetrics`, `observeDeployment`, `computeDesiredReplicas`, `makeAdjustmentIfNeeded`, `recordStatus`, events |
| `HTTPMetricsProvider` (`internal/controller/metrics_provider.go`) | none | one HTTP GET, a parse of the exposition text, `int32(v * 100)` |
| API types and CRD schema (`api/v1alpha1`, `config/crd`) | the stored `WorkloadLifecycle` objects | validation of spec and of status |
| manager process (`cmd/main.go`) | informer caches, work queue, rate limiter, one worker | list/watch, `GenerationChangedPredicate`, `RequeueAfter`, crash and restart |
| metrics stub (`local-test/metrics-stub/app.py`) | one dictionary, used by the threads of the server without a lock | `/set`, `/metrics` |

How they interact. Each `Reconcile` reads the workload from the informer cache,
makes a blocking HTTP call to the workload's metrics endpoint, reads the target
Deployment from the cache, decides, writes the Deployment with `Update` and then
the workload with `Status().Update`. Both writes carry the resourceVersion of
the copy that was read. Everybody else — users with `kubectl`, the Deployment
controller, a second operator process (leader election is off by default) —
writes to the same two kinds of object in between. The next Reconcile is caused
by `RequeueAfter` only: Deployments are not watched, and of the updates of a
workload only a new generation passes the predicate.

What is hard: decisions taken on stale copies; two writes of which either may
fail, be refused, or be applied with its reply lost; a crash between update,
event and status; events gated on a status that may not have been written;
polling as the only trigger; one worker and an HTTP client without a timeout;
int32 arithmetic and thresholds and bounds that nothing relates to each other.

What makes it correct: no decision is ever applied to a count it was not made
from; in-bounds counts stay in bounds and move by one; a status never vouches
for a spec it was not computed from; no reason changes without its event;
polling never stops and never doubles; count and status settle when the world
does.

### Chat load generators (`kv-inference/scripts/`)

`load_test_chunked_prefill.py` and `load_test_multi_session.py` run a pool of
chat sessions against vLLM; the main thread collects results, in `--continuous`
mode replaces finished sessions until ctrl-C, optionally with a daemon thread
that injects cold prompts; then prints percentiles. State: the set of futures,
the shared `all_results` list under a lock, `stop_event`. Hard: the set of
futures is replaced, shrunk and grown while it is iterated over; an exception of
one session surfaces in the main thread; ctrl-C comes at any point; a response may
break off, be garbled, or never end. Correct when the load stays the one asked for, nothing is counted twice or
forgotten, and ctrl-C ends the run.

`ramp_load_test.py` starts such a generator once per stage as a child process
and stops it with SIGINT and, 15 seconds later, SIGKILL. Correct when every stage
is run whatever becomes of the children before it.

### Round by round measurement (`kv-inference/scripts/`)

`load_test_vllm.py` and `load_test_ollama.py` go through levels of concurrency,
each a pool of threads with one request per thread; `measure_chat_session.py` goes
through the turns of one session; `measure_inference_*.py` makes one request. All
read a stream of lines and take the time of the first token and of the end, and
print each round when it is over. State: the local variables of the readers, the list
of results. Hard: the time of a line is taken when a thread gets to read it;
a response may have no token, no end or no last line; one failing request leaves
`pool.map` while others run. Correct when a round that is printed is true of its
requests, and no request of a round is at work in the next.

### Slurm cluster (`slurm-rdma/`)

`ansible/playbook.yml` turns two fresh nodes into a Slurm cluster and is run
again after any change. State: what it leaves on the nodes' disks (packages,
`munge.key`, `/etc/hosts`, `slurm.conf`, the swap entry of `/etc/fstab`, the list of kernel modules),
what is loaded since the daemons or the node last
started, and `/tmp/munge.key` on the control machine. Hard: a host that fails
drops out while the others go on; nodes reboot and are provisioned anew, with or
without their disk, at other addresses; state of earlier runs survives, and the control machine keeps the
key at one path for every cluster. Correct when a run without failures leaves one key and one
current configuration loaded everywhere, nothing of it is lost by a reboot, and no run
destroys what an earlier one achieved.

### The rest

Terraform, Helm values, RBAC and CI manifests, sbatch jobs and the dashboards
are declarations or straight sequences of commands; the benchmark files are
data. They are listed in `PROJECT.json` with the reason each is left out.

## 2. The modules

| module | models | used by |
|---|---|---|
| `ScalingRule` | `computeDesiredReplicas`, over int32 of width `2 * Half` | `Reconciler`, `Scaler` |
| `MetricsProvider` | `GetMetrics` and `parsePrometheusMetrics`: what a response reads as | `MCReconciler` |
| `Reconciler` | `Reconcile` in its five steps, the manager around it, the API server and everybody else | all below |
| `ReconcilerProperties` | what the operator promises | the proofs, the MC modules |
| `Scaler` | the abstract operator: atomic scalings and explained reports | `ImplementsScaler` |
| `ReconcilerClaims`, `OutageHistory` | statements of the README that the code does not keep | the violation runs |
| `MetricsStub` | the stub as threads over one dictionary, and its promises | `MCStub` |
| `Gauge` | an atomic gauge with overlapping calls: what each value of the stub is | `ImplementsGauges` |
| `LoadTest` | the load generator and its promises | `RampTest` |
| `SessionPool` | the abstract load generator: sessions turned over in one step | `ImplementsPool` |
| `RampTest` | the ramp over `LoadTest`: one child process per stage | `MCLoadTest` |
| `LoadSweep` | the scripts that measure in rounds, and their promises | `MCSweep` |
| `LoadPlan` | the abstract load test: one stage of a plan after the other, as the server meets them | `ImplementsPlan` of `RampTest` and of `LoadSweep` |
| `Playbook` | the playbook over repeated runs and its promises | `MCPlaybook` |
| `MC*` | constants for TLC | |
| `ReconcilerProofs`, `ScalerProofs`, `MetricsProviderProofs`, `MetricsStubProofs`, `LoadTestProofs` (with `RampTest`), `LoadSweepProofs`, `PlaybookProofs` | TLAPS proofs, section 4 | |

A definition introduced by a comment that begins with *Mutant* is not part of a
model. It is the variant of the definition after it with a plausible bug in it, and is
there to show that the property at stake notices the bug.

### Reconciler: correspondence with the code

State. `wl[w]` and `deploy[d]` are what the API server stores: a workload is its
spec, generation and status; a Deployment is its `spec.replicas`. `wlCache[o]`
and `depCache[o]` are the informer caches of operator process `o`, `queue[o]` its
work queue, `delayed[o]` the workloads waiting for `RequeueAfter` or the rate
limiter, `rec[o]` the local variables of the `Reconcile` in progress. `load[w]` is
what the metrics endpoint of `w` would do if called.

resourceVersions are only compared for equality with the stored one. The set
`inSync` therefore holds the copies — in a cache, or held by a Reconcile — that
still carry the stored version. A write takes every copy of the object out of the
set; a read from the cache adds the held copy exactly if the cache's copy is in it.

| action | code |
|---|---|
| `Fetch`, `FetchGone` | `r.Get` of the workload, `IgnoreNotFound` |
| `MetricsFailed`, `MetricsRead` | `observeMetrics` and its two exits |
| `TargetMissing`, `HoldSteady`, `DecideToScale` | `observeDeployment`, `computeDesiredReplicas` and the choice of exit |
| `Scale`, `ScaleRejected`, `ScaleFault` | `r.Update` in `makeAdjustmentIfNeeded`: accepted, refused, failed or applied with its reply lost |
| `WriteStatus`, `StatusRejected`, `StatusFault` | `recordStatus`, whose error is only logged, and the return value with its requeue |
| `Requeue` | a timer or the rate limiter |
| `SyncWorkload`, `SyncDeployment` | the watch, with `GenerationChangedPredicate` for workloads; an informer may skip intermediate versions |
| `Restart` | the process dies at any point, a new one lists everything |
| `EditSpec`, `TouchWorkload`, `DeleteWorkload`, `CreateWorkload`, `ExternalScale`, `TouchDeployment`, `DeleteDeployment`, `CreateDeployment`, `ChangeLoad` | everybody else |

The last row and the faults are switched on by kind with the constant
`Disturbances`, so that a run can combine the kinds that bear on its question.

Abstractions. Time: a delayed workload becomes due at an arbitrary moment, which
covers the 15-second poll and every back-off. Conditions and `LastScaleTime`
follow from the recorded reason and are not separate state; the generation both
conditions carry is. Messages are left out, except that a message that changes
makes a status write a real write, so `WriteStatus` lets a write that changes nothing else
invalidate copies or not. Events are the set `emitted` of the Reconcile
in progress; delivery of events is best effort in Kubernetes and not modelled.
The first list after a restart returns the stored objects.

### MetricsProvider: correspondence with the code

A response is a status and the lines of a body, a line the list of its fields.
`Parse` has the rules of the loop: a line counts when it has two fields and one
of the two names, a value that does not parse makes the whole response an error,
the last line of a name wins, and a body without the line reads as the zero value
of `Metrics`. Values are in thousandths. `Percent` is `int32(v * 100)`: it cuts off towards zero, and for the seven
hundredths up to 1.99 whose product with 100 falls short of an integer (`ShortHundredths`) it
comes out one lower. Above 1.99 more values fall short (2.01 reads as 200); which ones is left open there, so
a multiple of a hundredth reads as itself or one lower (`Magnitudes`). Negative values mirror positive ones: -0.29 reads as -28. A float that does not fit an int32 is converted to what the
processor makes of it, which Go leaves open: the smallest integer on amd64, the nearer end of the
range on arm64; for NaN the smallest integer or 0. So `Percent`, `Parse` and `GetMetrics` return the *set* of
readings a build can produce. `MCReconciler` derives the readings of all runs from responses with
them, among them one with the names a vLLM server uses, one of 1000 percent in a model whose integers
end at 255, and NaN, and has TLC compare `Parse`
with what it should return for every body of two lines (`ReadingIsLastUsage`).
`Metrics` is the body of the stub. The stub takes any integer for its number of requests; the operator refuses one beyond an int64,
and with it the whole response, which is one of the ways in which an endpoint of the runs fails (`Unparsable`).

### MetricsStub and Gauge: correspondence with the code

`state` is the dictionary, `call[c]` the call of client `c` as far as its thread has got.
A handler is one step per access to an item: `StoreKv` and `StoreRequests` are the two
`if` statements of `/set` (a missing key stores nothing, a value that does not parse
is `BadValue`, which leaves what has been stored), `ReplySet` is `jsonify(state)`;
`ReadKv` and `ReadRequests` put the body of `/metrics` together. `shown` is a history
variable: what the last answer to a `/set` showed, as long as no other has begun.

`ImplementsGauges` maps each of the two values to a `Gauge` of its own, whose calls take
effect at one moment. That is what lets `Reconciler` have a workload's endpoint as one value
`load[w]` that changes and is read in single steps. The pair of the values is not atomic, and nothing
reads it as one: the operator uses the first value only.

### LoadTest and RampTest: correspondence with the code

`main` is the position of the main thread, `active` and `done` the sets of
futures it waits for and iterates over, `session[s]` a worker's progress with the
length of its result list, `injector` the daemon thread. A result is the pair of
session and turn; timings are left out. A session looks at `stop_event` after
each answer and only there; the injector when its sleep is over and only there.
`continuous`, the concurrency and the presence of the injector are the command-line
options, chosen in `Init`. `Leave` is the end of the `with ThreadPoolExecutor`
statement, which waits for every submitted session also when an exception is on
its way out.

A response is the sequence of its lines, or `Refused`, or `Hung`. `Answers` and
`Raises` say which of them `run_inference` returns from and which make it raise:
lines after `[DONE]` are not read, a response without a token or one that breaks
off counts as an answer, a line that is not the JSON expected raises, and so
does a refused connection. A `Hung` response leaves the session at "hung" for
good, since `urlopen` is called without a timeout.

The three scripts `load_test_chunked_prefill.py` (in `nebius-3-kv-expr` and in
`local`) and `load_test_multi_session.py` have the same control; the last has no
injector, and its report takes its medians of all results, which without an
injector are the chat results. `PROJECT.json` spreads the definitions over the copies.

`RampTest` adds the parent: `Popen` starts the child from the initial state of `LoadTest`
with the concurrency of the stage; `DurationOver` is the SIGINT, which raises
`KeyboardInterrupt` in the child's loop, and, when the child is already on its way out,
changes nothing that matters; `Kill` comes 15 seconds later; `ChildEnded` is a
`wait` that returns. With `parent = "none"` the generator was started by a user, who
may press ctrl-C.

`ImplementsPool` maps the generator to `SessionPool`: a session that has been collected
and one that takes its place are one step there, `Collect`, and `Replace` a stutter. The mapped pool (`Live`) is
the sessions that are waited for or not yet collected, with the coming session in the position
"replace". A child process that the ramp starts is a pool of its own (`Anew`).

`ImplementsPlan` of `RampTest` maps the ramp to `LoadPlan`, the load test as the server sees it: `pool` is the sessions of the child
that is in its loop, `busy` the requests in flight. A stage closes when the child leaves its loop, and the next one may begin
only when nothing of it is at work.

### LoadSweep: correspondence with the code

One module for seven scripts, which are one loop with different parameters. A program is a record: `rounds` the number
of requests of each round (the levels, the turns, or one), `format` the stream it reads, `counts` the chunks that count as
tokens, `pool` whether threads of a pool or the main thread read, `continuous` the option.
`request[i]` holds the local variables of the reader of request `i`, the lines that have arrived and, in `sent`, what the server
did and when, against which `TrueReport` compares what is printed.

| action | code |
|---|---|
| `StartRequest` | `t0 = time.perf_counter()` and `urlopen` |
| `ReadChunk`, `ReadDone`, `ReadEnd`, `Raise` | one turn of the loop over the lines, the `break` at `[DONE]`, the end of the loop, an exception in it |
| `Collect`, `CollectRaises` | the next result of `list(pool.map(...))`, in the order of the prompts |
| `Crash` | the end of the `with` statement, which waits for running requests, and of the program |
| `RoundOver`, `NextRound`, `AfterLast`, `StartOver` | `elapsed`, the table row, the next level or turn, the pause of `--continuous` |
| `SendChunk`, `SendDone`, `SendEnd`, `FallSilent` | the server; "garbled" is whatever makes the reader raise, a refused or lost connection included |
| `Interrupt` | ctrl-C, in a round or between two |

The loop over an event stream ends at `[DONE]` or with the last line; Ollama's goes on to the end of the response and finds
`t_done` unbound when no chunk said done. The rates that are printed follow from the times and counts and are not separate
state; rounding is left out. `elapsed` of a program without a pool is not printed.
The clock is coarse: it advances at any moment, or not at all, so that any number of events share a reading.

`ImplementsPlan` of `LoadSweep` maps a script to the same `LoadPlan`: the stages are its rounds, which repeat with `--continuous`;
`pool` is the requests of the round while the main thread is collecting, `busy` those that are being read. A round that is
abandoned closes early, and no other follows it.

### Playbook: correspondence with the code

`disk[n]` and `loaded[n]` are what is on the disk of a node and what is in effect on it: the
swap, the kernel modules, and what its daemons
read when they last started (`Boot` is what a start of the node makes of a disk). `swapoff -a` is skipped when the facts say
that there is no swap, and the facts are those of the beginning of the run. `control` is the key file on the control machine,
`play` the run in progress: its task, the hosts that still have it to do, the
failed hosts, the facts. Ansible's linear strategy is `NextTask` with `Does`:
all hosts that have not failed finish a task, in any order, before any begins the
next. A key is the number of the generation that made it, and `Foreign` the key of another cluster, which the
fetch of a run for that cluster leaves at the same path (`ServeAnotherCluster`). `Fail` is any task
failing on a host without effect. Two tasks fail by themselves: `MissKey` is the copy without a key file, `AddKnownNodes` the loop over
`/etc/hosts` when the facts of a node are missing, which writes the lines of the others first. All other loops are one
step. A reboot in the middle of a run is the host
failing and a `Reboot` afterwards. `Rebuild` and `Replace` are Terraform creating an instance
with a new disk, or with the disk resource it keeps, at another address. Images come with swap on,
the case the two tasks are there for, with an entry the regexp of the fstab task finds. `CheckDevices` is the task at the end whose command needs the modules.

## 3. The runs

### Passing

| run | question | result |
|---|---|---|
| `MCOperator` | one operator; specs edited, workloads and targets deleted and created anew, requests failing, restarts at any step, then quiet | `TypeOK`, `CopiesAgree`, `PollingNeverStops`, `StatusVouchesForSpec`, `NoSilentTransition`, `StatusSettles`, `CountSettles` hold (343 000 states) |
| `MCFaults` | the target scaled by others to counts in and outside two different pairs of bounds, deleted and created; requests failing, replies lost; restarts; readings at both ends of an int32 that change | `PollsOnce`, `MovesWithinBounds`, `ScalesFromStoredCount`, `UpdatesApproachRest` hold (1.8 million states) |
| `MCTwoOperators` | two operator processes, each with its own caches, on the same workload and Deployment, crashing at any step | `ImplementsScaler`, `RestIsSilent` hold (454 000 states, the two processes symmetric) |
| `MCTwoWorkloads` | two workloads share the worker, with separate targets or the same one; requests fail or lose their reply | `StatusSettles`, `CountSettles` hold (119 000 states) |
| `MCStub` | three clients, one of which may be the operator, set and read the metrics; values that do not parse, restarts | `TypeOK`, `SetThenRead`, `ImplementsGauges` hold (64 000 states, the clients symmetric) |
| `MCLoadTest` | the generator by itself, in both modes, with and without the injector, and as the child of a two-stage ramp; requests that break off, fail or hang, ctrl-C | `TypeOK`, `SteadyLoad`, `CompleteReport`, `EachResultOnce`, `WindsDown`, `ImplementsPool`, `ImplementsPlan`, `InterruptEndsRun`, `RampEnds` hold (121 000 states) |
| `MCSweep` | the measuring scripts, with two levels or two turns; responses that end anywhere, fail or fall silent, ctrl-C | `TypeOK`, `TrueReport`, `QuietBetween`, `NoFurtherRequest`, `ImplementsPlan`, `EndsUnlessSilent` hold (275 000 states) |
| `MCPlaybook` | three runs with failing hosts; reboots, new disks, new addresses, a control machine that is wiped or serves another cluster in between | `TypeOK`, `OneKey`, `OneConfiguration`, `SurvivesReboot`, `RunProvisions`, `RerunKeepsKey`, `RerunChangesNothing` hold (2 million states) |

The Deployment of `MCTwoOperators` starts at 0, so that the operators pass through
every count up to 3 and one of them may decide on a count the other has left two
steps ago. `RestIsSilent` is about one operator and one workload at a time: while the one still holds a stale copy, and may be rejected
and warn, the other must be silent already. Other clients' writes are in `MCFaults`, with one operator.
`SYMMETRY` is sound there and in `MCStub`: no definition tells the processes or the clients apart, and
nothing about liveness is checked.

`MCTwoWorkloads` asks of a different system what `MCOperator` asks of one workload: there the
hard part is the history, here the conflict of two chains of Reconciles over one
worker and one Deployment.

### Violations

Each of these runs checks one statement the repository makes and TLC finds a
behaviour of the code that breaks it.

| run | statement | what happens |
|---|---|---|
| `BadHung` | go-operator/README.md:35, several workloads work independently | the HTTP client has no timeout and there is one worker: an endpoint that accepts the call and never answers stops every workload |
| `BadWarnings` | go-operator/README.md:82, exactly one Warning per sustained failure | the gate reads the stored reason; with a reading above 100 percent the CRD schema refuses every status, the reason is never stored, and each tick warns again |
| `BadLoadReport` | help of `--continuous`, line 212: run until ctrl-C | after an injection and before the first finished session the report takes the median of an empty list |
| `BadReprovision` | playbook.yml:63, hostnames "consistent across reprovisioning" | lineinfile appends the new address below the old one, and the first line wins |

### Bounds, and why they are enough

* `Half = 256` replaces 2^31. The rule moves a count by one, so the only effects of the
  width are at its ends; the runs need thresholds up to 100 and readings above it to fit. That the results do
  not depend on the width is proved.
* One worker per process (`MaxConcurrentReconciles` is left at 1). Two operators
  and two workloads: every conflict in the code is between one reader-writer
  and one other writer. Every safety theorem holds for any number.
* The counts that others set, `{0, 4}` in `MCFaults` and `{0, 2}` or `{0, 2, 4}` elsewhere, lie below, inside and above the bounds
  `1..3` and `2..2`; the operator reaches the ones between them by its own steps. Readings 0 and 90 lie below and above the band of 25 to 80;
  `MetricsUnavailable`, a missing target and a reading above 100 are the three
  ways not to get a status. The comparison with the thresholds themselves
  (`>` and `<`) is covered by the theorem on the scaling rule.
* `MaxGeneration`: two generations suffice for a decision to be overtaken by an
  edit, and for a name to be created anew and then edited. It bounds edits only
  and does not enter any proof.
* A deleted name is used again only after every informer saw the deletion. An
  informer that misses the gap sees an update instead of a deletion and a creation;
  with equal generations on both sides the predicate would drop it. The workload is then still
  polled, because polling does not depend on the watch, but `KnownIsTracked`
  would have to be stated differently; this is a simplification.
* The endpoint of `MCFaults` reads as 0 or as one of the ends of the range; those of the other runs as 0, 90 or
  not at all. With `Half = 256`, 1000 percent is what more than an int32 is in the program.
* `MCStub`: three clients, so that a `/metrics` overlaps two calls of `/set`; a number
  other than the start value for each of the two.
* One and two sessions at a time, which are also the two stages of the ramp.
  `MaxSessions = 5`: every first session can be replaced, and one replacement again; at
  the bound a run in continuous mode can only be interrupted. The five responses are one of each
  kind `run_inference` tells apart. One injection at a
  time is what the thread does; one is enough for `all_results` to hold an
  injection and no chat result, and a second may come while the report is printed.
* `MCSweep`: levels 1 and 2, so that a result waits for an earlier one and a thread for another. `MaxChunks = 2`
  tells the first chunk from the first token. `MaxTime = 1`: each comparison of `TrueReport` is between two
  moments, and two readings of the clock suffice to have them in the wrong order. `MaxUnread = 1`: one line that has arrived and not been read is
  what delays a reader; the order of the lines of one response is that of the connection.
* Ctrl-C once, while the main thread is in the loop. A second one, or one during
  the report, ends the program as any Python program. During a ramp the user
  presses none: it would go to parent and child alike and end both. A child
  that is killed is gone at once; the code does not wait for that, so on a real machine the first
  moments of a stage may overlap with the last ones of a killed child.
* `MaxRuns = 3`, `MaxMoves = 2`: an establishing run, a failing one, a repairing
  one, with a change of address of each node. `MaxFailures = 2`: both nodes may fail in one run, or one in each of two.
  Two nodes are the inventory.
* `CHECK_DEADLOCK FALSE` where the program really stops: the load generator
  and the measuring scripts end, the playbook has no run after the last, and a worker with a silent
  endpoint (`BadHung`) has no further step.

### Fairness

`Reconciler.Fairness`: weak fairness of the worker's steps, of the informers and of each timer —
goroutines of a live process are scheduled, watches deliver, timers fire.
Strong fairness of taking a given workload off the queue: the work queue is
first in first out, so a workload that is queued again and again while the worker keeps
coming back is taken; with weak fairness alone another workload could be
preferred for ever, which the queue excludes. Nothing is assumed of disturbances: faults need not
stop and edits need not happen. The liveness properties are conditional on
`EventuallyUndisturbed` instead, and a silent endpoint is excluded from them by
`Observable`, since the code has no answer to it (`BadHung`).

`LoadTest.Fairness`: every thread that can go on does, and a request in flight is
answered, fails or hangs. Nothing makes the user press ctrl-C. `InterruptEndsRun` would
be false with requests that never end, and says so; `RampEnds` holds with them, because the
parent kills the child. `RampSpec` adds that the parent's timers expire.

`LoadSweep.Fairness`: threads go on, and a server ends its response or falls silent for good.
The clock need not advance. `EndsUnlessSilent` excludes the silent server, since `urlopen` has no timeout.

The playbook and the stub are checked for safety only: nothing makes anybody run a playbook to its end or a client call.

## 4. The proofs

All safety properties of the passing runs are proved, for every value of the constants that
meets the assumptions the modules declare. TLC evaluates the assumptions of all instances:

* `HalfAssumption`: `Half` is a positive natural number;
* `ConstantsAssumption`: the specs are ones the CRD schema accepts, readings are
  int32, names of workloads and Deployments are apart, and the sentinels `Absent`,
  `Unreachable` and `Hung` are none of the values they stand beside;
* `AbsentAssumption`: the absence of an object is not an object;
* `MetricsStubAssumption`: the start values are among the values, and the sentinels are not;
* `LoadTestAssumption`, `RampTestAssumption`: at least one session and one turn, numbers enough for the
  first sessions, at least one stage;
* `LoadSweepAssumption`: a program has rounds of at least one request, one of the two formats, and
  counts chunks of either kind;
* `PlaybookAssumption`: finitely many nodes, one of them the controller.

The bounds (`MaxGeneration`, `MaxSessions`, `MaxTime`, `MaxRuns` and so on) are constants
like the others: the theorems hold however large they are.

| theorem | statement | rests on |
|---|---|---|
| `TypeCorrect` | `Spec => []TypeOK` of `Reconciler` | `IInv` |
| `Agreement` | `Spec => []CopiesAgree` | `IInv` |
| `ScalesFromStored` | no decision is applied to a count it was not made from | `IInv`, `UpdateStep` |
| `Bounded` | an Update moves an in-bounds count by one, in the direction the reading asks for, and no count further out | `IInv`, `UpdateStep`, `DesiredWithinBounds` |
| `Vouching` | a status is stored only with the spec it was computed from | `IInv`, `StatusStep` |
| `Announcing` | no recorded reason changes without its event | `EInv` |
| `Polling` | no existing workload drops out of polling | `PInv` |
| `PollingOnce` | `Spec => []PollsOnce` | `OInv` |
| `RestsWhereNothingRemains` | the scaling rule leaves a count alone exactly where `Remaining` is 0 | |
| `Approaching` | every Update takes `Remaining` down: `UpdatesApproachRest` | `IInv`, `UpdateStep`, `DesiredIsCloser`, `RemainingIsNat` |
| `Resting` | an operator that knows a settled workload as it is polls it silently: `RestIsSilent` | `IInv`, `StoreRests`, `ReconcileRests`, `CachesFollow`, `RecordFollows` |
| `Refinement` | `Spec => ImplementsScaler` | `DInv` |
| `ReadingsFit` | whatever a server answers reads as an int32 or an error | `LastExists`, `PercentFits` |
| `LastLineCounts` | of a body without an error the last line of the usage counts | |
| `PercentIsCutOff` | a usage between 0 and 1 reads as one percentage, never above it and at most one below | |
| `PercentIsMonotone` | a usage that grows never reads as a smaller percentage, within an int32, whichever products fall short | `HundredthsAreInts` |
| `ErrorsExactly` | a response is an error exactly when the status is not 200 or a line of either metric does not parse | `LastExists`, `PercentFits` |
| `UsageDecides` | where a usage, read and put to the rule, moves the count, relative to the thresholds of the spec | `PercentIsCutOff` |
| `StubTypes` | `TypeOK` of `MetricsStub` | |
| `SetIsRead` | `SetThenRead` | `SInv` |
| `StubRefinement` | `ImplementsGauges` | `GInv` |
| `GeneratorTypes` | `TypeOK` of `LoadTest`, by itself and in a ramp | `TInv` |
| `LoadIsSteady` | `SteadyLoad` | `PInv` |
| `ResultsOnce` | `EachResultOnce` | `PInv` |
| `ReportsComplete` | `CompleteReport` | `CInv` |
| `WindingDown` | `WindsDown` | `TInv` |
| `GeneratorRefinement` | `ImplementsPool` | `JInv` |
| `RampRefinement` | `ImplementsPlan` of `RampTest` | `RInv` |
| `SweepTypes`, `ReportIsTrue`, `QuietInBetween` | `TypeOK`, `TrueReport`, `QuietBetween` of `LoadSweep` | `TInv /\ MInv` |
| `NothingFurther` | `NoFurtherRequest` | `TInv /\ MInv /\ UInv` |
| `SweepRefinement` | `ImplementsPlan` of `LoadSweep` | `TInv /\ MInv /\ SInv` |
| `PlaybookTypes`, `KeyIsShared`, `ConfigurationIsShared`, `RebootsAreSafe`, `KeyIsKept` | `TypeOK`, `OneKey`, `OneConfiguration`, `SurvivesReboot`, `RerunKeepsKey` of `Playbook` | `IInv` |
| `ClusterWorks` | `RunProvisions` of `Playbook` | `IInv /\ Listed`, the three before |
| `RerunsAreIdle` | `RerunChangesNothing` of `Playbook` | `IInv`, `WorkingTask` |

### The operator

`CopiesAgree` says that a copy at the stored version *is* the
stored object, for caches and for held copies. With the types it is inductive:
`IInv == TypeOK /\ CopiesAgree`. A write of `x` removes every copy of `x` from
`inSync`, so the agreement of the copies that stay is untouched; a read from a
cache adds a held copy only if the cache's copy is in sync. The invariant needs
the position of the Reconcile (`HeldDeployment` holds in the steps "update" and "status" only), because
`rec[o].current` is overwritten by the next Reconcile. `UpdateStep` and `StatusStep` then say which steps
change a Deployment or a status at all, and that the writer's copy was current
at that moment; the action properties follow.

`EInv` adds what a Reconcile has emitted by each of its steps, relative to the
reason in the copy it started from; since the status write needs that copy to be
current, this is the reason that is replaced. `PInv` adds that a workload the
informer knows is queued, delayed or in progress; it takes the record of the
Reconcile to name a workload in every step but "idle", and the
cases of the watch in which the predicate drops an update to have tracked the
workload before. `OInv` is about the other direction: while nobody edits or creates workloads every copy
carries the generation of the stored object (`Unedited`), status writes included, so the predicate lets nothing through
and a workload is only ever queued by its one timer. `DInv` adds what was observed and decided by each step. With it every
`Scale` (and every `ScaleFault` that was applied) is a `Rescale` of `Scaler`, every
`WriteStatus` a `Report` or a stutter, every disturbance of the API server the
action of the same name, and everything else stutters. The mapping is the
identity: `wl` and `deploy` are what users see.

Two theorems are the part of convergence that needs no fairness. `Remaining` is the distance from a count to the bound that the rule drives it to,
for one reading and one spec: `RestsWhereNothingRemains` says that its zeros are the fixed points (the largest int32 apart, from
which the rule wraps), `Approaching` that every Update that is applied takes it down, so on one reading it cannot go back and forth.
`Resting` says that the other end is closed, for each operator and workload: where the status is the truth and the count at rest
(`Settled`), and the operator's caches and its Reconcile of that workload have it as it is (`Informed`), the operator makes no write, no scaling
and no event of it until a step that is not its own (`MovedByOthers`) moves the workload, its metrics or its target. Its proof has two
halves. Its own Reconcile observes what it must come to again and would store the status that is there (`ReconcileRests`, `SameStatus`). Of any other
step, by this operator for another workload, by another operator that still works on older copies, a fault or a restart,
`CachesFollow` and `RecordFollows` say that the caches stay or follow the store, and that the Reconcile stays, ends without a write or
begins from what is there. What is not claimed: a Reconcile that began on older copies may end in a rejected Update and a Warning while all is at rest.
What remains for `CountSettles` and `StatusSettles` is that Reconciles go on happening, which is fairness.

`ReadingsFit` discharges, for every response, what `ConstantsAssumption` says of the readings. `PercentIsMonotone` is what lets thresholds be
compared with a percentage that was cut off: a higher usage is never the lower reading. `UsageDecides` puts the provider and the rule
together: what the cutting off costs is at most one percent at the upper threshold, and the single value of the lower one.

### The stub

`SInv` for `SetIsRead`: as long as `shown` shows something no `/set` is in progress and the dictionary is what is
shown, and a `/metrics` that began then has read only that (`SettledCall`); the next `/set` takes it back from both.
`GInv` for the refinement says what a call that has not read or asked yet holds (`Clean`). Under the mapping `StoreKv` is `Set`
of the one gauge and `ReadKv` its `Read`; a call whose value is missing or does not parse never asks that gauge; a `/set` that
fails at its second value has set the first gauge and drops out of the other. Each gauge has one lemma that turns a step of
one call into a step of the gauge, and one that says which call a step of the stub moves.

### The load generators

The theorems are about `Spec \/ RampSpec`, the generator by itself or as the child of a ramp. `Step` collects all that may
happen to the generator's variables in either: its own steps, ctrl-C or SIGINT (`Stop`), its death (`Killed`), and the start
of the next child. `TInv` is the types with the progress of each session. `PInv` says where each future is while the main
thread loops: every created session is waited for, or finished and waiting to be collected, or collected (`Placed`); what has not been
collected is in no result (`Uncollected`); and in continuous mode the sessions waited for, those to be collected and the one to be
created are as many as were asked for (`Loaded`), whichever of the four positions of the loop it is in. It is what the shrinking and
growing of the sets during the iteration could break. `CInv` adds that a session which left the sets has reported all its turns;
`JInv` that injections are numbered upwards and none has been reported before it is made. With it a collection is a `TurnOver` of `SessionPool`,
an injection an `Inject`, the end a `Close`, the next child `Anew`, and everything else a stutter.

`WindsDown` is `InterruptEndsRun` without its fairness: from the stop on every step takes down a measure of what is left to do (`SessionLeft`,
`InjectorLeft`, `MainLeft`), none of which any thread increases. So the run can take so many steps and no more; that it takes them is fairness.
`RInv` adds to `PInv` that no more requests are in flight than the child's concurrency (`Bounded`, a count over the sessions that the loop
waits for), and that the child is the one of its stage, with the stage's concurrency, and dead before the parent goes on (`Staged`). With it
`Popen` is an `Advance` of `LoadPlan`, and whatever parent and child do in between is `Work`.

### The measurements in rounds

`Sound` is about one request at a time: the tokens read and the countable lines not yet read are the tokens sent;
the lines that are waiting are in the order sent, no text behind the end; no time read is before the one it stands for; a first
token that was sent has been read, or is waiting. When a request is done, no text is waiting, so the sum says that all were counted,
and the times that were taken are late at most. `MInv` adds that the results are those of finished requests in
order, and that the round's time is read after the last. A sum over a sequence is the cardinality of a set of indices (`Count`), for which
the lemmas `CountAppend` and `CountTail` give a bijection: the prover has no induction over sequences.

`UInv` says that no request waits to be begun once the program is over or on its way there: those that waited when `pool.map` was left are
cancelled, and after the last round there are none. Requests that are running go on, which `GoesOn` shows not to begin them anew.

For the refinement of `LoadPlan` a round that begins must follow one that is over. `MInv` has it that all requests are done when the main thread prints;
`SInv`, that a run sleeps only after its last round and with `--continuous`. `NextRound` and `StartOver` are then the `Advance` of the
plan, and each other step is `Work` of the round that is open: it never has more requests than the round (`BusyBounded`), nor opens one that was closed.

### The playbook

`Past(n, i)` says that host `n` has not failed and has the `i`-th task behind it in this run. `Good(n)` says what the tasks a host is
past have left: facts are this run's or none (`Known`); swap, packages and modules, on the disk and in effect (`Prepared`);
the configuration on the disk has the current addresses and the daemons have loaded it (`Configured`); the key is the controller's,
unless the controller failed, and loaded (`Keyed`). `OwnTodo` says that the tasks of the controller alone are never on another host's list. What
an earlier run left is only looked at through the conditions of the tasks, so nothing has to be said of it, and in a
run without failures every host ends past every task: `OneKey`, `OneConfiguration` and `SurvivesReboot` follow.
`RerunKeepsKey` is about runs that fail, and needs `Source`: the key file on the control
machine may be another cluster's, or one the controller had before it was rebuilt, but in the latter case, if the controller has a
key at all, no other node has that one, so no shared key can be overwritten. The former is overwritten by the fetch, and the controller never
gets it itself (`Keyed`). So a shared key is lost in one way only, which the property excludes (`Misled`): node1 drops out before its fetch
has replaced the key of another cluster. Each task has a lemma on what it does to `Good` of its
host, and `OnOthers` says that it leaves the others alone.

`RunProvisions` also wants the addresses in force in the hosts files: `Listed` says that a host that is past that task has the lines of all nodes. Lines are only
ever appended, so this outlives the run. `RerunsAreIdle` is idempotence. What a task finds on a cluster that works (`Working`) is what it
would write: the lines are there (`LineIsThere`), the file it copies is the one there (`WritesTheSame`), the daemons it would restart have loaded
what is on the disk (`LoadsTheSame`). The one task that could differ, the copy of the key from the control machine, is bound by `Source`.

### Only model-checked

The liveness properties `StatusSettles`, `CountSettles`, `InterruptEndsRun`, `RampEnds` and
`EndsUnlessSilent`: liveness under fairness is beyond this prover. The violations are single behaviours and need no proof.

## 5. Remarks from the modelling

* At the largest int32 count the addition wraps to the smallest, which passes
  the comparison with `maxReplicas`; Kubernetes refuses the negative count, so
  the workload stays at `ScaleFailed`. The model has the wrap, and
  `MovesWithinBounds` holds because nothing is stored.
* `MovesWithinBounds` is stated for `min <= max`; nothing in the schema enforces
  it. With `min > max` the count goes to whichever bound the last branch names.
* With overlapping thresholds (`low > high`) a reading between them satisfies both conditions and
  the code scales up, because that branch comes first; the `CASE` has the same
  order.
* Two workloads with different bands on one Deployment need not have a common
  fixed point. `MCTwoWorkloads` gives them the same band.
* The generated RBAC role grants the operator nothing on Deployments; the model
  takes the requests of the operator to be authorised.
* In `Scaler`, counts may be set by others only under the switches that say so, which
  is what makes `ImplementsScaler` say something about counts: in
  `MCTwoOperators` nobody but the operators moves the count.
* Each branch of the rule compares with one bound only: from a count outside the
  bounds (0 with `minReplicas` 2, say) the operator steps back one at a time, by way of
  counts that are still outside, or stays where it is. `MovesWithinBounds` says what is true of it:
  no further out.
* The provider looks for `vllm_kv_cache_usage_perc`, the name the stub uses; a
  vLLM server says `vllm:kv_cache_usage_perc`. Pointed at one, the operator reads 0
  without an error and scales down.
* A usage between two percentages is cut off, so 0.809 is not above a threshold of 80.
* The results of sessions that are still at work when ctrl-C comes are not in the
  report: nobody collects their futures after the loop.
* After ctrl-C a session that pauses between turns, or has not begun, sends one more request, because the
  stop event is looked at after an answer only. The message then is "waiting for in-flight requests to finish" (line 271).
* `load_test_ollama.py` counts every chunk that is not the last as a token, with text or without;
  `measure_inference_ollama.py` counts those with text. The model has the difference (`counts`).
* A stream of Ollama that ends without a chunk that says done ends the program with an `UnboundLocalError`, where
  the event-stream scripts take the end of the response for the end of the answer.
* `/tmp/munge.key` is the same path for every cluster, and the copy to the nodes goes on when node1 has failed. If node1 fails before
  the fetch and the playbook ran for another cluster last, node2 is given the key of that one, which playbook.yml:84 does not mean
  to push. `RerunKeepsKey` and `RerunChangesNothing` exclude this case by name (`Misled`); without that premise TLC finds it in both.
* An entry of `/etc/fstab` right after a blank line is not found by the regexp of line 15 in the first run, since `[^#]` matches the
  line break; the second run finds it. The model has an entry that is found.
* One failed chat request raises in the main thread, and the whole run ends
  without a report. No document promises otherwise.

## 6. Not modelled

* The experiments' `patch_exp2a.sh` and `spot_check.sh`, `jobs.yml`, `nccl.yml` and the sbatch jobs: straight sequences of commands. No later step
  depends on what a failed earlier one left behind.
* Terraform configurations, Helm values, RBAC and CI manifests, dashboards: declarations that other programs carry out. What the
  modelled parts depend on (disks apart from instances, changing addresses, the operator's rights) is in their modules or in section 5.
* Leader election, webhooks, and the metrics and health servers of `cmd/main.go`: off by default, or controller-runtime's own.
  Two operators without an election are `MCTwoOperators`.
* The generated deep-copy code, and the `e2e` and unit tests.
* The figures in reports: percentiles, rates, rounding. `TrueReport` and `CompleteReport` are about the
  times and counts they are computed from.
* Benchmark results: data.

## 7. Plan

Every component with state of its own has a module, its properties and their proofs. What could be added:

1. Two generators against one server: the scripts are run side by side by hand, and nothing in the code
   coordinates them.
2. `Reconciler` over `MetricsStub` in one state space, in place of `load[w]`: `ImplementsGauges` makes the step unnecessary for the
   first value, the only one that is read.
3. A measure of what a measuring script that was given up still has to do, as `WindsDown` has one for the generator: it would have to
   bound the lines of the responses that are running, which are the server's to end.
