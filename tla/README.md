# TLA+ models of the Kubernetes plugin

The plugin lists the workloads of a Kubernetes cluster, collects their metrics from
Prometheus, asks an optimization server for right-sized requests, and computes which
nodes the cluster could do without, before and after right-sizing. It runs as a set of
jobs on a queue of five workers (`src/main.go`), while the user's terminal sends
re-evaluations at any time.

This directory holds TLA+ modules translated from the Go source, TLC configurations that
check them on small instances, and TLAPS proofs for all instances. `PROJECT.json` lists
the runs, the source lines behind every definition, the known hazards of the code with
the properties that cover them, the findings and the theorems.

## Running

    tlc -config MCScheduler.cfg MCScheduler        # and so on, see "Runs"
    tlapm SchedulerProofs.tla                      # and the other modules of "Proofs"

## Inventory

Paths are relative to `src/plugin`.

| Part | State | Operations | Interacts with | Modules |
|---|---|---|---|---|
| Scheduler, `processor/simulation/scheduling_simulation.go` | nodes with what is allocated on them, disruption budgets; the three headroom factors are package variables | `Add…` per workload kind, `CanRemoveNode` | used by the service; factors written by `all.ReEvaluate` | `SchedulingRules`, `Scheduler`, `SchedulerProofs` |
| SchedulerService, `processor/simulation/scheduling_service.go` | five concurrent maps of workloads, the node list | `Add…` (register), `Simulate` | workers register and simulate concurrently; one service for the current requests, one for the right-sized | `SchedulerService`, `NodeRemoval`, `SchedulerProofs` |
| All-workloads processor, `processor/all` | id → processor, summary per kind | constructor, publish callbacks, `ReEvaluate` | owns the five processors and both services | `AllProcessor`, `AllProcessorProofs` |
| Deployments, StatefulSets, DaemonSets, Jobs, Pods processors | map id → item, summary map, one lazy-load counter for all | job chain: list namespaces → list workloads → list pods → get metrics → optimize; `ReEvaluate`; or the report of the agent; `UpdateSummary`, export | job queue, Kubernetes API, Prometheus, optimization server, the services above | `WorkloadPipeline`, `WorkloadPipelineProofs`, `ItemLifecycle`, `ResourceReports`, `WorkloadPods` |
| Nodes processor, `processor/nodes` | map of nodes, a barrier | list nodes, get cost | every constructor waits for it | `NodesProcessor`, `NodesProcessorProofs` |
| Summaries, units and filters, `processor/shared` | none | aggregation over a map, conversions | all processors | `ResourceReports`, `PrometheusQueries`, `PluginProofs` |
| Prometheus client, `prometheus/api.go` | the scrape interval | the estimate, six getters cut into windows of a day | port forward | `PrometheusQueries`, `PortForward`, `PrometheusProofs` |
| Kubernetes client, `kubernetes/api.go` | none | listing, choice of replica sets, orphans | the cluster, which goes on meanwhile | `WorkloadPods`, `WorkloadPodsProofs`, `PortForward` |
| Port forward, `kubernetes/metric.go` | a mutex, a ready channel per attempt | discover, connect, reconnect | every query passes its mutex | `PortForward`, `PrometheusProofs` |
| Plugin service, `service.go` | the processor of the running command | `StartProcess`, `ReEvaluate` | all | `PluginStart`, `PluginProofs` |
| Agent and configuration clients | none | request and response | service, processors | their outcomes, in `PluginStart` and `WorkloadPipeline` |
| Generated protocol code | none | | | not modelled |

What is hard here: several workers change the same item and the same registry without a
common lock (read, slow remote call, write back the whole item); re-evaluations come at
any time, also for the package variables of a simulation that is running; jobs are
retried; errors are recorded and not read; a slice two owners share is sorted in place; a
barrier and a mutex that jobs of the same few workers wait on; a callback registered
after the work it is to follow has begun; a cluster that changes between two reads.

## The modules

### The node removal simulation

**`SchedulingRules`** — the pure part: requests of a pod, room on a node, taints, node
affinity, node selector, pod (anti-)affinity, the packing strategy. The cluster
(`NodeSpec`) and the pod templates (`PodSpec`) are constants; per node the model keeps
the record `[cpu, mem, pod, pods]` of `shared.KubernetesNode`. `SchedulePodWithStrategy`
yields the *set* of outcomes, because `sort.Slice` is not stable: nodes of equal
utilisation come in any order.

**`Scheduler`** — one `Scheduler` value and the calls on it. A call is a loop over pods
and each iteration is one step, with `call` and `pending` as its program counter and loop
variable. That is the granularity at which another goroutine can be observed: the only
shared state is the headroom, which `SetHeadroom` (the re-evaluation) writes between two
iterations. (The code reads a factor once per candidate node; a change between two
candidates of one pod is taken as before or after the iteration.) `CanRemoveNode` begins
a drain on the copy `temp`, `DrainPod` is one iteration (budget checked in the scheduler,
pod placed in the copy), and every early return is `Return`.

**`SchedulerService`** — `Simulate` and `simulate`. The recursion is tail-recursive but
for the concatenation of what was removed, so a level of it is a pass through the phases
`enter → collect → add → scan ⇄ verdict` with the accumulated `removed`. `Collect` is one
`Range` over one map (five per level); `Register` may happen at any moment between; the
placement steps are those of `Scheduler`. `err` is kept although the code never reads it
once it is set, because the properties speak of it.

**`NodeRemoval`** — what the simulation promises, without an algorithm: nodes leave one
at a time, never the last, and only when the pods the cluster carries *can* be arranged
on the others. `SchedulerService` implements it under the mapping `kept` = nodes not
removed, `load` = pods placed and counted at the current level.

### The processors

**`WorkloadPipeline`** — the five workload processors on the workers they share. `queue`
and `work` are the job queue, which belongs to the SDK and is external: a bag of jobs,
workers that take any of them, retries up to the job's `MaxRetry`. `work[w]` holds the
local variables of the job a worker runs: above all `item`, the copy read when the job
began. A job is `Take` (read the item) — the remote call, which ends in `Fail` or in the
job's own action (write the whole item back) — `Publish` — `Record` (the rest of
`UpdateSummary`, and the push of the job that follows). So another job of the item, or
one of the three steps of `ReEvaluate`, may come between any two. A listing goes through
`CountItem` and `StoreItem` for each workload, because the shared counter is incremented
and read in two calls; with nodes selected, the listing of pods passes over those that run
elsewhere before it counts them (`PassOver`). The kinds differ where their files do: pods have no listing of pods
and begin with the configured preferences, a Kubernetes job without completions panics in
its optimization, what counts as available is a field of each kind's status. With an agent
(`AgentEnabled`) one job per kind takes the items from its report instead. `Started` lists
the kinds a command may start. Of an item the model keeps the flags, the preferences,
its metrics, and of a result what it was computed from. Metrics are none, empty or points:
Prometheus may have nothing on the pods of an item, and the job then goes on with what the
item has (`Filled`). `exhausted` and `raced`
are history: the items that lost a job to failures, and those re-evaluated while a job of
theirs existed. The job queue does not drop equal jobs: nothing in `src/` says it does.

What the code does not promise, and the properties therefore do not claim: a
re-evaluation that overlaps a job of the item may be overwritten by that job,
preferences included, or may run two metrics jobs at once on the map the copies share.
`LastPreferencesWin`, `OneJobAtATime`, `PublishedWhenQuiet` and `ResultsUseMetrics`
exclude such items (`raced`); `SettledWhenQuiet`, `LifecycleEnds` and the part of
`LastPreferencesWin` called `ReadyFitsPreferences` do not, and hold for them too: an
overlap may take preferences back, but a recommendation is never shown beside
preferences it was not computed with. An item whose loading failed is no longer lazy and
has no metrics: asked for again it gets a recommendation from nothing, and
`ResultsUseMetrics` names that exception (`exhausted`).

**`ItemLifecycle`** — what the user is promised of the items on his screen, without jobs
or workers. `WorkloadPipeline` implements its safety part (`ImplementsLifecycle`) and its
fair part (`LifecycleEnds`): an item is lazy, loading, skipped or ready, and only a
request of the user takes it back.

**`AllProcessor`** — the processor over the five kinds: the constructor that makes one
after the other while their first jobs already run, the routing of re-evaluations through
`itemsToProcessor`, and the update of a summary in the steps in which it reads the items
of its kind, stores their sum, simulates, and publishes. How removable nodes are computed
is `SchedulerService`'s; here a table only remembers which workloads it was computed for.

**`NodesProcessor`** — the listing, the cost jobs and the barrier `nodesReady`; the queue
is a channel, first in first out, and its workers are also those that wait.

**`ResourceReports`** — what an answer of the optimization server becomes: the change shown
with the item, its summary, the totals, the table with the nodes and their cost, the
exported rows of the pods' processor, and the right-sized copy that is simulated. The five
kinds differ in how many replicas they stand for. That the answer repeats, as the current
quantities, those it was asked about is assumed of the external service.

### The clients and the start

**`WorkloadPods`** — which pods an item stands for. The cluster is external and goes on
between the reads: pods and replica sets come, run and go, a pod without an owner is adopted,
one that has an owner is released. A deployment is read in three
steps (the listing, its replica sets, its pods), the other kinds in one. Two variables are
history: `quiet`, the deployments of which nothing changed since they were listed, and
`steady`, the pods that run under the owner they had before the first read. What is promised
is promised of these: a pod that is adopted or released between two reads is counted twice
(see Disagreements). A time is a day.

**`PrometheusQueries`** — the estimate of the scrape interval from the number of samples of
probe metrics, a getter and its windows of a day, the merge, and the weighted average the
optimization jobs make of it. Prometheus is external: it scrapes containers while they live
and answers with the points of a range's own grid. Times are small integers that keep the
order of minute, hour and day. `sort.Slice` is an order of the places (`InOrder`); which of
two points of the same time comes first is not told apart, as they have the same value.

**`PortForward`** — discovery of the service; `reconnect`, which takes the mutex, dials in a
goroutine, waits for it and gives the mutex back; the deferred reconnection of a goroutine
that ends, however it ends; and the queries, which lock and unlock the mutex first.

**`PluginStart`** — `StartProcess` from the flags to `SetOnFinish`, the two commands for the
agent and the six that make processors, with the queue draining meanwhile and
re-evaluations after. The processors' jobs are reduced to their names. A call fails
(`CallFails`), or never returns (`CallHangs`, `InCall` says which): the forwarding of a
discovered service waits for a first dial that may have failed, and the requests to the agent,
to Prometheus and for the configuration have no deadline.

### Abstractions and assumptions

- Quantities are integers; the float64 rounding of the code at a boundary is not modelled;
  factors are percentages. Label selectors are sets of equalities. Reasons, log lines,
  column definitions and the formatting of rows are left out.
- Disruption budgets are never added by the plugin itself, only by clients of the type: they
  are explored in `scheduler` and absent from `service`. Slices of pods copied with a node
  share their backing array; every allocation begins with empty ones and an append never
  changes an element within the length of another copy, so copying by value is equivalent.
  Two simulations at the same time work on copies and share only the maps, which the model
  lets change at any moment anyway, so one is modelled.
- Of the SDK, which is not in `src/`: its queue calls the callback registered by then when a
  job ends and none is left; re-evaluations are handled one at a time, and after
  `StartProcess` returned; the client passes every flag the plugin registers, an empty one
  when the user gave none.
- In `WorkloadPods` the selector of a workload finds the pods it owns, and an owner's pods
  carry its UID, so that ownership stands for both.

## Runs

`pass` runs hold; the states are distinct states.

| Run | Question | Instance | States |
|---|---|---|---|
| `scheduler` | are placements sound after any sequence of calls, do drains keep pods and budgets? | 3 unequal nodes (one tainted), 4 templates (plain, anti-affine with node affinity, tolerating with an init container, affine with selector), one budget, up to 2 replicas a call | 138 645 |
| `service` | does the recursion account for all nodes and replicas, overcommit none while the headroom changes, implement `NodeRemoval`, and return? | 3 nodes, 4 workloads of which two are registered at a time, one of them again right-sized while the simulation runs, the CPU factor falling from 85 to 60 at any moment | 112 325 |
| `pipeline` | does every item end up with what the user asked for, through failures and overlaps? | 3 deployments in 2 namespaces, 2 workers, lazy loading after 1, 1 retry, 1 re-evaluation, answers of Prometheus with and without data | 464 729 |
| `pipeline_kinds` | the same items of the other kinds, or from the agent: who loads at once, does everything settle, and does loading end? | deployments, pods, jobs, or stateful and daemon sets together; direct and by report; filtered, undecodable, unavailable, elsewhere and panicking ones | 141 239 |
| `all_processor` | are items routed, sums and node tables mended, nil processors met only early? | 2 workers, items of two kinds, 3 updates, while the five processors are made | 1 386 643 |
| `nodes` | does everyone see the whole listing, and does nobody wait for ever? | 3 workers, 3 nodes (one unmanaged), 4 waiting jobs, 1 retry | 9 628 |
| `port_forward` | who passes the gate, how many connections are there, which service is it? | 3 queries, 5 connections, 2 failing dials, 4 clusters | 2 696 |
| `prometheus` | are periods covered, points doubled only at borders, and how far is the average off? | 2 pods of 2 containers, periods of 1 to 3 days, 2 scrape intervals, several lives and loads | 185 832 |
| `workload_pods` | are undisturbed reads complete, histories recent, and steady pods counted once, in the right place? | 2 pods and a deployment with 3 replica sets; 1 pod, a deployment with 2 replica sets, one owner of each other kind, a bare replica set, an unknown owner | 677 996 |
| `resource_reports` | do item, summary, table and rows tell the same story? | an item of each kind, 2 containers, 2 resources, 2 nodes with costs; answers in whole or in part, again and again | 4 086 |
| `plugin_start` | one source of metrics; results announced when complete; does a start end? | 8 commands, 5 sets of flags, 2 workers, 2 further jobs, 2 re-evaluations, every call returning, failing or never returning | 228 733 |
| `simulated_sizes` | do the simulated pods ask for what is recommended, as the table says? | two of the items above | violated |

*Bounds.* Every bound is a constant or a constraint named in an MC module.

- `MaxReplicas` bounds one call; the pods are bounded by the nodes' capacities. Three nodes
  are the least with which a removal leaves a choice, a second level has something to
  remove, and a tainted node competes with untainted ones; sizes and requests are chosen so
  that cpu, memory and pod count each bind somewhere and pods sometimes fit elsewhere only
  in part. No symmetry, since nodes differ. In `scheduler` the factors are fixed and
  `SetHeadroom` changes nothing; they change in `service`, between any two pods of a call,
  which is why `CapacityRespected` is checked in both; the theorems below are for
  any factors changing at any time. `SmallInstance` and `HeadroomFalls` limit `service` to
  two registered workloads and one change of one factor: levels that disagree need one
  workload replaced, a loop condition that changes under the loop needs one change.
- Two workers and two namespaces are the least that race on the counter and on an item; a
  third workload makes a listing go on after its first item while the chain of that item
  runs. `MaxRetry` is 1 instead of 5 in `pipeline` (one retry re-reads an item that changed
  meanwhile, and exhaustion is reached) and 0 in `pipeline_kinds`, where a job that fails
  is given up at once. `MaxReEvaluations` bounds the user.
- `MaxUpdates` of `all_processor`: two updates that overlap and a third that mends.
- More jobs wait (4) than there are workers (3) in `nodes`. `MaxRetry` there is 1.
- `MaxAttempts` and `MaxFailures` of `port_forward`: a failure can come first, between two
  connections, and twice in a row; a query can meet every attempt. The theorems are for
  all values.
- `workload_pods`: `SmallCluster` is one of two things. `OnlyDeployment` leaves every owner but
  the deployment out, and the reads of the others; the order of a history needs three replica
  sets, a rollout two pods. `OnlyOnePod` has all owners and one pod, all on one day, no failed
  read, and one of the other kinds read: where a pod is counted depends on no other pod and on
  no age, and what a read finds on no other read. Replica sets of one deployment and pods are
  symmetric.
- `resource_reports`: `OneAndAPod` lets one item beside the pod differ from the default or
  have an answer; sums over two items show what sums over more would.
- `MaxFollowers` of `plugin_start` bounds what jobs push; the queue can be empty between
  any two jobs.

*Deadlock.* `CHECK_DEADLOCK FALSE` where the modelled part rests when nobody asks for
anything more: no call on a scheduler, a simulation that returned, no job and no
re-evaluation left, the attempts used up, the reads done. `plugin_start`, `prometheus` and
`resource_reports` are checked for deadlock.

*Fairness.* Only of what the code runs by itself; never that a call succeeds or that the user
or a concurrent worker does something.

- `FairServiceSpec`: steps of a simulation that has been started; it runs on a worker
  goroutine, takes no lock and waits for nobody.
- `FairSpec` of `WorkloadPipeline`, `NodesProcessor` and `PluginStart`: each worker goes on
  (calls to Prometheus and to the optimization server have a timeout of a minute and end in
  `Fail`; those to the Kubernetes API have none of their own, so that one returns is an
  assumption), a re-evaluation or a start that was begun goes on. Of the calls of a start it
  is not assumed that they return: that one never does is a step of the model (`CallHangs`).
- `FairSpec` of `PortForward`: a dial becomes ready or fails, a holder of the mutex gives it
  back, and strong fairness of locking: Go's `sync.Mutex` hands itself to a waiter that
  has waited for a millisecond, so a waiter is not passed over for ever.

*Liveness that is qualified.* `QueriesPass` holds unless a dial failed before it was ready,
and `StartEnds` unless the queue was empty before the callback was registered, or the start
is held up by a call that never returns: a first dial that fails before it is ready leaves
`reconnect` waiting (`metric.go:223`, the same as under `ReconnectReturns`), and neither the
requests of the Prometheus client (`prometheus/api.go:155`, `:622`) nor those for the
configuration (`kaytu/request.go:57`) have a deadline. All are
exceptions the code has (see Disagreements, and the hazards at `service.go:882` and
`metric.go:223`).

*Mutants.* `PROJECT.json` lists for each property a deviation of one definition, marked
"Deviation" in the module beside what it deviates from, which breaks it.

## Proofs

A theorem `Spec => []P` holds for all values of the constants that the named assumptions
allow; a run shows P on its instance only. TLC evaluates the assumptions on every run.

| Module | Theorem | States | Inductive invariant |
|---|---|---|---|
| `SchedulerProofs` | `TypeCorrect`, `CapacityIsRespected`, `PlacementIsAdmissible`, `AntiAffinityIsRespected`, `PlacementIsAllowed`, `AccountingIsExact` | `TypeOK`; no node overcommitted; no pod where taints, affinity or selector refuse it, or beside one it excludes (`PlacementAllowed`); totals equal to the sums of the requests | `IInv` |
| | `DrainIsSound` | a drain conserves the pods in its copy and keeps the budgets | `IInv ∧ DrainInv` |
| | `FullestNodeIsFirst` | no node that accommodates the pod is fuller than the one it is put on | `IInv` |
| | `NodesArePartitioned` | in the removal simulation every node is in one place, and one stays | `ServiceInv` |
| | `ReplicasArePlacedOrReported` | `PlacedOrReported`: without a reported failure a level carries exactly the replicas it has read | `ServiceInv ∧ PlacedInv` |
| | `ServiceImplementsNodeRemoval` | `ImplementsNodeRemoval`: the recursion implements `NodeRemoval` | `ServiceInv ∧ PlacedInv ∧ LevelInv` |
| `WorkloadPipelineProofs` | `TypeCorrect`, `OneJob` | `TypeOK`, `OneJobAtATime` | `IInv` |
| | `Settling`, `PublishedInTheEnd`, `LastPreferencesCount`, `ReadyForItsPreferences` | `SettledWhenQuiet`, `PublishedWhenQuiet`, `LastPreferencesWin` with its part `ReadyFitsPreferences` | `IInv ∧ Items` |
| | `Refinement` | `ImplementsLifecycle`: the processors implement `ItemLifecycle` | `IInv ∧ Items ∧ Steadies` |
| | `EagerBounded`, `MetricsUsed` | `EagerAtMostLazyLoad`, `ResultsUseMetrics` | `Loading`, `MeasuredAll` |
| | `ReportsBreakOff` | `ReportIsPrefix` | `InOrder` |
| `AllProcessorProofs` | `TypeCorrect`, `ReEvaluationsAreRouted`, `AssignedIsSafe`, `Healing` | `TypeOK`, `ReEvaluationsReach`, `AssignedKindsAreSafe`, `SummariesHeal` | `Routed`, `HandedOut`, `Healthy ∧ Undisturbed` |
| `NodesProcessorProofs` | `TypeCorrect`, `ListingIsWhole`, `CostsAreKept` | `TypeOK`, `WholeListing`, `CostsAreNotLost` | `IInv`, `CostsCome` |
| `PrometheusProofs` | `TypeCorrect`, `GateIsConnected`, `OneConnectionAtATime`, `BestServiceIsForwarded` | `TypeOK`, `GateMeansConnected`, `OneConnection`, `TargetIsBestService` | `IInv` |
| | `SampledAlways`, `DuplicatesAlways` | `SampledThroughout`, `DuplicatesOnlyAtBorders` | `QueriesInv` |
| | `AverageIsBounded` | `AverageBounded` | `AlignedInv` |
| `PluginProofs` | `OneSourceOnly`, `AnnouncedInTime` | `OneSource`, `Announced` | `SourceInv`, `AnnounceInv` |
| | `TableIsRightAlways`, `ReportsAgreeAlways` | `TableAddsUp`, `ReportsAgree` | `ReportsInv` |
| `WorkloadPodsProofs` | `TypeCorrect`, `SteadyPodsAreCountedOnce`, `HistoriesAreRecent`, `QuietReadsAreRight` | `TypeOK`, `SteadyPodsCountedOnce`, `HistoryIsRecent`, `QuietReads` | `IInv` |

*The scheduler.* Assumed: finitely many nodes of positive size and requests that are natural
numbers (`NodeAssumption`, `TemplateAssumption`), integer factors and budgets
(`SchedulerAssumption`, `PdbAssumption`). None of the properties is inductive. `IInv` adds
that the factors in force are among the factors seen (otherwise a booking would be measured
against the wrong ones), and treats the two allocations alike: a drain starts as a copy of
the scheduler and the scheduler never takes the copy back, so soundness of both must be
carried along together. `ScheduleOutcome` says what the strategy can do (reorder, and book
one pod on one node on which it can be scheduled), `BookingSound` that such a booking
preserves soundness, and one lemma per action lifts this to a step. `DrainInv` says that the
order of the nodes names each once, and that what the copy holds and what is still to be
moved are together the pods of the cluster. `ServiceInv` says where the nodes are at each
phase of a level (`Parted`), how far the level is (`Progress`), and that the answer names
nothing twice; it assumes that the cluster's list names each node once (`ServiceAssumption`).
`NodesArePartitioned` has the hypothesis that there is a node: of an empty cluster none can
stay.

*The simulation.* The counters of a node start from zero at each level and its pods do not, so
that a node lists pods of earlier levels that nothing counts any more. The counted pods are the
last ones of the list (`Since`), and the proofs look at the cluster in which only these exist
(`View`); that no more pods are counted than listed is part of the invariant (`Counts`).
`LevelBalance` is the balance of a level as long as no call reported a failure: what has been
placed at it, what the running call still carries and what waits in the queue are together what
the level has read. It holds of the templates of deployments, stateful sets and bare pods
(`Plain`), whose calls report what does not fit; a job that does not fit is not reported, and a
daemon set goes where it can. `WorkloadAssumption` says that such a template belongs to no
workload of the other kinds, as a template stands for the pods of one object, and that a bare
pod is one pod. For the refinement, `LevelInv` adds that the view of the scheduler and of the
copy of a drain is sound, that the nodes of a level are those kept, that the copy of a drain
covers the load but for the pods still to be moved (`CopyCovers`), and that a drain that ended
well leaves an arrangement of the load on the other nodes (`Arranged`): the copy itself, without
the pods of earlier levels that were moved along. This witness is what `Remove` of `NodeRemoval`
asks for. The theorem has three hypotheses: there is a node, the headroom factors are finitely
many, and one is not negative (`all.go:234` divides a percentage by 100 and subtracts it from 1; the
default is 1). They make the largest factor the one by which the arrangement is judged.

*Sums.* `SumTheorems` shows what `MapThenSumSet` computes. The library's induction theorems
take an operator, which no prover here can instantiate; instead the module takes a minimal
subset for which the claim fails, a set like any other (`MinimalSubset`, `SubsetInduction`).
A sum can be split into parts (`TotalSplit`), taken group by group (`TotalFibres`), renamed
(`TotalReindex`), taken term by term (`TotalPlus`, `TotalMinus`) and compared by an injection
(`InjectedTotal`). The same argument gives the smallest of some numbers (`SmallestOf`), with which the
proofs reason about loops and recursive functions (`WithinIs`, `BestServiceIsForwarded`).

*The processors.* `WorkloadPipelineProofs` assumes that no workload is listed twice or under
two kinds (`IdsAreUnique`). `IInv` says that the work on an item that was not raced is in one
hand: a listing that has not reached it, one waiting job, one worker, or the re-evaluation,
and never two. This is what makes the copy a job writes back equal to the stored item, which
`Items` says (`Current`, `Visible`, `Preferred`) next to what holds in spite of races: an item
that is not settled has a job that goes on with it (`Settles`), and no version of it is
blank or ready with preferences that are not those of its result (`Solid`, `Shows`), on which
`ReadyForItsPreferences` rests. The refinement maps each action to a step of `ItemLifecycle` or a stutter;
`Steadies` adds what is about to be shown of an item the user has seen before. `Loading` says
that the counter is at least the number of eager items and of workers that have counted one
and not stored it, and that the eager items are no more than `LazyLoad`. `MetricsUsed` has the hypothesis that the items come
from listings (`AgentEnabled \subseteq {FALSE}`): the report of an agent brings results but
no metrics. `MeasuredAll` says why it holds: an item has no result as long as it is lazy or its
metrics are going to be fetched, a result was made of the metrics the item has, and one that
can be loaded and is neither has had its metrics fetched, if no job of it gave up. `ReportsBreakOff` has the opposite one, because only a report shows its entries in
order: `InOrder` adds that a worker that reads a report has left nothing behind that keeps an
entry from the user (`ReadsOn`, `Fine`). `AllProcessorProofs` needs for `SummariesHeal` that the summary of a kind no update
overlapped is the sum of its items, and how far an update that runs alone has mended the
others. `NodesProcessorProofs` carries one listing, the barrier closed as long as it waits or
runs, and that for each node the cost is there, is being asked for, or was refused.

*The clients and the start.* `PrometheusProofs`: a goroutine dials only while its call waits;
the mutex is held exactly by the call that waits or the query at the gate; and the attempts
form a chain, none begun after a live one. The gate follows from the first two, one connection
from the last, which needs that only the last attempt of the chain can start the next
(`AgainKeepsChain`).

The rest of `PrometheusProofs` is about what a getter merges. Assumed are the order of minute,
hour and day and that no period begins before time zero (`PrometheusAssumption`). `Probed` says
what the estimate can be: with an answered probe a step spans two scrapes (`StepIs`). `Asked`
says where the windows are: the next one begins at the begin of the period or at a multiple of a
day after it (`BorderIs`). `AllBounded` and `LivingWhole` are the properties themselves, for the
part of the period up to that border: a time is there twice only at a border already passed, and
a series that lives has a point in every step. A window keeps both (`BoundedJoins`,
`WholeJoins`), because its points are its grid's (`GridCovers`, `SamplesOfAlive`) and merging
adds the copies of every time (`InOrderIs`, `MergedIs`). For the average, times that are the
smallest distance apart, each with the stretch behind it, do not overlap (`ApartFit`), and in a
whole series they cover the period (`WholeFills`); there are no more points than times and
borders (`CountedPoints`). `Aligned` adds that with a step that divides a day all windows are on
one grid, and that the period is cut at both ends alike, so that it is not shorter than the one
the sum is divided by (`TruncateShift`).

`PluginProofs`: the source is decided once (`Sourced`); every first
job is queued, runs or ran (`Accounted`); the queue is empty before the callback only if it
was noticed (`Noticed`). For the reports, `ReportsInv` says that the stored template is still the
one that was listed, that an answer covers containers of its template, that the summary of an
item is the one its answer makes (`Summaries`), and what the table was computed from (`Tabled`);
that parts add up to what is shown then follows from `SumTheorems`. `ReportsAssumption` makes the
items, containers and nodes finitely many and the quantities and costs natural numbers.

`WorkloadPodsProofs`: a steady pod has run under one owner since before the first read, so
that every read finds it or passes over it by that owner (`Counted`): it is counted where the
owner says, and nowhere else; replica sets keep their day, so a
history stays one of the past (`Past`); and no step leaves a deployment quiet that touches
its replica sets or their pods (`Alone`), so that what was counted at the listing is what is
there (`Quiet`). That one replica set has as many pods as all together makes the two sets equal.
`WorkloadPodsAssumption` makes kinds disjoint and pods and replica sets finitely many.

*Only model-checked.* All liveness (`SimulationReturns`, `LifecycleEnds`, `ReadersProceed`,
`QueriesPass`, `StartEnds`): fairness and ENABLED are beyond the provers. Every invariant and
every refinement a passing run checks is also proved.

## Finding

`simulated_sizes`: the recommendation is written through `Requests.Cpu()`, which returns a
pointer to a copy of the quantity in the list (`deployments/deployment.go:177` and its
counterparts), so that the right-sized workloads are simulated without requests, and the
nodes reported as removable "after implementing Optimization" are too many.

## Disagreements

Other places where a comment, a test or a message of the repository says what the code does
not do. Each is stated as a property, marked "TLC refutes it" in its module; added to the
configuration named here, in place of its properties, it is violated.

| Property | Configuration | The code |
|---|---|---|
| `TolerationValueRespected` | `MCScheduler.cfg` | `scheduling_simulation.go:326` never compares taint values; the test that claims it (`scheduling_simulation_test.go:1127`) passes only because its node accepts no pod at all |
| `AntiAffinityCoversTopology` | `MCSchedulerService.cfg` | `scheduling_simulation.go:261` looks at the pods of the candidate node only, and compares the topology key with the candidate itself |
| `JobPlacedOrReported` | `MCSchedulerService.cfg` | `scheduling_simulation.go:77`: `AddJob` reports success for a job that fits nowhere |
| `FailureStopsRemoval` | `MCSchedulerService.cfg` | `scheduling_service.go:194`: every error of the placement phase is ignored and nodes are removed from a cluster on which the workloads do not fit |
| `EmptyNodeRemovable` | `MCSchedulerService.cfg` | `scheduling_service.go:223`: the pods of the level before stay on the nodes of the next one, an empty node is drained of pods that are elsewhere |
| `ReconnectReturns` | `MCPortForward.cfg` | `metric.go:223`: a dial that fails before it is ready leaves the mutex locked for ever, and every query behind it |
| `LastBeforeCutIncluded` | `MCWorkloadPods.cfg` | `api.go:214`: the last replica set before the observed period is never added, the branch asks inside the loop that there is nothing to loop over |
| `LastHistoricalAdded` | `MCWorkloadPods.cfg` | `api.go:221`: with none within the period the oldest one is added, not the last one |
| `PodsCountedOnce` | `MCWorkloadPods.cfg` | `api.go:105`, `:232`: owners and orphans are read at different times, so a pod that is listed without an owner and then adopted, or released after its owner's pods were read, is counted twice |
| `OrphansAreUnmanaged` | `MCWorkloadPods.cfg` | `api.go:105`: pods of a replica set without a deployment belong to no item and are no orphans |
| `OAuthIsUsed` | `MCPluginStart.cfg` | `prometheus/config.go:53`: an empty user name is a user name, OAuth2 is never reached |
| `StatusFailureIsReported` | `MCPluginStart.cfg` | `service.go:551`: after the error of a status request is sent, the response that is not there is read |

## Not modelled

Generated protocol code; column definitions, device rows and the formatting of values; the
identification of the cluster; the requests of the agent and configuration clients (single
calls without state, whose outcomes are chosen where they are used);
`kaytu/kubernetes_pod.go`, `AddPodDisruptionBudget` of the service and
`GetNodeUtilization`, which nothing calls.

## What is left

The liveness properties stay with TLC for good. Proofs about `ResourceReports` stop at what the
model abstracts: the rows of a device and the float64 rounding of the code. The disagreements
above are properties of the code as it should be; once one is mended, its property can join the
run of its configuration, and the theorems of its module name the invariants to start from.
