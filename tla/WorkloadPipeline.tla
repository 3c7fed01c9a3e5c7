---------------------------- MODULE WorkloadPipeline ----------------------------
(***************************************************************************)
(* The processors of the five kinds of workloads (plugin/processor/        *)
(* deployments, statefulsets, daemonsets, jobs, pods): for each kind a map *)
(* of items that jobs fill in on several workers they share.               *)
(*                                                                         *)
(*   namespaces -> list -> pods -> metrics -> optimize                     *)
(*                                                                         *)
(* Pods have no step "pods"; with an agent in the cluster one job fills    *)
(* the map from the report of the agent in place of this chain.            *)
(*                                                                         *)
(* A job reads an item, makes a remote call that may take long or fail,    *)
(* and writes the WHOLE item back; nothing is locked in between.  The user *)
(* may ask for a re-evaluation of an item at any time.                     *)
(***************************************************************************)
EXTENDS Integers, Sequences, FiniteSets, Functions

CONSTANTS
  Worker,              \* the workers of the job queue
  Kind,                \* the kinds of workloads that are processed
  Namespace,           \* the namespaces of the cluster
  Listing,             \* kind -> namespace -> the sequence of the workloads listed in it
  Report,              \* kind -> the sequence of the workloads the agent reports
  Status,              \* workload -> what its status and its spec say
  Elsewhere,           \* workloads with no pod on the nodes the user selected
  Filtered,            \* reported workloads the namespace or the selector rules out
  Malformed,           \* reported workloads that cannot be decoded
  Owned,               \* pods with an owner of one of the other kinds
  ModeOrphan,          \* of pods only those nothing else accounts for are wanted
  AgentEnabled,        \* what kaytuClient.IsEnabled() may be
  Started,             \* for which kinds a command may make processors
  Preference,          \* what the preferences of an item may be
  DefaultPreferences,  \* DefaultKubernetesPreferences
  UserPreferences,     \* the default preferences of the configuration
  LazyLoad,            \* configuration.KubernetesLazyLoad
  MaxRetry,            \* retries of a metrics or optimize job (5 in the code)
  MaxReEvaluations     \* bound on the re-evaluations the user asks for

Id == UNION {Range(Listing[k][ns]) : k \in Kind, ns \in Namespace}
KindOf(i) == CHOOSE k \in Kind : \E ns \in Namespace : i \in Range(Listing[k][ns])

ASSUME PipelineAssumption ==
  /\ Kind \subseteq {"deployment", "statefulset", "daemonset", "job", "pod"} /\ Kind # {}
  /\ \A k \in Kind : Report[k] \in Seq(Id) /\ \A ns \in Namespace : Listing[k][ns] \in Seq(Id)
  /\ {DefaultPreferences, UserPreferences} \subseteq Preference
  /\ ModeOrphan \in BOOLEAN /\ AgentEnabled \subseteq BOOLEAN /\ Started \subseteq SUBSET Kind
  /\ LazyLoad \in Nat /\ MaxRetry \in Nat /\ MaxReEvaluations \in Nat

\* An id is made of kind, namespace and name: no two entries of the listings share one,
\* nor do two of the reports, and what is reported of a kind is of this kind.
ASSUME IdsAreUnique ==
  /\ \A k, l \in Kind, ns, ms \in Namespace :
       \A a \in DOMAIN Listing[k][ns], b \in DOMAIN Listing[l][ms] :
         Listing[k][ns][a] = Listing[l][ms][b] => k = l /\ ns = ms /\ a = b
  /\ \A k, l \in Kind : \A a \in DOMAIN Report[k], b \in DOMAIN Report[l] :
       Report[k][a] = Report[l][b] => k = l /\ a = b
  /\ \A k \in Kind : \A i \in Range(Report[k]) : KindOf(i) = k
  /\ Id \cap Namespace = {} /\ "cluster" \notin Id

VARIABLES
  items,      \* m.items; an id that is not stored has the zero item
  counter,    \* lazyloadCounter
  published,  \* the last version of each item sent to the user
  summary,    \* m.summary: the result last recorded for each item
  queue,      \* job -> how many of it wait on the job queue
  work,       \* worker -> the job it runs, and the job's local variables
  reeval,     \* the re-evaluation in progress, and its local variables
  asked,      \* how many re-evaluations there were
  prefs,      \* history: the preferences last asked for
  exhausted,  \* history: items a job of which gave up
  raced       \* history: items re-evaluated while a job of theirs existed

vars == <<items, counter, published, summary, queue, work, reeval, asked, prefs, exhausted, raced>>

--------------------------------------------------------------------------------

\* Metrics and ObservabilityDuration: not asked for, nothing there, or points.
Measure == {"none", "empty", "points"}

\* Of an optimization response, what it was computed from.
Result   == [ready : BOOLEAN, prefs : Preference, metrics : Measure]
NoResult == [ready |-> FALSE, prefs |-> DefaultPreferences, metrics |-> "none"]

Item == [listed : BOOLEAN, loading : BOOLEAN, lazy : BOOLEAN, skipped : BOOLEAN,
         prefs : Preference, metrics : Measure, result : Result]
NoItem == [listed |-> FALSE, loading |-> FALSE, lazy |-> FALSE, skipped |-> FALSE,
           prefs |-> DefaultPreferences, metrics |-> "none", result |-> NoResult]

\* The preferences a new item begins with: only the pods take the configured ones.
Preferences(kind) == IF kind = "pod" THEN UserPreferences ELSE DefaultPreferences

\* Retries as in the Properties() of the jobs.
Retries(step) == IF step \in {"metrics", "optimize"} THEN MaxRetry ELSE 0

Job == [step : {"namespaces", "report"}, kind : Kind, of : {"cluster"}, tries : {0}]
         \cup [step : {"list"}, kind : Kind, of : Namespace, tries : {0}]
         \cup UNION {[step : {"pods", "metrics", "optimize"}, kind : {KindOf(i)}, of : {i},
                      tries : 0..MaxRetry] : i \in Id}
NewJob(step, kind, of) == [step |-> step, kind |-> kind, of |-> of, tries |-> 0]
ItemJob(step, i) == NewJob(step, KindOf(i), i)

\* What NewProcessor of a kind pushes.
NewProcessor(kind, agent) == NewJob(IF agent THEN "report" ELSE "namespaces", kind, "cluster")

Pushed(jobs) == [j \in Job |-> IF j \in jobs THEN queue[j] + 1 ELSE queue[j]]

Free == [stage |-> "free", job |-> NewJob("namespaces", CHOOSE k \in Kind : TRUE, "cluster"), item |-> NoItem, rest |-> <<>>, latest |-> NoResult]
NoReEval == [stage |-> "none", id |-> "none", item |-> NoItem]

Init ==
  /\ items = [i \in Id |-> NoItem] /\ published = [i \in Id |-> NoItem]
  /\ counter = 0
  /\ summary = [i \in Id |-> NoResult]
  /\ work = [w \in Worker |-> Free]
  /\ reeval = NoReEval /\ asked = 0 /\ exhausted = {} /\ raced = {}
  /\ \E kinds \in Started, agent \in AgentEnabled :
       /\ queue = [j \in Job |-> IF \E k \in kinds : j = NewProcessor(k, agent) THEN 1 ELSE 0]
       /\ prefs = [i \in Id |-> IF agent THEN DefaultPreferences ELSE Preferences(KindOf(i))]

--------------------------------------------------------------------------------
(* The worker's part of every job.                                           *)

Running(w, step) == work[w].stage = "call" /\ work[w].job.step = step

\* A listing and a report go through many items.
Lists(w) == work[w].job.step \in {"list", "report"}

\* The item a worker is at: that of its job, or the one its listing has reached.
IdOf(w) == IF Lists(w) THEN Head(work[w].rest) ELSE work[w].job.of

\* A worker takes a job; the job begins with reading its item.
Take(w) ==
  /\ work[w].stage = "free"
  /\ \E j \in Job :
       /\ queue[j] > 0
       /\ queue' = [queue EXCEPT ![j] = @ - 1]
       /\ work' = [work EXCEPT ![w] = [Free EXCEPT !.stage = "call", !.job = j,
                                         !.item = IF j.of \in Id THEN items[j.of] ELSE NoItem]]
  /\ UNCHANGED <<items, counter, published, summary, reeval, asked, prefs, exhausted, raced>>

\* The remote call fails: the job is run again or given up.
Fail(w) ==
  LET j == work[w].job
      local == work[w].item.lazy /\ j.step = "optimize"
  IN  /\ work[w].stage = "call" /\ ~local
      /\ work' = [work EXCEPT ![w] = Free]
      /\ IF j.tries < Retries(j.step)
         THEN queue' = Pushed({[j EXCEPT !.tries = @ + 1]}) /\ UNCHANGED exhausted
         ELSE exhausted' = exhausted \cup ({j.of} \cap Id) /\ UNCHANGED queue
      /\ UNCHANGED <<items, counter, published, summary, reeval, asked, prefs, raced>>

\* Deviation: the item is published as it was read.
StoreOnly(w, item) ==
  /\ items' = [items EXCEPT ![IdOf(w)] = item]
  /\ work' = [work EXCEPT ![w].stage = "publish"]

\* The item is written back, to be published next.
Store(w, item) ==
  /\ items' = [items EXCEPT ![IdOf(w)] = item]
  /\ work' = [work EXCEPT ![w].stage = "publish", ![w].item = item]

--------------------------------------------------------------------------------
(* The jobs.                                                                 *)

\* Worker w is at the given step of an item of this kind.
At(w, step, kind) == Running(w, step) /\ work[w].job.kind = kind

ListAllNamespaces(w) ==
  /\ Running(w, "namespaces")
  /\ queue' = Pushed({NewJob("list", work[w].job.kind, ns) : ns \in Namespace \ {"kube-system"}})
  /\ work' = [work EXCEPT ![w] = Free]
  /\ UNCHANGED <<items, counter, published, summary, reeval, asked, prefs, exhausted, raced>>

\* Of the pods those on other nodes are not wanted, nor, in mode orphan, those with an owner.
Wanted(i) == i \notin Elsewhere /\ (ModeOrphan => i \notin Owned)

\* The listing arrives; its loop goes on with CountItem.
ListWorkloads(w) ==
  /\ Running(w, "list")
  /\ LET list == Listing[work[w].job.kind][work[w].job.of]
     IN  work' = [work EXCEPT ![w] = IF list = <<>> THEN Free
                                     ELSE [@ EXCEPT !.stage = "count", !.rest = list]]
  /\ UNCHANGED <<items, counter, published, summary, queue, reeval, asked, prefs, exhausted, raced>>

\* A listing goes on with its next item, any other job is done.
NextTask(w) ==
  IF Lists(w) /\ Tail(work[w].rest) # <<>>
  THEN [work[w] EXCEPT !.stage = IF work[w].job.step = "list" THEN "count" ELSE "report",
                       !.rest = Tail(@)]
  ELSE Free

\* With nodes selected, the listing of the pods goes on with the next pod before it has
\* counted one that runs elsewhere.
PassedOver(w) == work[w].job.kind = "pod" /\ ~Wanted(IdOf(w))

PassOver(w) ==
  /\ work[w].stage = "count" /\ PassedOver(w)
  /\ work' = [work EXCEPT ![w] = NextTask(w)]
  /\ UNCHANGED <<items, counter, published, summary, queue, reeval, asked, prefs, exhausted, raced>>

\* lazyloadCounter.Add(1)
CountItem(w) ==
  /\ work[w].stage = "count" /\ ~PassedOver(w)
  /\ counter' = counter + 1
  /\ work' = [work EXCEPT ![w].stage = "store"]
  /\ UNCHANGED <<items, published, summary, queue, reeval, asked, prefs, exhausted, raced>>

\* Deviation: the counter is compared with one item of slack.
StoreItemLate(w, kind, unavailable) ==
  /\ work[w].stage = "store" /\ work[w].job.kind = kind
  /\ LET lazy == counter > LazyLoad + 1
     IN  Store(w, [NoItem EXCEPT !.listed = TRUE, !.loading = ~lazy, !.lazy = lazy,
                                 !.prefs = Preferences(kind), !.skipped = unavailable])
  /\ UNCHANGED <<counter, published, summary, queue, reeval, asked, prefs, exhausted, raced>>

\* lazyloadCounter.Load(), and the new item is stored.
StoreItem(w, kind, unavailable) ==
  /\ work[w].stage = "store" /\ work[w].job.kind = kind
  /\ LET lazy == counter > LazyLoad
     IN  Store(w, [NoItem EXCEPT !.listed = TRUE, !.loading = ~lazy, !.lazy = lazy,
                                 !.prefs = Preferences(kind), !.skipped = unavailable])
  /\ UNCHANGED <<counter, published, summary, queue, reeval, asked, prefs, exhausted, raced>>

\* Why a workload is skipped.
NoReplicas(status)   == status.availableReplicas = 0
NotScheduled(status) == status.currentNumberScheduled = 0
NeverRan(status)     == status.active + status.succeeded + status.failed = 0
NotRunning(status)   == status.phase # "Running"

ListDeployment(w)  == StoreItem(w, "deployment", NoReplicas(Status[IdOf(w)]))
ListStatefulset(w) == StoreItem(w, "statefulset", NoReplicas(Status[IdOf(w)]))
ListDaemonset(w)   == StoreItem(w, "daemonset", NotScheduled(Status[IdOf(w)]))
ListJob(w)         == StoreItem(w, "job", NeverRan(Status[IdOf(w)]))
ListPod(w)         == StoreItem(w, "pod", NotRunning(Status[IdOf(w)]))

\* Deviation: the workload that runs on other nodes is not marked as skipped.
ListPodsUnmarked(w, kind) ==
  /\ At(w, "pods", kind)
  /\ Store(w, [work[w].item EXCEPT !.lazy = FALSE])
  /\ UNCHANGED <<counter, published, summary, queue, reeval, asked, prefs, exhausted, raced>>

ListPods(w, kind) ==
  /\ At(w, "pods", kind)
  /\ Store(w, [work[w].item EXCEPT !.lazy = FALSE, !.skipped = @ \/ IdOf(w) \in Elsewhere])
  /\ UNCHANGED <<counter, published, summary, queue, reeval, asked, prefs, exhausted, raced>>

ListPodsForDeployment(w)  == ListPods(w, "deployment")
ListPodsForStatefulset(w) == ListPods(w, "statefulset")
ListPodsForDaemonset(w)   == ListPods(w, "daemonset")
ListPodsForJob(w)         == ListPods(w, "job")

\* A reply adds what it has to the item; of the pods only the first one counts.
Filled(kind, had, reply) ==
  IF had = "points" \/ (kind = "pod" /\ had = "empty") THEN had ELSE reply

\* Prometheus may have nothing on the pods: the job goes on with what the item has.
GetMetrics(w, kind) ==
  /\ At(w, "metrics", kind)
  /\ \E reply \in {"empty", "points"} :
       Store(w, [work[w].item EXCEPT !.metrics = Filled(kind, @, reply), !.lazy = FALSE])
  /\ UNCHANGED <<counter, published, summary, queue, reeval, asked, prefs, exhausted, raced>>

GetDeploymentPodMetrics(w)  == GetMetrics(w, "deployment")
GetStatefulsetPodMetrics(w) == GetMetrics(w, "statefulset")
GetDaemonsetPodMetrics(w)   == GetMetrics(w, "daemonset")
GetJobPodMetrics(w)         == GetMetrics(w, "job")
GetPodMetrics(w)            == GetMetrics(w, "pod")

\* The step the loading of an item begins with.
FirstStep(kind) == IF kind = "pod" THEN "metrics" ELSE "pods"

\* An item that is not loaded yet starts there, without a remote call.
OptimizeLazy(w) ==
  /\ Running(w, "optimize") /\ work[w].item.lazy
  /\ queue' = Pushed({ItemJob(FirstStep(work[w].job.kind), work[w].job.of)})
  /\ work' = [work EXCEPT ![w] = Free]
  /\ UNCHANGED <<items, counter, published, summary, reeval, asked, prefs, exhausted, raced>>

\* Deviation: a change of the preferences since the job began is kept.
OptimizeMerged(w, kind) ==
  /\ At(w, "optimize", kind) /\ ~work[w].item.lazy
  /\ LET item == work[w].item
     IN  Store(w, [item EXCEPT !.loading = FALSE, !.skipped = FALSE, !.prefs = items[IdOf(w)].prefs,
                     !.result = [ready |-> TRUE, prefs |-> item.prefs, metrics |-> item.metrics]])
  /\ UNCHANGED <<counter, published, summary, queue, reeval, asked, prefs, exhausted, raced>>

\* The server answers; the costs are computed from the metrics the item has.
Optimize(w, kind) ==
  /\ At(w, "optimize", kind) /\ ~work[w].item.lazy
  /\ LET item == work[w].item
     IN  Store(w, [item EXCEPT !.loading = FALSE, !.skipped = FALSE,
                     !.result = [ready |-> TRUE, prefs |-> item.prefs, metrics |-> item.metrics]])
  /\ UNCHANGED <<counter, published, summary, queue, reeval, asked, prefs, exhausted, raced>>

OptimizeDeployment(w)  == Optimize(w, "deployment")
OptimizeStatefulset(w) == Optimize(w, "statefulset")
OptimizeDaemonset(w)   == Optimize(w, "daemonset")
OptimizeJob(w)         == /\ At(w, "optimize", "job") /\ Status[IdOf(w)].completions # <<>>
                          /\ Optimize(w, "job")
OptimizePod(w)         == Optimize(w, "pod")

\* The request dereferences the completions, which a work queue does not have.
OptimizeJobPanics(w) ==
  /\ At(w, "optimize", "job") /\ ~work[w].item.lazy /\ Status[IdOf(w)].completions = <<>>
  /\ work' = [work EXCEPT ![w] = Free]
  /\ exhausted' = exhausted \cup {IdOf(w)}
  /\ UNCHANGED <<items, counter, published, summary, queue, reeval, asked, prefs, raced>>

--------------------------------------------------------------------------------
(* The report of the agent.                                                  *)

Unavailable(i) ==
  LET kind == KindOf(i)
  IN  CASE kind \in {"deployment", "statefulset"} -> NoReplicas(Status[i])
        [] kind = "daemonset"                     -> NotScheduled(Status[i])
        [] kind = "job"                           -> NeverRan(Status[i])
        [] kind = "pod"                           -> NotRunning(Status[i])

\* An item as the agent left it; the metrics are not written into the report.
ReportedItem(i) ==
  [NoItem EXCEPT !.listed = TRUE, !.loading = Unavailable(i), !.skipped = Unavailable(i),
     !.result = IF Unavailable(i) THEN NoResult
                ELSE [ready |-> TRUE, prefs |-> DefaultPreferences, metrics |-> "points"]]

DownloadReport(w) ==
  /\ Running(w, "report")
  /\ LET list == Report[work[w].job.kind]
     IN  work' = [work EXCEPT ![w] = IF list = <<>> THEN Free
                                     ELSE [@ EXCEPT !.stage = "report", !.rest = list]]
  /\ UNCHANGED <<items, counter, published, summary, queue, reeval, asked, prefs, exhausted, raced>>

\* Deviation: an entry that cannot be decoded is passed over.
StoreReportedResuming(w, kind, wanted) ==
  /\ work[w].stage = "report" /\ work[w].job.kind = kind
  /\ IF IdOf(w) \notin Malformed /\ wanted
     THEN Store(w, ReportedItem(IdOf(w)))
     ELSE work' = [work EXCEPT ![w] = NextTask(w)] /\ UNCHANGED items
  /\ UNCHANGED <<counter, published, summary, queue, reeval, asked, prefs, exhausted, raced>>

\* The next entry: one that cannot be decoded ends the job, one that is filtered out is
\* passed over.
StoreReported(w, kind, wanted) ==
  /\ work[w].stage = "report" /\ work[w].job.kind = kind
  /\ CASE IdOf(w) \in Malformed -> work' = [work EXCEPT ![w] = Free] /\ UNCHANGED items
       [] IdOf(w) \notin Malformed /\ ~wanted -> work' = [work EXCEPT ![w] = NextTask(w)] /\ UNCHANGED items
       [] OTHER -> Store(w, ReportedItem(IdOf(w)))
  /\ UNCHANGED <<counter, published, summary, queue, reeval, asked, prefs, exhausted, raced>>

Selected(i) == i \notin Filtered /\ i \notin Elsewhere

ReportDeployment(w)  == StoreReported(w, "deployment", Selected(IdOf(w)))
ReportStatefulset(w) == StoreReported(w, "statefulset", Selected(IdOf(w)))
ReportDaemonset(w)   == StoreReported(w, "daemonset", Selected(IdOf(w)))
ReportJob(w)         == StoreReported(w, "job", Selected(IdOf(w)))
ReportPod(w)         == StoreReported(w, "pod", Selected(IdOf(w)) /\ Wanted(IdOf(w)))

--------------------------------------------------------------------------------
(* What all jobs end with.                                                   *)

\* Deviation: the optimization is pushed along with the metrics it needs.
FollowerParallel(w) ==
  LET jobs(steps) == {ItemJob(step, IdOf(w)) : step \in steps}
  IN  CASE work[w].job.step = "list" /\ work[w].item.loading -> jobs({"pods"})
        [] work[w].job.step = "pods"                         -> jobs({"metrics", "optimize"})
        [] OTHER                                             -> {}

\* Deviation: the optimization follows the pods at once.
FollowerSansMetrics(w) ==
  LET item == work[w].item
      push(step) == {ItemJob(step, IdOf(w))}
  IN  CASE work[w].job.step = "list" /\ item.loading /\ ~item.skipped      -> push(FirstStep(work[w].job.kind))
        [] work[w].job.step = "pods" /\ ~item.skipped                      -> push("optimize")
        [] work[w].job.step = "metrics" /\ ~item.skipped                   -> push("optimize")
        [] OTHER                                                           -> {}

\* The job that follows, decided on the local copy of the item.
Follower(w) ==
  LET item == work[w].item
      push(step) == {ItemJob(step, IdOf(w))}
  IN  CASE work[w].job.step = "list" /\ item.loading /\ ~item.skipped      -> push(FirstStep(work[w].job.kind))
        [] work[w].job.step = "pods" /\ IdOf(w) \notin Elsewhere           -> push("metrics")
        [] work[w].job.step = "metrics" /\ ~item.skipped                   -> push("optimize")
        [] OTHER                                                           -> {}

\* The item is published.  All jobs but the one that lists pods call UpdateSummary,
\* which begins with reading the item again.
Publish(w) ==
  /\ work[w].stage = "publish"
  /\ published' = [published EXCEPT ![IdOf(w)] = work[w].item]
  /\ IF work[w].job.step = "pods"
     THEN queue' = Pushed(Follower(w)) /\ work' = [work EXCEPT ![w] = Free]
     ELSE /\ work' = [work EXCEPT ![w].stage = "record", ![w].latest = items[IdOf(w)].result]
          /\ UNCHANGED queue
  /\ UNCHANGED <<items, counter, summary, reeval, asked, prefs, exhausted, raced>>

\* Deviation: the job that follows is not pushed.
RecordOnly(w) ==
  /\ work[w].stage = "record"
  /\ summary' = IF work[w].latest.ready THEN [summary EXCEPT ![IdOf(w)] = work[w].latest] ELSE summary
  /\ work' = [work EXCEPT ![w] = NextTask(w)]
  /\ queue' = Pushed(IF work[w].job.step = "metrics" THEN {} ELSE Follower(w))
  /\ UNCHANGED <<items, counter, published, reeval, asked, prefs, exhausted, raced>>

\* The rest of UpdateSummary, and the rest of the job.
Record(w) ==
  /\ work[w].stage = "record"
  /\ summary' = IF work[w].latest.ready THEN [summary EXCEPT ![IdOf(w)] = work[w].latest] ELSE summary
  /\ work' = [work EXCEPT ![w] = NextTask(w)]
  /\ queue' = Pushed(Follower(w))
  /\ UNCHANGED <<items, counter, published, reeval, asked, prefs, exhausted, raced>>

--------------------------------------------------------------------------------
(* A re-evaluation the user asks for.                                        *)

Pending(i)    == \E j \in Job : j.of = i /\ queue[j] > 0
HeldBy(i)     == {w \in Worker : /\ work[w].stage # "free"
                                 /\ \/ work[w].job.of = i
                                    \/ work[w].rest # <<>> /\ Head(work[w].rest) = i}
Busy(i)       == Pending(i) \/ HeldBy(i) # {}

\* Deviation: the item is not marked as loading.
ReEvaluateUnmarked(i, p) ==
  /\ reeval.stage = "none" /\ asked < MaxReEvaluations /\ published[i].listed
  /\ asked' = asked + 1
  /\ prefs' = [prefs EXCEPT ![i] = p]
  /\ reeval' = [stage |-> "read", id |-> i, item |-> [items[i] EXCEPT !.prefs = p]]
  /\ raced' = IF Busy(i) THEN raced \cup {i} ELSE raced
  /\ UNCHANGED <<items, counter, published, summary, queue, work, exhausted>>

\* The user sees an item, changes its preferences, and ReEvaluate reads the item.
ReEvaluate(i, p) ==
  /\ reeval.stage = "none" /\ asked < MaxReEvaluations /\ published[i].listed
  /\ asked' = asked + 1
  /\ prefs' = [prefs EXCEPT ![i] = p]
  /\ reeval' = [stage |-> "read", id |-> i, item |-> [items[i] EXCEPT !.prefs = p, !.loading = TRUE]]
  /\ raced' = IF Busy(i) THEN raced \cup {i} ELSE raced
  /\ UNCHANGED <<items, counter, published, summary, queue, work, exhausted>>

ReEvaluateStore ==
  /\ reeval.stage = "read"
  /\ items' = [items EXCEPT ![reeval.id] = reeval.item]
  /\ reeval' = [reeval EXCEPT !.stage = "stored"]
  /\ UNCHANGED <<counter, published, summary, queue, work, asked, prefs, exhausted, raced>>

ReEvaluatePush ==
  /\ reeval.stage = "stored"
  /\ published' = [published EXCEPT ![reeval.id] = [reeval.item EXCEPT !.lazy = FALSE]]
  /\ queue' = Pushed({ItemJob("optimize", reeval.id)})
  /\ reeval' = NoReEval
  /\ UNCHANGED <<items, counter, summary, work, asked, prefs, exhausted, raced>>

--------------------------------------------------------------------------------

WorkerStep(w) ==
  \/ Take(w) \/ Fail(w) \/ Publish(w) \/ Record(w)
  \/ ListAllNamespaces(w) \/ ListWorkloads(w) \/ PassOver(w) \/ CountItem(w)
  \/ ListDeployment(w) \/ ListStatefulset(w) \/ ListDaemonset(w) \/ ListJob(w) \/ ListPod(w)
  \/ ListPodsForDeployment(w) \/ ListPodsForStatefulset(w) \/ ListPodsForDaemonset(w) \/ ListPodsForJob(w)
  \/ GetDeploymentPodMetrics(w) \/ GetStatefulsetPodMetrics(w) \/ GetDaemonsetPodMetrics(w)
  \/ GetJobPodMetrics(w) \/ GetPodMetrics(w)
  \/ OptimizeLazy(w) \/ OptimizeDeployment(w) \/ OptimizeStatefulset(w) \/ OptimizeDaemonset(w)
  \/ OptimizeJob(w) \/ OptimizeJobPanics(w) \/ OptimizePod(w)
  \/ DownloadReport(w) \/ ReportDeployment(w) \/ ReportStatefulset(w) \/ ReportDaemonset(w)
  \/ ReportJob(w) \/ ReportPod(w)

Next ==
  \/ \E w \in Worker : WorkerStep(w)
  \/ \E i \in Id, p \in Preference : ReEvaluate(i, p)
  \/ ReEvaluateStore \/ ReEvaluatePush

Spec == Init /\ [][Next]_vars

\* Every worker goes on, and so does a re-evaluation that was begun.
FairSpec == /\ Spec
            /\ \A w \in Worker : WF_vars(WorkerStep(w))
            /\ WF_vars(ReEvaluateStore \/ ReEvaluatePush)

--------------------------------------------------------------------------------
(* Properties.                                                               *)

Task == [stage : {"free", "call", "count", "store", "report", "publish", "record"}, job : Job,
         item : Item, rest : Seq(Id), latest : Result]

\* The types of the processor's state and of the local variables of its jobs.
TypeOK ==
  /\ items \in [Id -> Item] /\ published \in [Id -> Item]
  /\ counter \in Nat
  /\ summary \in [Id -> Result]
  /\ queue \in [Job -> Nat]
  /\ work \in [Worker -> Task]
  /\ reeval \in [stage : {"none", "read", "stored"}, id : Id \cup {"none"}, item : Item]
  /\ reeval.stage # "none" => reeval.id \in Id
  /\ asked \in 0..MaxReEvaluations
  /\ prefs \in [Id -> Preference]
  /\ exhausted \subseteq Id /\ raced \subseteq Id

\* Nobody is going to change item i any more.
Quiet(i) == items[i].listed /\ ~Busy(i) /\ reeval.id # i

\* However the listings of namespaces and kinds interleave on the shared counter, no more
\* than LazyLoad items are loaded without being asked for (a report does not count).
EagerAtMostLazyLoad ==
  (asked = 0 /\ counter > 0) => Cardinality({i \in Id : items[i].listed /\ ~items[i].lazy}) <= LazyLoad

\* Whatever jobs and re-evaluations overwrite each other, an item that is not skipped
\* is never abandoned in "loading": when no job of it is left, it is still lazy or has
\* a result, unless a job gave up.
SettledWhenQuiet ==
  \A i \in Id : (Quiet(i) /\ i \notin exhausted /\ ~items[i].skipped) =>
    ~items[i].loading /\ (items[i].lazy \/ items[i].result.ready)

\* Two jobs of one item never run at the same time (they would share the item's
\* metrics map), and an item has one job at most, unless the user re-evaluated it
\* while a job of it existed.
OneJobAtATime ==
  /\ TypeOK
  /\ \A i \in Id \ raced :
       LET waiting == {j \in Job : j.of = i /\ queue[j] > 0}
       IN  /\ \A v, w \in HeldBy(i) : v = w
           /\ \A j, k \in waiting : j = k /\ queue[j] = 1
           /\ HeldBy(i) = {} \/ waiting = {}

\* The status ToOptimizationItem gives an item; "blank" is none without a recommendation.
Screen(item) ==
  CASE ~item.listed -> "absent"
    [] item.listed /\ item.skipped -> "skipped"
    [] item.listed /\ ~item.skipped /\ item.loading -> "loading"
    [] item.listed /\ ~item.skipped /\ ~item.loading /\ item.lazy -> "lazy"
    [] item.listed /\ ~item.skipped /\ ~item.loading /\ ~item.lazy ->
         IF item.result.ready THEN "ready" ELSE "blank"

\* Whatever overlaps and whatever fails, even when a job overwrites preferences the user
\* has just given: a recommendation is never shown, nor kept, as that for preferences
\* other than those it was computed with.
ReadyFitsPreferences ==
  \A i \in Id : \A item \in {items[i], published[i]} :
    Screen(item) = "ready" => item.result.prefs = item.prefs

\* The result an item is left with was computed with the preferences the user gave
\* last, unless the re-evaluation overlapped a job of the item; and even then it is not
\* taken for one with other preferences than its own.
LastPreferencesWin ==
  /\ ReadyFitsPreferences
  /\ \A i \in Id \ raced : (Quiet(i) /\ i \notin exhausted) =>
       /\ items[i].prefs = prefs[i]
       /\ ~items[i].skipped /\ items[i].result.ready => items[i].result.prefs = prefs[i]

\* What the user sees in the end, and what the summary adds up, is the item as it is.
PublishedWhenQuiet ==
  \A i \in Id \ raced : Quiet(i) =>
    /\ [published[i] EXCEPT !.lazy = items[i].lazy] = items[i]
    /\ items[i].result.ready => summary[i] = items[i].result

\* A recommendation is computed from all the metrics its item has, and from none only
\* when the user asked for one of a workload that was skipped or that could not be
\* loaded; Prometheus may have had nothing on its pods.  Items that were re-evaluated
\* while a job of theirs existed are left out.
ResultsUseMetrics ==
  \A i \in Id \ raced : items[i].result.ready =>
    /\ items[i].result.metrics = items[i].metrics
    /\ items[i].metrics = "none" => Unavailable(i) \/ i \in Elsewhere \cup exhausted

\* Of a report that breaks off at a bad entry, the user sees what stands before it: an
\* item is shown only together with all the wanted items the report lists before it.
ReportIsPrefix ==
  \A k \in Kind : \A a, b \in DOMAIN Report[k] :
    LET i == Report[k][a]
        j == Report[k][b]
    IN  (a < b /\ items[j].listed) =>
          items[i].listed \/ (i \notin Malformed /\ ~(Selected(i) /\ (k = "pod" => Wanted(i))))

Lifecycle == INSTANCE ItemLifecycle WITH
  screen     <- [i \in Id |-> Screen(published[i])],
  requested  <- IF reeval.stage = "none" THEN {} ELSE {reeval.id},
  overlapped <- raced,
  lost       <- exhausted

\* However jobs and re-evaluations interleave, what the user sees of an item goes through
\* the life ItemLifecycle describes: it never falls back by itself, neither a finished one
\* to loading nor a loading one to lazy, and none loads that nobody asked for.
ImplementsLifecycle == Lifecycle!Spec

\* What was asked for is taken up, and what is shown as loading comes to an end.
LifecycleEnds == Lifecycle!FairSpec

================================================================================
