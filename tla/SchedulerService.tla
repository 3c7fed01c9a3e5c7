---------------------------- MODULE SchedulerService ----------------------------
(***************************************************************************)
(* SchedulerService of plugin/processor/simulation/scheduling_service.go:  *)
(* which nodes could be taken out of the cluster?                          *)
(*                                                                         *)
(* Simulate() places the registered workloads on all the nodes, removes    *)
(* the first node that can be drained, and starts over (a recursive call,  *)
(* here a new level) with the others until none can.  Workers register     *)
(* workloads while a simulation runs: the five maps are read again, one    *)
(* after the other, at every level.  The placement itself is done by       *)
(* Scheduler, whose steps run inside a simulation.                         *)
(***************************************************************************)
EXTENDS Scheduler, SequencesExt

CONSTANTS
  Workload,      \* the workload objects; several may share a key
  WorkloadSpec,  \* workload -> [key, kind, template, replicas]
  NodeOrder,     \* s.nodes, in the order of the cluster listing
  Kinds          \* the order in which simulate reads the maps

ASSUME ServiceAssumption ==
  /\ NodeOrder \in Seq(Node) /\ Range(NodeOrder) = Node /\ Len(NodeOrder) = Cardinality(Node)
  /\ IsFiniteSet(Workload)
  /\ \A w \in Workload : WorkloadSpec[w].template \in Template /\ WorkloadSpec[w].replicas \in Nat
  /\ Kinds \in Seq(Range(Kinds))

\* The sorts of workload whose AddFunc places a number of replicas and reports when
\* one of them does not fit.
Replicated == {"deployment", "statefulset", "pod"}

\* A bare pod is one pod.  A template stands for the pods of one workload object, so
\* one that a replicated workload has is of no job or daemon set.
ASSUME WorkloadAssumption ==
  /\ \A w \in Workload : WorkloadSpec[w].kind = "pod" => WorkloadSpec[w].replicas = 1
  /\ \A v, w \in Workload :
       WorkloadSpec[v].template = WorkloadSpec[w].template =>
         (WorkloadSpec[v].kind \in Replicated <=> WorkloadSpec[w].kind \in Replicated)

VARIABLES
  registered,  \* the five maps: the workloads stored in them
  phase,       \* where simulate is
  kinds,       \* the maps it has still to read
  resources,   \* the resources it has read at this level
  queue,       \* the AddFuncs still to be called, sorted by priority
  err,         \* the variable err of simulate, set by the AddFuncs
  scanned,     \* how many nodes the removal loop has passed
  remaining,   \* the nodes it keeps
  removed,     \* the nodes removed so far, over all levels
  answer       \* what the last Simulate returned

serviceVars == <<registered, phase, kinds, resources, queue, err, scanned, remaining, removed, answer>>
vars        == <<schedVars, serviceVars>>

--------------------------------------------------------------------------------

\* resourcePriority: the lower is placed first.  The band says how constrained
\* the pod is; within a band the larger pod (cpu*4 + memory) goes first.
Band(t) ==
  IF PodSpec[t].podAffinity # {} \/ PodSpec[t].podAntiAffinity # {} THEN 0
  ELSE IF PodSpec[t].nodeAffinity # {} THEN 1000
  ELSE IF PodSpec[t].tolerations # {} THEN 2000
  ELSE IF PodSpec[t].nodeSelector # {} THEN 3000
  ELSE 4000

ResourcePriority(w) ==
  LET t == WorkloadSpec[w].template
  IN  Band(t) - (4 * CpuRequest(t) + MemRequest(t))

ServiceInit ==
  /\ SchedulerInit /\ order = NodeOrder
  /\ registered = {} /\ phase = "idle" /\ kinds = <<>> /\ resources = {} /\ queue = <<>>
  /\ err = FALSE /\ scanned = 0 /\ remaining = <<>> /\ removed = <<>> /\ answer = <<>>

\* AddDaemonSet, AddDeployment, AddJob, AddStatefulSet, AddPod: the map entry of
\* the workload's namespace and name is set, whatever was there before.
Register(w) ==
  /\ registered' = {v \in registered : WorkloadSpec[v].key # WorkloadSpec[w].key} \cup {w}
  /\ UNCHANGED <<schedVars, phase, kinds, resources, queue, err, scanned, remaining, removed, answer>>

--------------------------------------------------------------------------------

\* Simulate(): a copy of s.nodes, nothing allocated.
Simulate ==
  /\ phase = "idle"
  /\ phase' = "enter"
  /\ order' = NodeOrder
  /\ alloc' = [n \in Node |-> Empty]
  /\ removed' = <<>>
  /\ UNCHANGED <<pdbs, headroom, call, pending, target, temp, result, seen,
                 registered, kinds, resources, queue, err, scanned, remaining, answer>>

Finish ==
  /\ phase' = "idle" /\ answer' = removed
  /\ kinds' = <<>> /\ resources' = {} /\ queue' = <<>>
  /\ err' = FALSE /\ scanned' = 0 /\ remaining' = <<>>

\* Deviation: the last node is looked at as well.
EnterLevelToTheLast ==
  /\ phase = "enter"
  /\ seen' = [f \in Factors |-> {headroom[f]}]
  /\ IF Len(order) <= 0
     THEN Finish /\ UNCHANGED removed
     ELSE /\ phase' = "collect" /\ kinds' = Kinds
          /\ resources' = {} /\ err' = FALSE /\ scanned' = 0 /\ remaining' = <<>>
          /\ UNCHANGED <<queue, removed, answer>>
  /\ UNCHANGED <<order, alloc, pdbs, headroom, call, pending, target, temp, result, registered>>

\* simulate(nodes) is called.  With one node left there is nothing to remove.
EnterLevel ==
  /\ phase = "enter"
  /\ seen' = [f \in Factors |-> {headroom[f]}]
  /\ IF Len(order) <= 1
     THEN Finish /\ UNCHANGED removed
     ELSE /\ phase' = "collect" /\ kinds' = Kinds
          /\ resources' = {} /\ err' = FALSE /\ scanned' = 0 /\ remaining' = <<>>
          /\ UNCHANGED <<queue, removed, answer>>
  /\ UNCHANGED <<order, alloc, pdbs, headroom, call, pending, target, temp, result, registered>>

\* One Range over one map.
Collect ==
  /\ phase = "collect" /\ kinds # <<>>
  /\ resources' = resources \cup {w \in registered : WorkloadSpec[w].kind = Head(kinds)}
  /\ kinds' = Tail(kinds)
  /\ UNCHANGED <<schedVars, registered, phase, queue, err, scanned, remaining, removed, answer>>

\* sort.Slice over what a map iteration delivered: equal priorities in any order.
SortByPriority ==
  /\ phase = "collect" /\ kinds = <<>>
  /\ queue' \in {q \in SetToSeqs(resources) :
                   \A i, j \in DOMAIN q : i < j => ResourcePriority(q[i]) <= ResourcePriority(q[j])}
  /\ phase' = "add"
  /\ UNCHANGED <<schedVars, registered, kinds, resources, err, scanned, remaining, removed, answer>>

\* Call the next AddFunc.
AddFunc ==
  /\ phase = "add" /\ queue # <<>>
  /\ LET w == WorkloadSpec[Head(queue)]
     IN  CASE w.kind = "daemonset" -> AddDaemonSet(w.template)
           [] w.kind = "job"       -> AddReplicas("addJob", w.template, w.replicas)
           [] w.kind = "pod"       -> AddReplicas("add", w.template, 1)
           [] OTHER                -> AddReplicas("add", w.template, w.replicas)
  /\ queue' = Tail(queue)
  /\ UNCHANGED <<registered, phase, kinds, resources, err, scanned, remaining, removed, answer>>

\* A step of the scheduler during an AddFunc.  Its failure is noted in err, which
\* nobody reads any more.
AddStep ==
  /\ phase = "add" /\ call # "none"
  /\ SchedulerStep
  /\ err' = (err \/ (call' = "none" /\ result' = "failed"))
  /\ UNCHANGED <<registered, phase, kinds, resources, queue, scanned, remaining, removed, answer>>

AllAdded ==
  /\ phase = "add" /\ queue = <<>> /\ Idle
  /\ phase' = "scan"
  /\ UNCHANGED <<schedVars, registered, kinds, resources, queue, err, scanned, remaining, removed, answer>>

--------------------------------------------------------------------------------

RemovedHere == scanned > Len(remaining)
Candidate   == order[scanned + 1]

\* The loop body up to CanRemoveNode, which is only called until a node is found.
TryRemove ==
  /\ phase = "scan" /\ scanned < Len(order) /\ ~RemovedHere
  /\ CanRemoveNode(Candidate)
  /\ phase' = "verdict"
  /\ UNCHANGED <<registered, kinds, resources, queue, err, scanned, remaining, removed, answer>>

DrainStep ==
  /\ phase = "verdict" /\ call # "none"
  /\ SchedulerStep
  /\ UNCHANGED serviceVars

Keep ==
  /\ remaining' = Append(remaining, Candidate)
  /\ UNCHANGED removed

\* The loop body after CanRemoveNode.
Verdict ==
  /\ phase = "verdict" /\ Idle
  /\ IF result = "ok"
     THEN removed' = Append(removed, Candidate) /\ UNCHANGED remaining
     ELSE Keep
  /\ scanned' = scanned + 1
  /\ phase' = "scan"
  /\ UNCHANGED <<schedVars, registered, kinds, resources, queue, err, answer>>

KeepRest ==
  /\ phase = "scan" /\ scanned < Len(order) /\ RemovedHere
  /\ Keep
  /\ scanned' = scanned + 1
  /\ UNCHANGED <<schedVars, registered, phase, kinds, resources, queue, err, answer>>

\* No node could be removed: return what the levels above removed.  Otherwise the
\* counters of the others are reset (their Pods are not) and simulate is called
\* with them.
EndScan ==
  /\ phase = "scan" /\ scanned = Len(order)
  /\ IF RemovedHere
     THEN /\ order' = remaining
          /\ alloc' = [n \in Node |-> IF n \in Range(remaining)
                                      THEN [alloc[n] EXCEPT !.cpu = 0, !.mem = 0, !.pod = 0]
                                      ELSE Empty]
          /\ phase' = "enter"
          /\ UNCHANGED <<kinds, resources, queue, err, scanned, remaining, answer>>
     ELSE /\ Finish
          /\ UNCHANGED <<order, alloc>>
  /\ UNCHANGED <<pdbs, headroom, call, pending, target, temp, result, seen, registered, removed>>

\* A re-evaluation changes a headroom factor.
ChangeHeadroom ==
  /\ \E f \in Factors, pct \in HeadroomPct : pct # headroom[f] /\ SetHeadroom(f, pct)
  /\ UNCHANGED serviceVars

SimulateStep == EnterLevel \/ Collect \/ SortByPriority \/ AddFunc \/ AddStep \/ AllAdded
                  \/ TryRemove \/ DrainStep \/ Verdict \/ KeepRest \/ EndScan

ServiceNext == SimulateStep \/ Simulate \/ ChangeHeadroom \/ \E w \in Workload : Register(w)

ServiceSpec == ServiceInit /\ [][ServiceNext]_vars

\* A simulation that was started runs on its worker until it returns.
FairServiceSpec == ServiceSpec /\ WF_vars(SimulateStep)

--------------------------------------------------------------------------------
(* Properties.                                                               *)

\* The types of the service's state.
ServiceTypeOK ==
  /\ TypeOK
  /\ registered \subseteq Workload /\ resources \subseteq Workload
  /\ phase \in {"idle", "enter", "collect", "add", "scan", "verdict"}
  /\ kinds \in Seq(Range(Kinds)) /\ queue \in Seq(Workload)
  /\ err \in BOOLEAN /\ scanned \in 0..Cardinality(Node)
  /\ remaining \in Seq(Node) /\ removed \in Seq(Node) /\ answer \in Seq(Node)

\* The state is well typed and every node is, at every point of the recursion, in exactly one place: removed,
\* kept by the current loop or still to be looked at; nothing is reported twice
\* or lost between two levels, and at least one node stays (also in the answer).
NodesPartitioned ==
  LET ahead == {order[i] : i \in (scanned + 1)..Len(order)}
      parts == removed \o remaining \o SetToSeq(ahead)
  IN  /\ ServiceTypeOK
      /\ phase # "idle" => /\ Len(parts) = Cardinality(Node) /\ Range(parts) = Node
                           /\ Len(removed) < Cardinality(Node)
      /\ Cardinality(Range(answer)) = Len(answer) /\ Len(answer) < Cardinality(Node)

\* The pods placed on n at the current level: those that are counted.
LevelPods(n) ==
  LET a == alloc[n] IN SubSeq(a.pods, Len(a.pods) - a.pod + 1, Len(a.pods))

LevelCopies(t) == MapThenSumSet(LAMBDA n : CountOf(t, LevelPods(n)), live)

\* When all AddFuncs of a level have run and none reported a failure, all the
\* replicas the level has read are on the nodes: no replica is forgotten and none
\* placed twice (registrations meanwhile do not disturb the level).
PlacedOrReported ==
  (phase = "scan" /\ ~err) =>
    \A t \in Template :
      LET asked == {w \in resources : /\ WorkloadSpec[w].template = t
                                      /\ WorkloadSpec[w].kind \in Replicated}
      IN  asked # {} => LevelCopies(t) = MapThenSumSet(LAMBDA w : WorkloadSpec[w].replicas, asked)

\* The same for jobs.
\* TLC refutes it: AddJob answers true.
JobPlacedOrReported ==
  (phase = "scan" /\ ~err) =>
    \A w \in resources : WorkloadSpec[w].kind = "job" =>
      LevelCopies(WorkloadSpec[w].template) >= WorkloadSpec[w].replicas

\* What failed to be placed must not be ignored: no node is taken away at a level
\* where a workload did not fit on the nodes there are.
\* TLC refutes it: the error is tested before the workloads are placed.
FailureStopsRemoval == [][removed' # removed /\ removed' # <<>> => ~err]_vars

\* A node on which nothing was scheduled is removable at once.
\* TLC refutes it: the pods of the level before are still listed.
EmptyNodeRemovable ==
  [][(phase = "scan" /\ phase' = "verdict" /\ alloc[Candidate].pod = 0) =>
       call' = "none" /\ result' = "ok"]_vars

\* A simulation always comes to its end, whatever is registered and whichever
\* factor is changed meanwhile.
SimulationReturns == (phase # "idle") ~> (phase = "idle")

\* Each level removes a node only when the pods of that level can be arranged on
\* the others, one node at a time and never the last: the service implements the
\* abstract NodeRemoval.  The load of the abstract cluster is what is placed at
\* the current level.
Abstract ==
  INSTANCE NodeRemoval WITH
    kept     <- Node \ Range(removed),
    load     <- [t \in Template |-> LevelCopies(t)],
    Headroom <- [f \in Factors |-> Max(HeadroomPct)]

ImplementsNodeRemoval == Abstract!Spec

================================================================================
