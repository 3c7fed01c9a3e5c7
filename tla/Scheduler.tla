------------------------------- MODULE Scheduler -------------------------------
(***************************************************************************)
(* The Scheduler of plugin/processor/simulation/scheduling_simulation.go:  *)
(* a bin packer that places pod templates on nodes (Add...) and says       *)
(* whether a node could be drained (CanRemoveNode).                        *)
(*                                                                         *)
(* A call is a loop over pods; each iteration is one step, because the     *)
(* headroom factors it reads are globals that a re-evaluation writes from  *)
(* another goroutine in the middle of the call.                            *)
(***************************************************************************)
EXTENDS SchedulingRules

CONSTANTS
  Pdb,          \* the pod disruption budgets a client may add
  PdbSpec,      \* budget -> [selector, minAvailable, maxUnavailable]; a bound
                \* that is not set is {}, one that is set is the singleton of it
  HeadroomPct,  \* the percentages a headroom factor may take
  MaxReplicas   \* bound on the replicas of one workload

ASSUME SchedulerAssumption == HeadroomPct \subseteq Int /\ MaxReplicas \in Nat
\* MinAvailable and MaxUnavailable are read with IntValue.
ASSUME PdbAssumption == \A b \in Pdb : PdbSpec[b].minAvailable \cup PdbSpec[b].maxUnavailable \subseteq Int

VARIABLES
  order,     \* s.nodes: the nodes in slice order
  alloc,     \* per node AllocatedCPU, AllocatedMem, AllocatedPod and Pods
  pdbs,      \* s.pdbs
  headroom,  \* CPUHeadroomFactor, MemoryHeadroomFactor, PodHeadroomFactor
  call,      \* the call in progress: "none", "add", "addJob" or "drain"
  pending,   \* the templates the call has still to place
  target,    \* the node a "drain" empties, as a singleton, {} otherwise
  temp,      \* tempScheduler: [order, alloc] of a "drain"
  result,    \* what the last call returned
  seen       \* history: per factor, the values in force since New(nodes)

schedVars == <<order, alloc, pdbs, headroom, call, pending, target, temp, result, seen>>

--------------------------------------------------------------------------------

Empty     == [cpu |-> 0, mem |-> 0, pod |-> 0, pods |-> <<>>]
NoTemp    == [order |-> <<>>, alloc |-> [n \in Node |-> Empty]]
Factors   == {"cpu", "mem", "pod"}
live      == Range(order)

\* New(nodes)
SchedulerInit ==
  /\ order \in {o \in [1..Cardinality(Node) -> Node] : Range(o) = Node}
  /\ alloc = [n \in Node |-> Empty]
  /\ pdbs = {}
  /\ headroom \in [Factors -> HeadroomPct]
  /\ call = "none" /\ pending = <<>> /\ target = {} /\ temp = NoTemp
  /\ result = "ok"
  /\ seen = [f \in Factors |-> {headroom[f]}]

Idle == call = "none"

Return(r) ==
  /\ call' = "none" /\ pending' = <<>> /\ target' = {} /\ temp' = NoTemp
  /\ result' = r

--------------------------------------------------------------------------------

AddPodDisruptionBudget(b) ==
  /\ Idle
  /\ pdbs' = pdbs \cup {b}
  /\ UNCHANGED <<order, alloc, headroom, call, pending, target, temp, result, seen>>

\* AddDeployment, AddStatefulSet (Replicas) and AddPod (one pod): stop at the
\* first pod that fits nowhere and return false.  AddJob ("addJob", Completions)
\* stops as well but returns true.
AddReplicas(kind, t, replicas) ==
  /\ Idle
  /\ call' = kind
  /\ pending' = [i \in 1..replicas |-> t]
  /\ UNCHANGED <<order, alloc, pdbs, headroom, target, temp, result, seen>>

\* Deviations: a failure reported as success, and a failed iteration repeated.
PlaceReplicaSilently ==
  /\ call \in {"add", "addJob"} /\ pending # <<>>
  /\ \E out \in SchedulePodWithStrategy(order, alloc, Head(pending), headroom) :
       /\ order' = out.order /\ alloc' = out.alloc
       /\ IF out.ok
          THEN pending' = Tail(pending) /\ UNCHANGED <<call, target, temp, result>>
          ELSE Return("ok")
  /\ UNCHANGED <<pdbs, headroom, seen>>

PlaceReplicaOrWait ==
  /\ call \in {"add", "addJob"} /\ pending # <<>>
  /\ \E out \in SchedulePodWithStrategy(order, alloc, Head(pending), headroom) :
       /\ order' = out.order /\ alloc' = out.alloc
       /\ pending' = IF out.ok THEN Tail(pending) ELSE pending
  /\ UNCHANGED <<pdbs, headroom, seen, call, target, temp, result>>

\* One iteration of the replica loop.
PlaceReplica ==
  /\ call \in {"add", "addJob"} /\ pending # <<>>
  /\ \E out \in SchedulePodWithStrategy(order, alloc, Head(pending), headroom) :
       /\ order' = out.order /\ alloc' = out.alloc
       /\ IF out.ok
          THEN pending' = Tail(pending) /\ UNCHANGED <<call, target, temp, result>>
          ELSE Return(IF call = "addJob" THEN "ok" ELSE "failed")
  /\ UNCHANGED <<pdbs, headroom, seen>>

AllPlaced ==
  /\ call \in {"add", "addJob"} /\ pending = <<>>
  /\ Return("ok")
  /\ UNCHANGED <<order, alloc, pdbs, headroom, seen>>

\* One pod on every node that can take it; always returns true.
AddDaemonSet(t) ==
  /\ Idle
  /\ alloc' = [n \in Node |->
                 IF n \in live /\ CanScheduleOnNode(t, n, alloc[n], headroom, live)
                 THEN WithPod(alloc[n], t)
                 ELSE alloc[n]]
  /\ result' = "ok"
  /\ UNCHANGED <<order, pdbs, headroom, call, pending, target, temp, seen>>

--------------------------------------------------------------------------------

CountMatching(b, al, nodes) ==
  LET matching(n) == {i \in DOMAIN al[n].pods : SelectorMatches(PdbSpec[b].selector, al[n].pods[i])}
  IN  MapThenSumSet(LAMBDA n : Cardinality(matching(n)), nodes)

\* getTotalPodCount and countHealthyPods are the same count over s.nodes.
CountPods(b) == CountMatching(b, alloc, live)

\* Deviation: the last pod a budget asks for may go.
CanEvictPodAtMinimum(t) ==
  \A b \in pdbs : SelectorMatches(PdbSpec[b].selector, t) =>
    \A min \in PdbSpec[b].minAvailable : CountPods(b) >= min

CanEvictPod(t) ==
  \A b \in pdbs : SelectorMatches(PdbSpec[b].selector, t) =>
    IF PdbSpec[b].minAvailable # {}
    THEN \A min \in PdbSpec[b].minAvailable : CountPods(b) > min
    ELSE \A max \in PdbSpec[b].maxUnavailable : CountPods(b) - 1 >= CountPods(b) - max

\* The slice without the node, which occurs in it once.
Without(n) ==
  LET i == CHOOSE i \in DOMAIN order : order[i] = n
  IN  SubSeq(order, 1, i - 1) \o SubSeq(order, i + 1, Len(order))

\* Deviation: whether the pods fit elsewhere is not tried.
CanRemoveNodeUntried(n) ==
  /\ Idle
  /\ Return(IF n \in live THEN "ok" ELSE "error")
  /\ UNCHANGED <<order, alloc, pdbs, headroom, seen>>

CanRemoveNode(n) ==
  /\ Idle
  /\ \/ n \notin live /\ Return("error")
     \/ n \in live /\ alloc[n].pods = <<>> /\ Return("ok")
     \/ /\ n \in live /\ alloc[n].pods # <<>>
        /\ call' = "drain" /\ target' = {n}
        /\ pending' = alloc[n].pods
        /\ temp' = [order |-> Without(n), alloc |-> alloc]
        /\ UNCHANGED result
  /\ UNCHANGED <<order, alloc, pdbs, headroom, seen>>

\* One iteration of the drain loop: the budgets are looked up in the scheduler
\* itself, the pod is placed in the copy.
DrainPod ==
  /\ call = "drain" /\ pending # <<>>
  /\ \/ ~CanEvictPod(Head(pending)) /\ Return("failed")
     \/ /\ CanEvictPod(Head(pending))
        /\ \E out \in SchedulePodWithStrategy(temp.order, temp.alloc, Head(pending), headroom) :
             IF out.ok
             THEN /\ temp' = [order |-> out.order, alloc |-> out.alloc]
                  /\ pending' = Tail(pending)
                  /\ UNCHANGED <<call, target, result>>
             ELSE Return("failed")
  /\ UNCHANGED <<order, alloc, pdbs, headroom, seen>>

Drained ==
  /\ call = "drain" /\ pending = <<>>
  /\ Return("ok")
  /\ UNCHANGED <<order, alloc, pdbs, headroom, seen>>

--------------------------------------------------------------------------------

\* A re-evaluation in another goroutine writes one of the global factors.
SetHeadroom(f, pct) ==
  /\ headroom' = [headroom EXCEPT ![f] = pct]
  /\ seen' = [seen EXCEPT ![f] = @ \cup {pct}]
  /\ UNCHANGED <<order, alloc, pdbs, call, pending, target, temp, result>>

SchedulerStep == PlaceReplica \/ AllPlaced \/ DrainPod \/ Drained

Next ==
  \/ SchedulerStep
  \/ \E b \in Pdb : AddPodDisruptionBudget(b)
  \/ \E kind \in {"add", "addJob"}, t \in Template, k \in 0..MaxReplicas : AddReplicas(kind, t, k)
  \/ \E t \in Template : AddDaemonSet(t)
  \/ \E n \in Node : CanRemoveNode(n)
  \/ \E f \in Factors, pct \in HeadroomPct : SetHeadroom(f, pct)

Spec == SchedulerInit /\ [][Next]_schedVars

--------------------------------------------------------------------------------
(* Properties.                                                               *)

AllocType == [cpu : Nat, mem : Nat, pod : Nat, pods : Seq(Template)]

\* The types of the scheduler's state variables (the fields of Scheduler and of
\* the loops of its methods).
TypeOK ==
  /\ order \in Seq(Node)
  /\ alloc \in [Node -> AllocType]
  /\ pdbs \subseteq Pdb
  /\ headroom \in [Factors -> HeadroomPct]
  /\ call \in {"none", "add", "addJob", "drain"}
  /\ pending \in Seq(Template)
  /\ target \subseteq Node
  /\ temp \in [order : Seq(Node), alloc : [Node -> AllocType]]
  /\ result \in {"ok", "failed", "error"}
  /\ seen \in [Factors -> SUBSET HeadroomPct]

\* What one node carries is within a headroom that was in force at some moment
\* since the scheduler was created, factor by factor.
WithinHeadroom(a, n) ==
  /\ a.cpu = 0 \/ \E h \in seen["cpu"] : 100 * a.cpu <= NodeSpec[n].vcores * h
  /\ a.mem = 0 \/ \E h \in seen["mem"] : 100 * a.mem <= NodeSpec[n].memory * h
  /\ a.pod = 0 \/ \E h \in seen["pod"] : a.pod <= PodLimit(n, h)

\* No sequence of calls, daemon sets, drains and concurrent headroom changes
\* overcommits a node, in the scheduler or in the copy a drain works on
\* (hasEnoughResources is asked before every schedulePod).
CapacityRespected ==
  \A n \in Node : WithinHeadroom(alloc[n], n) /\ WithinHeadroom(temp.alloc[n], n)

\* Every pod sits on a node whose taints it tolerates and whose labels its node
\* affinity and node selector accept, also after a drain moved it.
PlacementAdmissible ==
  \A n \in Node : \A a \in {alloc[n], temp.alloc[n]} : \A i \in DOMAIN a.pods : Admits(n, a.pods[i])

\* A pod never shares a node with a pod that was there before it and that one
\* of its anti-affinity terms selects.
AntiAffinityRespected ==
  \A n \in Node : \A a \in {alloc[n], temp.alloc[n]} : \A i, j \in DOMAIN a.pods :
    i < j => \A term \in PodSpec[a.pods[j]].podAntiAffinity :
               ~SatisfiesPodAffinityTerm(term, n, <<a.pods[i]>>, {n})

\* Whatever was placed and moved before, every pod is where it may be: on a node that
\* takes it, and beside none that it excludes (scheduling_simulation.go:193, :244).
PlacementAllowed == PlacementAdmissible /\ AntiAffinityRespected

RequestedBy(pods, resource) ==
  MapThenSumSet(LAMBDA i : GetPodResourceRequest(pods[i], resource), DOMAIN pods)

\* The running totals are exactly the requests of the pods recorded on the node,
\* so that utilisation, and with it the packing order, never drifts.
AccountingExact ==
  \A n \in Node : \A a \in {alloc[n], temp.alloc[n]} :
    /\ a.cpu = RequestedBy(a.pods, "cpu")
    /\ a.mem = RequestedBy(a.pods, "mem")
    /\ a.pod = Len(a.pods)

CountOf(t, pods) == Cardinality({i \in DOMAIN pods : pods[i] = t})
Copies(t, al, nodes) == MapThenSumSet(LAMBDA n : CountOf(t, al[n].pods), nodes)

\* A drain neither loses nor duplicates a pod: at every point of it, what the
\* surviving nodes carry plus what is still to be moved is what the cluster
\* carries, and the survivors are all the other nodes.  So a node is declared
\* removable only when the others really took all its pods.
DrainConservesPods ==
  call = "drain" =>
    /\ Range(temp.order) = live \ target
    /\ \A t \in Template :
         Copies(t, temp.alloc, Range(temp.order)) + CountOf(t, pending) = Copies(t, alloc, live)

\* Evicting the pods of a drain one by one never leaves a budget with fewer
\* matching pods in place than it asks for while one pod is on its way.
DrainKeepsBudgets ==
  [][\A b \in pdbs :
       (call = "drain" /\ call' = "drain" /\ pending # pending' /\ SelectorMatches(PdbSpec[b].selector, Head(pending))) =>
         LET waiting == {i \in DOMAIN Tail(pending) : SelectorMatches(PdbSpec[b].selector, Tail(pending)[i])}
             inPlace == CountMatching(b, temp.alloc, live \ target) + Cardinality(waiting)
         IN  \A min \in PdbSpec[b].minAvailable : inPlace >= min
    ]_schedVars

\* What the answer of CanRemoveNode rests on, in one: the pods of a drain are all
\* accounted for on nodes that stay, and no budget is broken while they move.
DrainSound == []DrainConservesPods /\ DrainKeepsBudgets

\* A pod goes to the fullest node that can accommodate it ("Try to schedule on
\* the most allocated node that can accommodate the pod"), which depends on the
\* slice having been sorted for the allocation of this very moment.
FullestNodeFirst ==
  [][\A n \in Node : (call \in {"add", "addJob"} /\ alloc'[n] # alloc[n]) =>
       ~\E m \in live : /\ FullerThan(m, n, alloc)
                        /\ CanScheduleOnNode(Head(pending), m, alloc[m], headroom, live)
    ]_schedVars

--------------------------------------------------------------------------------
(* What the tests and comments claim and the code does not do.               *)

\* A pod is on a tainted node only with a toleration of that key whose value is
\* the taint's or is not given.
\* TLC refutes it: the code compares key and effect only.
TolerationValueRespected ==
  \A n \in live : \A t \in Range(alloc[n].pods) : \A taint \in NodeSpec[n].taints :
    \E tol \in PodSpec[t].tolerations :
      tol.key \in {taint.key, ""} /\ tol.value \in {taint.value, ""}

\* Two pods that exclude each other within a topology domain are not placed on
\* two nodes of the same domain.
\* TLC refutes it: the code looks at the pods of the candidate only.
AntiAffinityCoversTopology ==
  LET excludes(t, u, kv) == \E term \in PodSpec[t].podAntiAffinity :
                              term.topologyKey = kv[1] /\ SelectorMatches(term.selector, u)
  IN  \A m, n \in live : m # n =>
        \A t \in Range(alloc[m].pods), u \in Range(alloc[n].pods) :
          ~\E kv \in LabelsOf(m) \cap LabelsOf(n) : excludes(t, u, kv) /\ excludes(u, t, kv)

================================================================================
