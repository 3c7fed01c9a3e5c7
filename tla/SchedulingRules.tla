---------------------------- MODULE SchedulingRules ----------------------------
(***************************************************************************)
(* The placement rules of plugin/processor/simulation                      *)
(* (scheduling_simulation.go): may this pod go on this node?               *)
(*                                                                         *)
(* The cluster data never changes while the simulation runs and is given   *)
(* by constants.  What changes is, per node, the record of what has been   *)
(* allocated on it (`a' below: cpu, mem, pod and the sequence `pods' of    *)
(* the templates placed on it) and the three headroom factors (`h' below,  *)
(* in per cent).  Label maps are sets of <<key, value>> pairs.  Quantities *)
(* are integers: the code's float64 rounding is not modelled.  An affinity *)
(* section without a required term is taken as absent.                     *)
(***************************************************************************)
EXTENDS Integers, Sequences, FiniteSets, FiniteSetsExt, Functions

CONSTANTS
  Node,      \* the nodes of the cluster
  NodeSpec,  \* node     -> [vcores, memory, maxPods, taints, labels]
  Template,  \* the pod templates of the workloads
  PodSpec    \* template -> [initContainers, containers, labels, tolerations,
             \*              nodeSelector, nodeAffinity, podAffinity, podAntiAffinity]

ASSUME NodeAssumption ==
  /\ IsFiniteSet(Node)
  /\ \A n \in Node : /\ NodeSpec[n].vcores \in Nat \ {0}
                     /\ NodeSpec[n].memory \in Nat \ {0}
                     /\ NodeSpec[n].maxPods \in Nat

--------------------------------------------------------------------------------
(* Resource requests.  Each container is [cpu, mem].  The largest request of *)
(* an init container is ADDED to the sum over the regular containers.        *)

GetPodResourceRequest(t, resource) ==
  LET request(cs) == {c[resource] : c \in Range(cs)}
      containers  == PodSpec[t].containers
  IN  Max({0} \cup request(PodSpec[t].initContainers))
        + MapThenSumSet(LAMBDA i : containers[i][resource], DOMAIN containers)

CpuRequest(t) == GetPodResourceRequest(t, "cpu")
MemRequest(t) == GetPodResourceRequest(t, "mem")

ASSUME TemplateAssumption ==
  \A t \in Template : CpuRequest(t) \in Nat /\ MemRequest(t) \in Nat

WithPodSansInit(a, t) ==
  LET containers == PodSpec[t].containers
  IN  [cpu |-> a.cpu + CpuRequest(t),
       mem |-> a.mem + MapThenSumSet(LAMBDA i : containers[i].mem, DOMAIN containers),
       pod |-> a.pod + 1, pods |-> Append(a.pods, t)]

\* schedulePod: node n with one more pod of template t on it.
WithPod(a, t) ==
  [cpu  |-> a.cpu + CpuRequest(t),
   mem  |-> a.mem + MemRequest(t),
   pod  |-> a.pod + 1,
   pods |-> Append(a.pods, t)]

\* int(float64(MaxPodCount) * PodHeadroomFactor)
PodLimit(n, pct) == (NodeSpec[n].maxPods * pct) \div 100

\* Deviation: the pod count is compared before the pod is counted.
HasEnoughResourcesOffByOne(t, n, a, h) ==
  /\ 100 * (a.cpu + CpuRequest(t)) <= NodeSpec[n].vcores * h.cpu
  /\ 100 * (a.mem + MemRequest(t)) <= NodeSpec[n].memory * h.mem
  /\ a.pod <= PodLimit(n, h.pod)

\* Deviation: the CPU is compared before the pod is added.
HasEnoughResourcesBefore(t, n, a, h) ==
  /\ 100 * a.cpu <= NodeSpec[n].vcores * h.cpu
  /\ 100 * (a.mem + MemRequest(t)) <= NodeSpec[n].memory * h.mem
  /\ a.pod + 1 <= PodLimit(n, h.pod)

HasEnoughResources(t, n, a, h) ==
  /\ 100 * (a.cpu + CpuRequest(t)) <= NodeSpec[n].vcores * h.cpu
  /\ 100 * (a.mem + MemRequest(t)) <= NodeSpec[n].memory * h.mem
  /\ a.pod + 1 <= PodLimit(n, h.pod)

--------------------------------------------------------------------------------
(* Taints, node affinity, node selector.                                     *)

LabelsOf(n)        == NodeSpec[n].labels
HasLabelKey(n, k)  == \E kv \in LabelsOf(n) : kv[1] = k

\* Only key and effect are compared; the empty key tolerates every key and a
\* NoExecute toleration every effect.  Operator and value are not looked at.
TaintTolerated(taint, tolerations) ==
  \E tol \in tolerations : /\ tol.key \in {taint.key, ""}
                           /\ tol.effect \in {taint.effect, "NoExecute"}

Tolerates(t, n) ==
  \A taint \in NodeSpec[n].taints : TaintTolerated(taint, PodSpec[t].tolerations)

MatchNodeSelectorRequirement(req, n) ==
  LET valueListed == \E v \in req.values : <<req.key, v>> \in LabelsOf(n)
  IN  \/ req.operator = "In"           /\ valueListed
      \/ req.operator = "NotIn"        /\ ~valueListed
      \/ req.operator = "Exists"       /\ HasLabelKey(n, req.key)
      \/ req.operator = "DoesNotExist" /\ ~HasLabelKey(n, req.key)

\* nodeAffinity holds the list of required terms, or is empty when the pod
\* requires nothing; the terms are alternatives, so no term means no node.
SatisfiesNodeAffinity(t, n) ==
  \A terms \in PodSpec[t].nodeAffinity :
    \E term \in terms : \A req \in term : MatchNodeSelectorRequirement(req, n)

MatchesNodeSelector(t, n) == PodSpec[t].nodeSelector \subseteq LabelsOf(n)

\* The conditions that do not depend on what is already placed.
Admits(n, t) == Tolerates(t, n) /\ SatisfiesNodeAffinity(t, n) /\ MatchesNodeSelector(t, n)

--------------------------------------------------------------------------------
(* Pod affinity and anti-affinity.  A selector is a set of label pairs.      *)

SelectorMatches(selector, t) == selector \subseteq PodSpec[t].labels

\* Only the pods of the candidate node itself are searched.  `live' are the
\* nodes of the scheduler; the candidate is one of them, so its own topology
\* value is always found again.
SatisfiesPodAffinityTerm(term, n, pods, live) ==
  /\ \E t \in Range(pods) : SelectorMatches(term.selector, t)
  /\ \/ term.topologyKey = ""
     \/ \E kv \in LabelsOf(n) : /\ kv[1] = term.topologyKey
                                /\ \E m \in live : kv \in LabelsOf(m)

\* Deviation: anti-affinity looks at the last pod only.
SatisfiesAffinityRulesLastPod(t, n, pods, live) ==
  /\ \A term \in PodSpec[t].podAffinity : SatisfiesPodAffinityTerm(term, n, pods, live)
  /\ \A term \in PodSpec[t].podAntiAffinity :
       pods = <<>> \/ ~SatisfiesPodAffinityTerm(term, n, <<pods[Len(pods)]>>, live)

SatisfiesAffinityRules(t, n, pods, live) ==
  /\ \A term \in PodSpec[t].podAffinity : SatisfiesPodAffinityTerm(term, n, pods, live)
  /\ \A term \in PodSpec[t].podAntiAffinity : ~SatisfiesPodAffinityTerm(term, n, pods, live)

CanScheduleOnNode(t, n, a, h, live) ==
  /\ Admits(n, t)
  /\ SatisfiesAffinityRules(t, n, a.pods, live)
  /\ HasEnoughResources(t, n, a, h)

--------------------------------------------------------------------------------
(* The packing strategy: nodes sorted by utilisation, the fullest first, and *)
(* the first one that can take the pod gets it.                              *)

\* max(cpu ratio, memory ratio) of m is larger than that of n.
FullerThan(m, n, alloc) ==
  LET ratios(x) == {<<alloc[x].cpu, NodeSpec[x].vcores>>, <<alloc[x].mem, NodeSpec[x].memory>>}
  IN  \E r \in ratios(m) : \A q \in ratios(n) : r[1] * q[2] > q[1] * r[2]

\* Deviation: the order of the last sort is kept.
SortedOnce(order, alloc) == {order}

\* The orders sort.Slice may leave: it is not stable, so nodes that are equally
\* full may end up in any order.
SortedByUtilization(order, alloc) ==
  {p \in [DOMAIN order -> Range(order)] :
     /\ Range(p) = Range(order)
     /\ \A i, j \in DOMAIN p : i < j => ~FullerThan(p[j], p[i], alloc)}

\* schedulePodWithStrategy: the results it may produce.
SchedulePodWithStrategy(order, alloc, t, h) ==
  LET fits(n)     == CanScheduleOnNode(t, n, alloc[n], h, Range(order))
      firstFit(p) == {i \in DOMAIN p : fits(p[i]) /\ \A j \in 1..(i - 1) : ~fits(p[j])}
      placed(p)   == {[ok |-> TRUE, order |-> p, alloc |-> [alloc EXCEPT ![p[i]] = WithPod(@, t)]] :
                        i \in firstFit(p)}
      refused(p)  == IF \E i \in DOMAIN p : fits(p[i])
                     THEN {} ELSE {[ok |-> FALSE, order |-> p, alloc |-> alloc]}
  IN  UNION {placed(p) \cup refused(p) : p \in SortedByUtilization(order, alloc)}

================================================================================
