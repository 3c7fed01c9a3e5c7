---------------------------- MODULE ResourceReports ----------------------------
(***************************************************************************)
(* What the plugin reports: the change shown with an item, the summary of  *)
(* an item, the table of all of them with the nodes and their cost, the    *)
(* exported rows, and the right-sized copy the simulation is given.        *)
(*                                                                         *)
(* Sources: UpdateSummary, ToOptimizationItem and exportCsv of the         *)
(* processors, plugin/processor/shared/summary.go and container.go.  The   *)
(* five kinds differ in how many replicas an item stands for.  Quantities  *)
(* are small integers; formatting is left out.  The optimization service   *)
(* is external: its answer repeats the quantities it was asked about as    *)
(* the current ones, and recommends others.                                *)
(***************************************************************************)
EXTENDS Integers, FiniteSets, FiniteSetsExt

CONSTANTS
  Item,
  Kind,             \* item -> "deployment", "statefulset", "daemonset", "job" or "pod"
  Container, Resource,
  Templates,        \* the templates an item may have
  Replicas,         \* the replicas its specification may ask for
  Unset,            \* the specification does not say
  Recommendations,  \* the answers the service may give
  Node, InstanceType,
  TypeOf,           \* node -> its instance type, or NoType
  NoType,
  Costs, NoCost     \* what a node may cost, and a cost nobody knows yet

ASSUME ReportsAssumption ==
  /\ IsFiniteSet(Item) /\ IsFiniteSet(Container) /\ IsFiniteSet(Node)
  /\ \A t \in Templates : DOMAIN t \subseteq Container /\ t \in [DOMAIN t -> [Resource -> Nat]]
  /\ Recommendations \subseteq [Resource -> Nat]
  /\ Replicas \subseteq Nat /\ Unset \notin Replicas
  /\ Kind \in [Item -> {"deployment", "statefulset", "daemonset", "job", "pod"}]
  /\ TypeOf \in [Node -> InstanceType \cup {NoType}] /\ NoType \notin InstanceType
  /\ Costs \subseteq Nat /\ NoCost \notin Costs

VARIABLES
  template,   \* item -> container -> resource: the cluster's own, 0 when not configured
  replicas,   \* item -> what its specification says
  stored,     \* item -> the template the processor keeps
  resizing,   \* item -> the containers of the answer, with current and recommended
  shown,      \* item -> the change shown with it
  summary,    \* item -> its summary, for the items that have an answer
  simulated,  \* item -> the template the simulation was given
  cost,       \* node -> its cost
  table       \* the table as it was published last

reportVars == <<template, replicas, stored, resizing, shown, summary, simulated, cost, table>>

NoAnswer == [x \in {} |-> 0]

\* The sum of the values of a function.
Sum(f) == MapThenSumSet(LAMBDA x : f[x], DOMAIN f)

--------------------------------------------------------------------------------
(* An item.                                                                  *)

\* A quantity of zero is none.
Configured(i, c, r) == c \in DOMAIN stored[i] /\ stored[i][c][r] # 0

\* What a specification that does not say means.
SetOrOne(n) == IF n = Unset THEN 1 ELSE n

Change(i, c, r) == resizing'[i][c].recommended[r] - resizing'[i][c].current[r]

\* The change shown with an item counts every container of the answer.
ItemChange(i, count) ==
  [r \in Resource |-> count * Sum([c \in DOMAIN resizing'[i] |-> Change(i, c, r)])]

\* The summary counts what the template configures, and nets it over the containers.
ItemSummary(i, count) ==
  LET counted(r) == {c \in DOMAIN resizing'[i] : Configured(i, c, r)}
      change(r)  == Sum([c \in counted(r) |-> Change(i, c, r)])
  IN  [replicas |-> count,
       down  |-> [r \in Resource |-> Min({0, change(r)})],
       up    |-> [r \in Resource |-> Max({0, change(r)})],
       total |-> [r \in Resource |-> Sum([c \in counted(r) |-> resizing'[i][c].current[r]])]]

\* ResourceList.Cpu and Memory return a pointer to a copy of the quantity in the
\* map: setting it leaves in the map the empty quantity that was just put there.
SetThroughAccessor(quantity, value) == quantity

\* The copy that is simulated: containers with a recommendation get new lists.
RightSized(i) ==
  [c \in DOMAIN stored[i] |->
     IF c \in DOMAIN resizing'[i]
     THEN [r \in Resource |-> SetThroughAccessor(0, resizing'[i][c].recommended[r])]
     ELSE stored[i][c]]

\* Deviation: without the deep copy the containers are those of the stored item.
StoredAfterAliased(i) == RightSized(i)

\* The lists are replaced in a deep copy.
StoredAfter(i) == stored[i]

--------------------------------------------------------------------------------
(* The aggregate and the table.                                              *)

\* Deviation: the totals are those of one replica.
AggregatedTotalOfOne(s, r) == Sum([i \in DOMAIN s |-> s[i].total[r]])

AggregatedTotal(s, r) == Sum([i \in DOMAIN s |-> s[i].total[r] * s[i].replicas])

AggregatedChange(s, r) == Sum([i \in DOMAIN s |-> (s[i].up[r] + s[i].down[r]) * s[i].replicas])

Diff(nodes, remove) == nodes \ remove

\* How many of each type; nodes without a type are not counted.
NodeList(nodes) == [t \in InstanceType |-> Cardinality({n \in nodes : TypeOf[n] = t})]

KnownCost(nodes) == Sum([n \in {n \in nodes : cost[n] # NoCost} |-> cost[n]])
HasCost == \E n \in Node : cost[n] # NoCost

\* The cost of a node is looked up in the cluster, by its name.
ReducedCost(removable) == KnownCost(removable)

\* Rows of resources; when there are nodes a row of them, and one of their cost
\* when any cost is known.
SummaryTable(s, removable) ==
  [total       |-> [r \in Resource |-> AggregatedTotal(s, r)],
   change      |-> [r \in Resource |-> AggregatedChange(s, r)],
   recommended |-> [r \in Resource |-> AggregatedTotal(s, r) + AggregatedChange(s, r)],
   nodes       |-> NodeList(Node),
   nodesAfter  |-> NodeList(Diff(Node, removable)),
   removed     |-> NodeList(removable),
   hasCost     |-> HasCost,
   cost        |-> KnownCost(Node),
   costAfter   |-> KnownCost(Node) - ReducedCost(removable),
   removable   |-> removable,
   costs       |-> cost]

--------------------------------------------------------------------------------
ReportsInit ==
  /\ template \in [Item -> Templates]
  /\ replicas \in [Item -> Replicas \cup {Unset}]
  /\ \A i \in Item : Kind[i] = "daemonset" => replicas[i] # Unset
  /\ \A i \in Item : Kind[i] = "pod" => replicas[i] = Unset
  /\ stored = template
  /\ resizing = [i \in Item |-> NoAnswer]
  /\ shown = [i \in Item |-> [r \in Resource |-> 0]]
  /\ summary = NoAnswer
  /\ simulated = NoAnswer
  /\ cost = [n \in Node |-> NoCost]
  /\ table = SummaryTable(NoAnswer, {})

HasAnswer(i) == resizing'[i] # NoAnswer

\* The summary and the simulation are brought up to date for an item that has an
\* answer; the table is published in any case, and names the nodes this update
\* found removable: none without an answer or when the simulation fails.
UpdateSummary(i, count) ==
  IF HasAnswer(i)
  THEN /\ summary' = [j \in DOMAIN summary \cup {i} |->
                        IF j = i THEN ItemSummary(i, count) ELSE summary[j]]
       /\ simulated' = [j \in DOMAIN simulated \cup {i} |->
                          IF j = i THEN RightSized(i) ELSE simulated[j]]
       /\ stored' = [stored EXCEPT ![i] = StoredAfter(i)]
       /\ \E removable \in SUBSET Node : table' = SummaryTable(summary', removable)
  ELSE /\ UNCHANGED <<summary, simulated, stored>>
       /\ table' = SummaryTable(summary', {})

\* An item is listed.
List(i, count) ==
  /\ resizing[i] = NoAnswer
  /\ UNCHANGED <<template, replicas, resizing, shown, cost>>
  /\ UpdateSummary(i, count)

\* The service answers for the containers it was asked about, or for some of them;
\* what is shown with the item and the summary are brought up to date.
Optimize(i, count) ==
  /\ \E some \in (SUBSET DOMAIN stored[i]) \ {{}} : \E answer \in [some -> Recommendations] :
       resizing' = [resizing EXCEPT ![i] =
         [c \in some |-> [current |-> stored[i][c], recommended |-> answer[c]]]]
  /\ shown' = [shown EXCEPT ![i] = ItemChange(i, count)]
  /\ UpdateSummary(i, count)
  /\ UNCHANGED <<template, replicas, cost>>

\* The five kinds: how many replicas an item stands for.
ListDeployment(i)  == Kind[i] = "deployment"  /\ List(i, SetOrOne(replicas[i]))
ListStatefulSet(i) == Kind[i] = "statefulset" /\ List(i, SetOrOne(replicas[i]))
ListDaemonSet(i)   == Kind[i] = "daemonset"   /\ List(i, replicas[i])
ListJob(i)         == Kind[i] = "job"         /\ List(i, SetOrOne(replicas[i]))
ListPod(i)         == Kind[i] = "pod"         /\ List(i, 1)

OptimizeDaemonSet(i) == Kind[i] = "daemonset" /\ Optimize(i, replicas[i])

OptimizeDeployment(i)  == Kind[i] = "deployment"  /\ Optimize(i, SetOrOne(replicas[i]))
OptimizeStatefulSet(i) == Kind[i] = "statefulset" /\ Optimize(i, SetOrOne(replicas[i]))
OptimizeJob(i)         == Kind[i] = "job"         /\ Optimize(i, SetOrOne(replicas[i]))
OptimizePod(i)         == Kind[i] = "pod"         /\ Optimize(i, 1)

\* The cost of a node arrives.
NodeCost ==
  \E n \in Node, v \in Costs :
    /\ cost[n] = NoCost
    /\ cost' = [cost EXCEPT ![n] = v]
    /\ UNCHANGED <<template, replicas, stored, resizing, shown, summary, simulated, table>>

ReportsNext ==
  \/ NodeCost
  \/ \E i \in Item :
       \/ ListDeployment(i) \/ ListStatefulSet(i) \/ ListDaemonSet(i) \/ ListJob(i) \/ ListPod(i)
       \/ OptimizeDeployment(i) \/ OptimizeStatefulSet(i) \/ OptimizeDaemonSet(i)
       \/ OptimizeJob(i) \/ OptimizePod(i)

ReportsSpec == ReportsInit /\ [][ReportsNext]_reportVars

--------------------------------------------------------------------------------
(* The export of the pods' processor.                                        *)

Pods == {i \in DOMAIN summary : Kind[i] = "pod"}

\* One row for each container; the change is taken from the container's own quantity.
ExportedChange(i, c, r) == resizing[i][c].recommended[r] - stored[i][c][r]

CsvRow(i, c) ==
  [pod |-> i, container |-> c,
   change |-> [r \in {r \in Resource : c \in DOMAIN resizing[i] /\ stored[i][c][r] # 0} |->
                 ExportedChange(i, c, r)]]

ExportCsv == UNION {{CsvRow(i, c) : c \in DOMAIN stored[i]} : i \in Pods}

--------------------------------------------------------------------------------
(* Properties.                                                               *)

\* Every value has its type, and only items with an answer have a summary
\* (deployment.go:101).
ReportsTypeOK ==
  /\ template \in [Item -> Templates] /\ replicas \in [Item -> Replicas \cup {Unset}]
  /\ DOMAIN summary \subseteq {i \in Item : resizing[i] # NoAnswer}
  /\ \A i \in DOMAIN summary : \A r \in Resource :
       summary[i].down[r] <= 0 /\ summary[i].up[r] >= 0 /\ summary[i].total[r] >= 0
  /\ cost \in [Node -> Costs \cup {NoCost}]
  /\ table.removable \subseteq Node

\* However often an item is optimized, the processor still has the template of
\* the cluster: the right-sized copy shares nothing with it, or the next summary
\* would compare the recommendation with itself (deployment.go:166).
TemplateIsKept == stored = template

\* The quantities of an item as the cluster has them.
CountedIn(i, r) == {c \in DOMAIN resizing[i] : template[i][c][r] # 0}

\* A pod for each replica; one where the cluster does not say how many.
Pieces(i) == IF replicas[i] = Unset THEN 1 ELSE replicas[i]

\* The table's recommended column is, over all items with an answer and all their
\* replicas, the sum of what is recommended where something is configured
\* (summary.go:80).
TableSumsRecommendations ==
  \A r \in Resource :
    table.recommended[r] =
      Sum([i \in DOMAIN summary |->
             Pieces(i) * Sum([c \in CountedIn(i, r) |-> resizing[i][c].recommended[r]])])

\* The change shown with an item whose template configures everything is the one
\* its summary brings into the table (deployment_item.go:202, deployment.go:117).
ItemAgreesWithSummary ==
  \A i \in DOMAIN summary : \A r \in Resource :
    CountedIn(i, r) = DOMAIN resizing[i] =>
      shown[i][r] = (summary[i].up[r] + summary[i].down[r]) * summary[i].replicas

\* A column whose total is zero has no change, so that its percentage is not
\* infinite (summary.go:110).
NoChangeOfNothing == \A r \in Resource : table.total[r] = 0 => table.change[r] = 0

\* The nodes that stay and those that are removed are the nodes, type by type,
\* and the cost that is left is the cost of those that stay (summary.go:278, :157).
NodesAddUp ==
  LET stay == Node \ table.removable
      known == {n \in stay : table.costs[n] # NoCost}
  IN  /\ \A t \in InstanceType : table.nodesAfter[t] + table.removed[t] = table.nodes[t]
      /\ table.costAfter = Sum([n \in known |-> table.costs[n]])

\* The exported changes of the pods sum to the changes of their summaries
\* (pods/pod.go:162, :242).
CsvAgreesWithSummary ==
  \A r \in Resource :
    LET rows == {row \in ExportCsv : r \in DOMAIN row.change}
    IN  Sum([row \in rows |-> row.change[r]]) = Sum([i \in Pods |-> summary[i].up[r] + summary[i].down[r]])

\* The table is right after any sequence of listings and answers: it sums what is
\* recommended, without a change where there is nothing to change, and its nodes
\* and their cost add up (summary.go:80-278).
TableAddsUp == ReportsTypeOK /\ TableSumsRecommendations /\ NoChangeOfNothing /\ NodesAddUp

\* The reports tell one story: the template of the cluster outlives the answers, and
\* what is shown with an item, its summary and its exported rows are the same
\* change (deployment.go:101-189, pods/pod.go:162).
ReportsAgree == TemplateIsKept /\ ItemAgreesWithSummary /\ CsvAgreesWithSummary

\* "Removable Nodes after implementing Optimization" (summary.go:191): the pods
\* that are simulated ask for what is recommended.
\* TLC refutes it: the copies ask for nothing.
RecommendationsAreSimulated ==
  \A i \in DOMAIN simulated : \A c \in DOMAIN resizing[i] :
    simulated[i][c] = resizing[i][c].recommended
================================================================================
