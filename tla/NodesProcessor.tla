----------------------------- MODULE NodesProcessor -----------------------------
(***************************************************************************)
(* plugin/processor/nodes: the nodes of the cluster, listed by one job and *)
(* priced by a job for each, and the barrier (nodesReady) every reader     *)
(* waits at.  The readers are the constructors of the other processors, on *)
(* the goroutine of StartProcess, and their jobs, on the same few workers  *)
(* that must run the listing.                                              *)
(***************************************************************************)
EXTENDS Integers, Sequences, FiniteSets, SequencesExt

CONSTANTS
  Worker,    \* the workers of the job queue
  Node,      \* the nodes of the cluster
  Managed,   \* those with a label of EKS, AKS or GKE
  Readers,   \* how many jobs that read the nodes the pods' processor has
  MaxRetry   \* retries of a cost job (5 in the code)

ASSUME NodesAssumption ==
  /\ Managed \subseteq Node /\ Node # {}
  /\ Readers \in Nat /\ MaxRetry \in Nat

VARIABLES
  items,       \* p.items: the nodes that are stored; their costs
  nodesReady,  \* the counter of the wait group
  queue,       \* the job queue, a channel
  work,        \* worker -> the job it runs and its local variables
  main,        \* StartProcess: where it is
  copies,      \* the lists GetKubernetesNodes has returned
  failed,      \* history: the listing failed
  unpriced     \* history: nodes whose cost job ended without a cost

vars == <<items, nodesReady, queue, work, main, copies, failed, unpriced>>

Item   == [stored : BOOLEAN, skipped : BOOLEAN, cost : BOOLEAN]
NoItem == [stored |-> FALSE, skipped |-> FALSE, cost |-> FALSE]

Job == [kind : {"list", "read"}, of : {"all"}, tries : {0}]
         \cup [kind : {"cost"}, of : Node, tries : 0..MaxRetry]
NewJob(kind, of) == [kind |-> kind, of |-> of, tries |-> 0]

Idle == [stage |-> "free", job |-> NewJob("list", "all"), item |-> NoItem, rest |-> {}]

Init ==
  /\ items = [n \in Node |-> NoItem]
  /\ nodesReady = 0 /\ queue = <<>>
  /\ work = [w \in Worker |-> Idle]
  /\ main = "nodes"
  /\ copies = {} /\ failed = FALSE /\ unpriced = {}

--------------------------------------------------------------------------------
(* StartProcess.                                                             *)

\* Deviation: the pods' processor is made first.
NewProcessorLast ==
  \/ /\ main = "nodes"
     /\ queue' = queue \o [r \in 1..Readers |-> NewJob("read", "all")]
     /\ nodesReady' = 1 /\ main' = "late"
     /\ UNCHANGED <<items, work, copies, failed, unpriced>>
  \/ /\ main = "late"
     /\ queue' = Append(queue, NewJob("list", "all")) /\ main' = "construct"
     /\ UNCHANGED <<items, nodesReady, work, copies, failed, unpriced>>

\* The barrier is closed, then the listing is pushed.  The command for pods goes on with
\* their processor, any other makes first a processor that needs the nodes.
NewProcessor ==
  /\ main = "nodes"
  /\ nodesReady' = nodesReady + 1
  /\ queue' = Append(queue, NewJob("list", "all"))
  /\ main' \in {"construct", "pods"}
  /\ UNCHANGED <<items, work, copies, failed, unpriced>>

\* What GetKubernetesNodes returns: the stored nodes, with the costs known by now.
GetKubernetesNodes == [names |-> {n \in Node : items[n].stored},
                       costs |-> {n \in Node : items[n].cost}]

\* The constructors of the deployments, stateful sets, daemon sets and jobs wait.
ConstructWaiting ==
  /\ main = "construct" /\ nodesReady = 0
  /\ copies' = copies \cup {GetKubernetesNodes}
  /\ main' = "pods"
  /\ UNCHANGED <<items, nodesReady, queue, work, failed, unpriced>>

\* The constructor of the pods' processor does not wait: the jobs do.
ConstructPods ==
  /\ main = "pods"
  /\ queue' = queue \o [r \in 1..Readers |-> NewJob("read", "all")]
  /\ main' = "done"
  /\ UNCHANGED <<items, nodesReady, work, copies, failed, unpriced>>

--------------------------------------------------------------------------------
(* The workers.                                                              *)

\* A job is taken; a cost job begins with reading its item.
Take(w) ==
  /\ work[w].stage = "free" /\ queue # <<>>
  /\ queue' = Tail(queue)
  /\ LET j == Head(queue)
     IN  work' = [work EXCEPT ![w] = [Idle EXCEPT !.stage = j.kind, !.job = j,
                                        !.item = IF j.kind = "cost" THEN items[j.of] ELSE NoItem]]
  /\ UNCHANGED <<items, nodesReady, main, copies, failed, unpriced>>

\* The listing fails; the deferred Done opens the barrier all the same.
ListAllNodesFails(w) ==
  /\ work[w].stage = "list"
  /\ work' = [work EXCEPT ![w] = Idle]
  /\ nodesReady' = nodesReady - 1 /\ failed' = TRUE
  /\ UNCHANGED <<items, queue, main, copies, unpriced>>

ListAllNodes(w) ==
  /\ work[w].stage = "list"
  /\ work' = [work EXCEPT ![w].stage = "each", ![w].rest = Node]
  /\ UNCHANGED <<items, nodesReady, queue, main, copies, failed, unpriced>>

\* items.Set of the next node of the listing.
StoreNode(w, n) ==
  /\ work[w].stage = "each" /\ n \in work[w].rest
  /\ items' = [items EXCEPT ![n] = [NoItem EXCEPT !.stored = TRUE]]
  /\ work' = [work EXCEPT ![w].stage = "push", ![w].job.of = n]
  /\ UNCHANGED <<nodesReady, queue, main, copies, failed, unpriced>>

\* Deviation: the node is stored once more in every case.
PushCostAndStore(w) ==
  LET n == work[w].job.of
  IN  /\ work[w].stage = "push"
      /\ IF n \in Managed \cap work[w].rest
         THEN /\ queue' = Append(queue, NewJob("cost", n))
              /\ work' = [work EXCEPT ![w].rest = @ \ {n}] /\ UNCHANGED items
         ELSE /\ items' = [items EXCEPT ![n] = [NoItem EXCEPT !.stored = TRUE, !.skipped = n \notin Managed]]
              /\ work' = [work EXCEPT ![w].stage = "each", ![w].rest = @ \ {n}] /\ UNCHANGED queue
      /\ UNCHANGED <<nodesReady, main, copies, failed, unpriced>>

\* A node of a managed cluster gets a cost job, any other is stored again as skipped.
PushCost(w) ==
  LET n == work[w].job.of
  IN  /\ work[w].stage = "push"
      /\ IF n \in Managed
         THEN queue' = Append(queue, NewJob("cost", n)) /\ UNCHANGED items
         ELSE items' = [items EXCEPT ![n].skipped = TRUE] /\ UNCHANGED queue
      /\ work' = [work EXCEPT ![w].stage = "each", ![w].rest = @ \ {n}]
      /\ UNCHANGED <<nodesReady, main, copies, failed, unpriced>>

\* Deviation: done as soon as the listing arrived.
ListDoneEarly(w) ==
  /\ work[w].stage = "each"
  /\ IF work[w].rest = Node
     THEN nodesReady' = nodesReady - 1 /\ UNCHANGED work
     ELSE work[w].rest = {} /\ work' = [work EXCEPT ![w] = Idle] /\ UNCHANGED nodesReady
  /\ UNCHANGED <<items, queue, main, copies, failed, unpriced>>

\* The deferred Done.
ListDone(w) ==
  /\ work[w].stage = "each" /\ work[w].rest = {}
  /\ nodesReady' = nodesReady - 1
  /\ work' = [work EXCEPT ![w] = Idle]
  /\ UNCHANGED <<items, queue, main, copies, failed, unpriced>>

\* The server knows no price (InvalidArgument): the job ends without one.
CostUnknown(w) ==
  /\ work[w].stage = "cost"
  /\ work' = [work EXCEPT ![w] = Idle]
  /\ unpriced' = unpriced \cup {work[w].job.of}
  /\ UNCHANGED <<items, nodesReady, queue, main, copies, failed>>

\* The call fails, or the node is not found: again, up to MaxRetry times.
CostFails(w) ==
  /\ work[w].stage = "cost"
  /\ work' = [work EXCEPT ![w] = Idle]
  /\ IF work[w].job.tries < MaxRetry
     THEN queue' = Append(queue, [work[w].job EXCEPT !.tries = @ + 1]) /\ UNCHANGED unpriced
     ELSE unpriced' = unpriced \cup {work[w].job.of} /\ UNCHANGED queue
  /\ UNCHANGED <<items, nodesReady, main, copies, failed>>

\* The copy that was read is stored, with its cost.
GetNodeCost(w) ==
  /\ work[w].stage = "cost" /\ work[w].item.stored
  /\ items' = [items EXCEPT ![work[w].job.of] = [work[w].item EXCEPT !.cost = TRUE]]
  /\ work' = [work EXCEPT ![w] = Idle]
  /\ UNCHANGED <<nodesReady, queue, main, copies, failed, unpriced>>

\* A job of another processor reads the nodes, once the barrier is open.
ReadNodes(w) ==
  /\ work[w].stage = "read" /\ nodesReady = 0
  /\ copies' = copies \cup {GetKubernetesNodes}
  /\ work' = [work EXCEPT ![w] = Idle]
  /\ UNCHANGED <<items, nodesReady, queue, main, failed, unpriced>>

--------------------------------------------------------------------------------

WorkerStep(w) ==
  \/ Take(w) \/ ListAllNodesFails(w) \/ ListAllNodes(w) \/ ListDone(w)
  \/ \E n \in Node : StoreNode(w, n)
  \/ PushCost(w) \/ CostUnknown(w) \/ CostFails(w) \/ GetNodeCost(w) \/ ReadNodes(w)

Constructing == NewProcessor \/ ConstructWaiting \/ ConstructPods

Next == Constructing \/ \E w \in Worker : WorkerStep(w)

Spec == Init /\ [][Next]_vars

\* StartProcess goes on, and so does every worker; calls may succeed or fail.
FairSpec == Spec /\ WF_vars(Constructing) /\ \A w \in Worker : WF_vars(WorkerStep(w))

--------------------------------------------------------------------------------
(* Properties.                                                               *)

\* The types of the state; the wait group never becomes negative, which would panic.
TypeOK ==
  /\ items \in [Node -> Item]
  /\ nodesReady \in {0, 1}
  /\ queue \in Seq(Job)
  /\ work \in [Worker -> [stage : {"free", "list", "each", "push", "cost", "read"},
                          job : [kind : {"list", "read", "cost"}, of : Node \cup {"all"}, tries : 0..MaxRetry],
                          item : Item, rest : SUBSET Node]]
  /\ copies \subseteq [names : SUBSET Node, costs : SUBSET Node]
  /\ unpriced \subseteq Node

\* Whoever asks for the nodes gets all of them, or none because the listing failed,
\* never those stored so far (and the state is well typed).
WholeListing == TypeOK /\ \A c \in copies : c.names = Node \/ (failed /\ c.names = {})

\* When no job is left, every node of a managed cluster has its cost, unless the server
\* did not tell it: no other write of the node has undone the cost job's.
CostsAreNotLost ==
  (main = "done" /\ queue = <<>> /\ ~failed /\ \A w \in Worker : work[w].stage = "free") =>
    \A n \in Managed : items[n].cost \/ n \in unpriced

\* Whoever waits at the barrier gets through it, although the listing needs one of the
\* workers that may be waiting.
ReadersProceed ==
  /\ main = "construct" ~> main # "construct"
  /\ \A w \in Worker : work[w].stage = "read" ~> work[w].stage # "read"

================================================================================
