-------------------------- MODULE NodesProcessorProofs --------------------------
(***************************************************************************)
(* For every number of workers, nodes, readers and retries: whoever asks   *)
(* for the nodes gets all of them or none, and no cost that the server     *)
(* told is lost.                                                           *)
(***************************************************************************)
EXTENDS NodesProcessor, SequenceTheorems, TLAPS

\* The worker lists the nodes.
Listing(w) == work[w].stage \in {"list", "each", "push"}

\* Job i of the queue is the listing, or the cost job of node n.
ListQueued(i)    == i \in 1..Len(queue) /\ queue[i].kind = "list"
CostQueued(i, n) == i \in 1..Len(queue) /\ queue[i].kind = "cost" /\ queue[i].of = n

NoneStored == \A n \in Node : ~items[n].stored

\* What a worker is at.
Task == [stage : {"free", "list", "each", "push", "cost", "read"},
         job : [kind : {"list", "read", "cost"}, of : Node \cup {"all"}, tries : 0..MaxRetry],
         item : Item, rest : SUBSET Node]

\* A worker that stores or prices a node is at a node.
Stages ==
  \A w \in Worker :
    /\ work[w].stage = "push" => work[w].job.of \in work[w].rest
    /\ work[w].stage = "cost" => work[w].job \in [kind : {"cost"}, of : Node, tries : 0..MaxRetry]

\* There is one listing, and the barrier is closed for as long as it waits or runs.
OneListing ==
  /\ \A i, j \in 1..Len(queue) : ListQueued(i) /\ ListQueued(j) => i = j
  /\ \A v, w \in Worker : Listing(v) /\ Listing(w) => v = w
  /\ \A w \in Worker, i \in 1..Len(queue) : ~(Listing(w) /\ ListQueued(i))
  /\ nodesReady = 1 <=> (\E i \in 1..Len(queue) : ListQueued(i)) \/ (\E w \in Worker : Listing(w))

\* What is stored: nothing before the listing arrives, then what it has passed, and in
\* the end everything; a node with a cost job is stored.
Stored ==
  /\ main = "nodes" => nodesReady = 0 /\ queue = <<>> /\ NoneStored
  /\ (\E i \in 1..Len(queue) : ListQueued(i)) => NoneStored
  /\ \A w \in Worker : work[w].stage = "list" => NoneStored
  /\ \A w \in Worker : work[w].stage \in {"each", "push"} => \A n \in Node \ work[w].rest : items[n].stored
  /\ \A w \in Worker : work[w].stage = "push" => items[work[w].job.of].stored
  /\ \A w \in Worker : work[w].stage = "cost" => items[work[w].job.of].stored /\ work[w].item.stored
  /\ \A i \in 1..Len(queue), n \in Node : CostQueued(i, n) => items[n].stored
  /\ nodesReady = 0 /\ main # "nodes" => (\A n \in Node : items[n].stored) \/ (failed /\ NoneStored)

\* Nobody has passed the barrier before the listing was over.
Barrier ==
  /\ main = "nodes" => \A w \in Worker : work[w].stage = "free"
  /\ main = "nodes" \/ nodesReady = 1 => copies = {} /\ ~failed
  /\ \A c \in copies : c.names = Node \/ (failed /\ c.names = {})

IInv == TypeOK /\ Stages /\ OneListing /\ Stored /\ Barrier

--------------------------------------------------------------------------------
(* The queue.                                                                *)

\* A job is pushed.
LEMMA PushedJob ==
  ASSUME NEW q \in Seq(Job), NEW j \in Job
  PROVE  /\ Append(q, j) \in Seq(Job) /\ Len(q) \in Nat /\ Len(Append(q, j)) = Len(q) + 1
         /\ \A i \in 1..(Len(q) + 1) : Append(q, j)[i] = IF i <= Len(q) THEN q[i] ELSE j
BY AppendProperties, EmptySeq, LenProperties

\* A job is taken.
LEMMA TakenJob ==
  ASSUME NEW q \in Seq(Job), q # <<>>
  PROVE  /\ Head(q) \in Job /\ Head(q) = q[1] /\ Tail(q) \in Seq(Job)
         /\ Len(q) \in Nat /\ Len(q) >= 1 /\ Len(Tail(q)) = Len(q) - 1
         /\ \A i \in 1..Len(Tail(q)) : Tail(q)[i] = q[i + 1]
BY HeadTailProperties, EmptySeq, LenProperties

\* The jobs of the pods' processor are pushed.
LEMMA PushedReaders ==
  ASSUME NEW q \in Seq(Job)
  PROVE  LET r == [x \in 1..Readers |-> NewJob("read", "all")]
         IN  /\ q \o r \in Seq(Job) /\ Len(q) \in Nat /\ Len(q \o r) = Len(q) + Readers
             /\ \A i \in 1..(Len(q) + Readers) :
                  (q \o r)[i] = IF i <= Len(q) THEN q[i] ELSE NewJob("read", "all")
<1> DEFINE r == [x \in 1..Readers |-> NewJob("read", "all")]
<1>1. Readers \in Nat /\ NewJob("read", "all") \in Job
  BY NodesAssumption DEF NewJob, Job
<1>2. r \in Seq(Job) /\ Len(r) = Readers
  BY <1>1
<1>3. Len(q) \in Nat
  BY LenProperties
<1>4. QED
  BY <1>1, <1>2, <1>3, ConcatProperties

--------------------------------------------------------------------------------
(* Every step keeps the invariant.                                           *)

LEMMA InitIInv == Init => IInv
<1> SUFFICES ASSUME Init PROVE IInv
  OBVIOUS
<1>1. queue \in Seq(Job) /\ Len(queue) = 0
  BY EmptySeq DEF Init
<1>2. TypeOK
  BY <1>1, NodesAssumption DEF Init, TypeOK, Item, NoItem, Idle, NewJob
<1>3. Stages /\ OneListing /\ Stored /\ Barrier
  BY <1>1 DEF Init, Stages, OneListing, Stored, Barrier, Listing, ListQueued, CostQueued, NoneStored, Idle, NoItem
<1>4. QED
  BY <1>2, <1>3 DEF IInv

\* The listing is pushed behind an empty queue.
LEMMA NewProcessorStep == IInv /\ NewProcessor => IInv'
<1> SUFFICES ASSUME IInv, NewProcessor PROVE IInv'
  OBVIOUS
<1> USE DEF IInv
<1>1. NewJob("list", "all") \in Job
  BY DEF NewJob, Job
<1>2. /\ queue' \in Seq(Job) /\ Len(queue') = 1 /\ queue'[1] = NewJob("list", "all")
      /\ nodesReady' = 1 /\ main' # "nodes" /\ NoneStored
      /\ \A w \in Worker : work[w].stage = "free"
  BY <1>1 DEF NewProcessor, TypeOK, Stored, Barrier
<1>3. TypeOK'
  BY <1>2 DEF NewProcessor, TypeOK
<1>4. Stages'
  BY <1>2 DEF NewProcessor, Stages
<1>5. OneListing'
  BY <1>2 DEF NewProcessor, OneListing, Listing, ListQueued, NewJob
<1>6. Stored'
  BY <1>2 DEF NewProcessor, Stored, ListQueued, CostQueued, NoneStored, NewJob
<1>7. Barrier'
  BY <1>2 DEF NewProcessor, Barrier
<1>8. QED
  BY <1>3, <1>4, <1>5, <1>6, <1>7

LEMMA ConstructWaitingStep == IInv /\ ConstructWaiting => IInv'
<1> SUFFICES ASSUME IInv, ConstructWaiting PROVE IInv'
  OBVIOUS
<1> USE DEF IInv
<1>1. GetKubernetesNodes.names = Node \/ (failed /\ GetKubernetesNodes.names = {})
  BY DEF ConstructWaiting, Stored, NoneStored, GetKubernetesNodes
<1>2. GetKubernetesNodes \in [names : SUBSET Node, costs : SUBSET Node]
  BY DEF GetKubernetesNodes
<1>3. TypeOK'
  BY <1>2 DEF ConstructWaiting, TypeOK
<1>4. Stages' /\ OneListing' /\ Stored'
  BY DEF ConstructWaiting, Stages, OneListing, Listing, ListQueued, Stored, CostQueued, NoneStored
<1>5. Barrier'
  BY <1>1 DEF ConstructWaiting, Barrier
<1>6. QED
  BY <1>3, <1>4, <1>5

LEMMA ConstructPodsStep == IInv /\ ConstructPods => IInv'
<1> SUFFICES ASSUME IInv, ConstructPods PROVE IInv'
  OBVIOUS
<1> USE DEF IInv
<1>1. /\ queue \in Seq(Job) /\ Readers \in Nat /\ Len(queue) \in Nat /\ queue' \in Seq(Job)
      /\ Len(queue') = Len(queue) + Readers
      /\ \A i \in 1..(Len(queue) + Readers) :
           queue'[i] = IF i <= Len(queue) THEN queue[i] ELSE NewJob("read", "all")
  BY PushedReaders, NodesAssumption DEF ConstructPods, TypeOK
<1>2. \A i : ListQueued(i)' <=> ListQueued(i)
  BY <1>1 DEF ListQueued, NewJob
<1>3. \A i, n : CostQueued(i, n)' <=> CostQueued(i, n)
  BY <1>1 DEF CostQueued, NewJob
<1>4. TypeOK'
  BY <1>1 DEF ConstructPods, TypeOK
<1>5. Stages' /\ Barrier'
  BY DEF ConstructPods, Stages, Barrier
<1>6. OneListing'
  BY <1>1, <1>2 DEF ConstructPods, OneListing, Listing, ListQueued
<1>7. Stored'
  <2>1. (\E i \in 1..Len(queue') : ListQueued(i)') => NoneStored
    BY <1>2 DEF Stored, ListQueued
  <2>2. \A i \in 1..Len(queue'), n \in Node : CostQueued(i, n)' => items[n].stored
    BY <1>3 DEF Stored, CostQueued
  <2>3. QED
    BY <2>1, <2>2 DEF ConstructPods, Stored, NoneStored
<1>8. QED
  BY <1>4, <1>5, <1>6, <1>7

\* A job is taken from the queue: the listing goes on as a worker's, a cost job with
\* the node it read.
LEMMA TakeStep == ASSUME IInv, NEW w \in Worker, Take(w) PROVE IInv'
<1> USE DEF IInv
<1>1. /\ queue \in Seq(Job) /\ queue # <<>> /\ queue' = Tail(queue) /\ work[w].stage = "free"
      /\ work \in [Worker -> [stage : {"free", "list", "each", "push", "cost", "read"},
                              job : [kind : {"list", "read", "cost"}, of : Node \cup {"all"}, tries : 0..MaxRetry],
                              item : Item, rest : SUBSET Node]]
  BY DEF Take, TypeOK
<1>2. /\ Head(queue) \in Job /\ Head(queue) = queue[1] /\ queue' \in Seq(Job)
      /\ Len(queue) \in Nat /\ Len(queue) >= 1 /\ Len(queue') = Len(queue) - 1
      /\ \A i \in 1..Len(queue') : queue'[i] = queue[i + 1] /\ i + 1 \in 1..Len(queue)
  BY <1>1, TakenJob
<1> DEFINE j == Head(queue)
<1>3. /\ work'[w].stage = j.kind /\ work'[w].job = j /\ work'[w].rest = {}
      /\ work'[w].item = IF j.kind = "cost" THEN items[j.of] ELSE NoItem
      /\ \A v \in Worker \ {w} : work'[v] = work[v]
  BY <1>1 DEF Take, Idle
<1>4. /\ j.kind \in {"list", "read", "cost"}
      /\ j.kind = "cost" => j \in [kind : {"cost"}, of : Node, tries : 0..MaxRetry]
      /\ j \in [kind : {"list", "read", "cost"}, of : Node \cup {"all"}, tries : 0..MaxRetry]
  BY <1>2, NodesAssumption DEF Job
<1>5. TypeOK'
  <2>1. work' \in [Worker -> [stage : {"free", "list", "each", "push", "cost", "read"},
                              job : [kind : {"list", "read", "cost"}, of : Node \cup {"all"}, tries : 0..MaxRetry],
                              item : Item, rest : SUBSET Node]]
    BY <1>1, <1>4 DEF Take, TypeOK, Idle, NoItem, Item, NewJob
  <2>2. QED
    BY <1>2, <2>1 DEF Take, TypeOK
<1>6. Stages'
  BY <1>3, <1>4 DEF Stages
<1>7. 1 \in 1..Len(queue) /\ queue[1] = j
  BY <1>2
<1>8. \A i \in 1..Len(queue') : ListQueued(i)' <=> ListQueued(i + 1)
  BY <1>2 DEF ListQueued
<1>9. \A n : \A i \in 1..Len(queue') : CostQueued(i, n)' <=> CostQueued(i + 1, n)
  BY <1>2 DEF CostQueued
<1>10. /\ Listing(w)' <=> ListQueued(1)
       /\ ~Listing(w)
       /\ \A v \in Worker \ {w} : Listing(v)' <=> Listing(v)
  BY <1>1, <1>3, <1>4, <1>7 DEF Listing, ListQueued
<1>11. (\E i \in 1..Len(queue) : ListQueued(i)) <=> ListQueued(1) \/ \E i \in 1..Len(queue') : ListQueued(i + 1)
  <2>1. \A i \in 1..Len(queue) : i = 1 \/ (i - 1 \in 1..Len(queue') /\ (i - 1) + 1 = i)
    BY <1>2
  <2>2. QED
    BY <1>2, <1>7, <2>1
<1>12. OneListing'
  <2>1. \A i \in 1..Len(queue') : i + 1 \in 1..Len(queue) /\ i + 1 # 1
    BY <1>2
  <2>2. ASSUME NEW a \in 1..Len(queue'), NEW b \in 1..Len(queue'), ListQueued(a)', ListQueued(b)' PROVE a = b
    BY <1>2, <1>8, <2>1, <2>2 DEF OneListing
  <2>3. ASSUME NEW u \in Worker, NEW v \in Worker, Listing(u)', Listing(v)' PROVE u = v
    BY <1>7, <1>10, <2>3 DEF OneListing
  <2>4. ASSUME NEW v \in Worker, NEW i \in 1..Len(queue'), Listing(v)', ListQueued(i)' PROVE FALSE
    BY <1>7, <1>8, <1>10, <2>1, <2>4 DEF OneListing
  <2>5. nodesReady' = nodesReady
    BY DEF Take
  <2>6. nodesReady' = 1 <=> (\E i \in 1..Len(queue') : ListQueued(i)') \/ (\E v \in Worker : Listing(v)')
    BY <1>8, <1>10, <1>11, <2>5 DEF OneListing
  <2>7. QED
    BY <2>2, <2>3, <2>4, <2>6 DEF OneListing
<1>13. Stored'
  <2>1. /\ items' = items /\ main' = main /\ nodesReady' = nodesReady /\ failed' = failed /\ main # "nodes"
    BY <1>1 DEF Take, Stored
  <2>2. (\E i \in 1..Len(queue') : ListQueued(i)') => NoneStored
    BY <1>8, <1>11 DEF Stored
  <2>3. ASSUME NEW v \in Worker, work'[v].stage = "list" PROVE NoneStored
    <3>1. CASE v = w
      BY <1>3, <1>7, <2>3, <3>1 DEF Stored, ListQueued
    <3>2. CASE v # w
      BY <1>3, <2>3, <3>2 DEF Stored
    <3>3. QED
      BY <3>1, <3>2
  <2>4. ASSUME NEW v \in Worker, work'[v].stage \in {"each", "push"}, NEW n \in Node \ work'[v].rest
        PROVE  items[n].stored
    BY <1>3, <1>4, <2>4 DEF Stored
  <2>5. ASSUME NEW v \in Worker, work'[v].stage = "cost"
        PROVE  items[work'[v].job.of].stored /\ work'[v].item.stored
    BY <1>3, <1>4, <1>7, <2>5 DEF Stored, CostQueued
  <2>6. ASSUME NEW i \in 1..Len(queue'), NEW n \in Node, CostQueued(i, n)' PROVE items[n].stored
    BY <1>2, <1>9, <2>6 DEF Stored
  <2>7. \A v \in Worker : work'[v].stage # "push" \/ (v # w /\ work'[v] = work[v])
    BY <1>3, <1>4
  <2>8. QED
    BY <2>1, <2>2, <2>3, <2>4, <2>5, <2>6, <2>7 DEF Stored, NoneStored
<1>14. Barrier'
  BY <1>1 DEF Take, Barrier, Stored
<1>15. QED
  BY <1>5, <1>6, <1>12, <1>13, <1>14

\* The listing fails: the barrier opens, nothing is stored.
LEMMA ListAllNodesFailsStep == ASSUME IInv, NEW w \in Worker, ListAllNodesFails(w) PROVE IInv'
<1> USE DEF IInv
<1>1. /\ work[w].stage = "list" /\ nodesReady = 1 /\ nodesReady' = 0 /\ NoneStored
      /\ ~\E i \in 1..Len(queue) : ListQueued(i)
      /\ \A v \in Worker \ {w} : ~Listing(v)
  BY DEF ListAllNodesFails, OneListing, Listing, Stored
<1>2. /\ work'[w] = Idle /\ Idle.stage = "free" /\ queue' = queue /\ items' = items
      /\ \A v \in Worker \ {w} : work'[v] = work[v]
  BY DEF ListAllNodesFails, TypeOK, Idle
<1>3. TypeOK'
  BY <1>1, NodesAssumption DEF ListAllNodesFails, TypeOK, Idle, NewJob, NoItem, Item
<1>4. Stages'
  BY <1>2 DEF Stages
<1>5. OneListing'
  BY <1>1, <1>2 DEF OneListing, Listing, ListQueued
<1>6. Stored'
  <2>1. failed' = TRUE /\ main' = main /\ main # "nodes"
    BY <1>1 DEF ListAllNodesFails, Stored
  <2>2. NoneStored'
    BY <1>1, <1>2 DEF NoneStored
  <2>3. QED
    BY <1>1, <1>2, <2>1, <2>2 DEF Stored, CostQueued, ListQueued
<1>7. Barrier'
  BY <1>1, <1>2 DEF ListAllNodesFails, Barrier
<1>8. QED
  BY <1>3, <1>4, <1>5, <1>6, <1>7

LEMMA ListAllNodesStep == ASSUME IInv, NEW w \in Worker, ListAllNodes(w) PROVE IInv'
<1> USE DEF IInv
<1>1. /\ work[w].stage = "list" /\ queue' = queue /\ items' = items
      /\ work' = [work EXCEPT ![w] = [[@ EXCEPT !.stage = "each"] EXCEPT !.rest = Node]]
      /\ work'[w].stage = "each" /\ work'[w].rest = Node
      /\ \A v \in Worker \ {w} : work'[v] = work[v]
  BY DEF ListAllNodes, TypeOK
<1>2. TypeOK'
  BY <1>1 DEF ListAllNodes, TypeOK
<1>3. Stages'
  BY <1>1 DEF Stages
<1>4. \A v \in Worker : Listing(v)' <=> Listing(v)
  BY <1>1 DEF Listing
<1>5. OneListing'
  BY <1>1, <1>4 DEF ListAllNodes, OneListing, ListQueued
<1>6. Stored'
  <2>1. \A v \in Worker \ {w} : ~Listing(v)
    BY <1>1 DEF OneListing, Listing
  <2>2. ~\E i \in 1..Len(queue) : ListQueued(i)
    BY <1>1 DEF OneListing, Listing
  <2>3. main' = main /\ main # "nodes" /\ nodesReady' = nodesReady /\ failed' = failed
    BY <1>1 DEF ListAllNodes, Barrier
  <2>4. \A i \in 1..Len(queue'), n \in Node : CostQueued(i, n)' => items'[n].stored
    BY <1>1 DEF Stored, CostQueued
  <2>5. \A v \in Worker : work'[v].stage = "cost" => items'[work'[v].job.of].stored /\ work'[v].item.stored
    BY <1>1 DEF Stored
  <2>6. nodesReady' = 0 => (\A n \in Node : items'[n].stored) \/ (failed' /\ NoneStored')
    BY <1>1, <2>3 DEF Stored, NoneStored
  <2>7. QED
    BY <1>1, <2>1, <2>2, <2>3, <2>4, <2>5, <2>6 DEF Stored, Listing, ListQueued
<1>7. Barrier'
  BY <1>1 DEF ListAllNodes, Barrier
<1>8. QED
  BY <1>2, <1>3, <1>5, <1>6, <1>7

LEMMA StoreNodeStep == ASSUME IInv, NEW w \in Worker, NEW n \in Node, StoreNode(w, n) PROVE IInv'
<1> USE DEF IInv
<1>1. /\ work[w].stage = "each" /\ n \in work[w].rest /\ queue' = queue
      /\ work'[w].stage = "push" /\ work'[w].job.of = n /\ work'[w].rest = work[w].rest
      /\ \A v \in Worker \ {w} : work'[v] = work[v]
  BY DEF StoreNode, TypeOK
<1>2. /\ items'[n].stored
      /\ \A m \in Node : items[m].stored => items'[m].stored
      /\ items' \in [Node -> Item]
  BY DEF StoreNode, TypeOK, NoItem, Item
<1>3. /\ nodesReady = 1 /\ ~\E i \in 1..Len(queue) : ListQueued(i)
      /\ \A v \in Worker \ {w} : ~Listing(v)
  BY <1>1 DEF OneListing, Listing
<1>4. TypeOK'
  <2>1. PICK x \in [Worker -> Task] : x = [work EXCEPT ![w].stage = "push"]
    BY DEF TypeOK, Task
  <2>2. work' = [x EXCEPT ![w].job.of = n]
    BY <2>1 DEF StoreNode
  <2>3. [x[w] EXCEPT !.job.of = n] \in Task
    BY DEF Task
  <2>4. work' \in [Worker -> Task]
    BY <2>2, <2>3
  <2>5. QED
    BY <1>2, <2>4 DEF StoreNode, TypeOK, Task
<1>5. Stages'
  BY <1>1 DEF Stages
<1>6. OneListing'
  <2>1. \A v \in Worker : Listing(v)' <=> Listing(v)
    BY <1>1 DEF Listing
  <2>2. QED
    BY <1>1, <2>1 DEF StoreNode, OneListing, ListQueued
<1>7. Stored'
  <2>1. main' = main /\ nodesReady' = 1 /\ main # "nodes"
    BY <1>3 DEF StoreNode, Stored
  <2>2. \A i \in 1..Len(queue'), m \in Node : CostQueued(i, m)' => items'[m].stored
    BY <1>1, <1>2 DEF Stored, CostQueued
  <2>3. \A v \in Worker : work'[v].stage = "cost" => items'[work'[v].job.of].stored /\ work'[v].item.stored
    BY <1>1, <1>2 DEF Stored, Stages
  <2>4. \A v \in Worker :
          /\ work'[v].stage # "list"
          /\ work'[v].stage = "push" => v = w
          /\ work'[v].stage \in {"each", "push"} => \A m \in Node \ work'[v].rest : items'[m].stored
    BY <1>1, <1>2, <1>3 DEF Stored, Listing
  <2>5. \A i \in 1..Len(queue') : ~ListQueued(i)'
    BY <1>1, <1>3 DEF ListQueued
  <2>6. ASSUME NEW v \in Worker, work'[v].stage = "push" PROVE items'[work'[v].job.of].stored
    <3>1. v = w
      BY <2>4, <2>6
    <3>2. QED
      BY <1>1, <1>2, <3>1
  <2>7. /\ \A v \in Worker : work'[v].stage # "list"
        /\ \A v \in Worker : work'[v].stage \in {"each", "push"} => \A m \in Node \ work'[v].rest : items'[m].stored
    BY <2>4
  <2>8. QED
    BY <2>1, <2>2, <2>3, <2>5, <2>6, <2>7 DEF Stored
<1>8. Barrier'
  BY <1>1, <1>3 DEF StoreNode, Barrier
<1>9. QED
  BY <1>4, <1>5, <1>6, <1>7, <1>8

\* The node's cost job is pushed, or the node is marked as skipped.
LEMMA PushCostStep == ASSUME IInv, NEW w \in Worker, PushCost(w) PROVE IInv'
<1> USE DEF IInv
<1> DEFINE n == work[w].job.of
<1>1. /\ work[w].stage = "push" /\ n \in work[w].rest /\ n \in Node
      /\ work'[w].stage = "each" /\ work'[w].rest = work[w].rest \ {n}
      /\ \A v \in Worker \ {w} : work'[v] = work[v]
  BY DEF PushCost, TypeOK, Stages
<1>2. /\ \A m \in Node : items'[m].stored = items[m].stored
      /\ items' \in [Node -> Item]
  <2>1. CASE UNCHANGED items
    BY <2>1 DEF TypeOK
  <2>2. CASE items' = [items EXCEPT ![n].skipped = TRUE]
    <3>1. items \in [Node -> [stored : BOOLEAN, skipped : BOOLEAN, cost : BOOLEAN]]
      BY DEF TypeOK, Item
    <3>2. items' \in [Node -> [stored : BOOLEAN, skipped : BOOLEAN, cost : BOOLEAN]]
      BY <2>2, <3>1
    <3>3. \A m \in Node : items'[m].stored = items[m].stored
      BY <2>2, <3>1
    <3>4. QED
      BY <3>2, <3>3 DEF Item
  <2>3. QED
    BY <2>1, <2>2 DEF PushCost
<1>3. /\ nodesReady = 1 /\ ~\E i \in 1..Len(queue) : ListQueued(i)
      /\ \A v \in Worker \ {w} : ~Listing(v)
  BY <1>1 DEF OneListing, Listing
<1>4. NewJob("cost", n) \in Job
  BY <1>1, NodesAssumption DEF NewJob, Job
<1>5. /\ queue' \in Seq(Job) /\ Len(queue) \in Nat
      /\ \A i \in 1..Len(queue') : (i \in 1..Len(queue) /\ queue'[i] = queue[i]) \/ queue'[i] = NewJob("cost", n)
  <2>1. queue \in Seq(Job) /\ Len(queue) \in Nat
    BY LenProperties DEF TypeOK
  <2>2. CASE UNCHANGED queue
    BY <2>1, <2>2
  <2>3. CASE queue' = Append(queue, NewJob("cost", n))
    BY <1>4, <2>1, <2>3, PushedJob
  <2>4. QED
    BY <2>2, <2>3 DEF PushCost
<1>6. \A i \in 1..Len(queue') : ~ListQueued(i)'
  BY <1>3, <1>5 DEF ListQueued, NewJob
<1>7. TypeOK'
  <2>1. PICK x \in [Worker -> Task] : x = [work EXCEPT ![w].stage = "each"]
    BY DEF TypeOK, Task
  <2>2. work' = [x EXCEPT ![w].rest = @ \ {n}]
    BY <2>1 DEF PushCost
  <2>3. [x[w] EXCEPT !.rest = @ \ {n}] \in Task
    BY DEF Task
  <2>4. work' \in [Worker -> Task]
    BY <2>2, <2>3
  <2>5. QED
    BY <1>2, <1>5, <2>4 DEF PushCost, TypeOK, Task
<1>8. Stages'
  BY <1>1 DEF Stages
<1>9. OneListing'
  <2>1. \A v \in Worker : Listing(v)' <=> Listing(v)
    BY <1>1 DEF Listing
  <2>2. nodesReady' = nodesReady
    BY DEF PushCost
  <2>3. QED
    BY <1>1, <1>3, <1>6, <2>1, <2>2 DEF OneListing, Listing
<1>10. items[n].stored
  BY <1>1 DEF Stored
<1>11. Stored'
  <2>1. main' = main /\ nodesReady' = 1 /\ main # "nodes"
    BY <1>3 DEF PushCost, Stored
  <2>2. ASSUME NEW i \in 1..Len(queue'), NEW m \in Node, CostQueued(i, m)' PROVE items'[m].stored
    BY <1>2, <1>5, <1>10, <2>2 DEF Stored, CostQueued, NewJob
  <2>3. ASSUME NEW v \in Worker, work'[v].stage \in {"each", "push"}, NEW m \in Node \ work'[v].rest
        PROVE  items'[m].stored
    BY <1>1, <1>2, <1>10, <2>3 DEF Stored
  <2>4. ASSUME NEW v \in Worker, work'[v].stage = "cost"
        PROVE  items'[work'[v].job.of].stored /\ work'[v].item.stored
    BY <1>1, <1>2, <2>4 DEF Stored, Stages
  <2>5. ASSUME NEW v \in Worker PROVE work'[v].stage # "list"
    BY <1>1, <1>3 DEF Listing
  <2>6. ASSUME NEW v \in Worker PROVE work'[v].stage # "push"
    BY <1>1, <1>3 DEF Listing
  <2>7. QED
    BY <1>6, <2>6, <2>1, <2>2, <2>3, <2>4, <2>5 DEF Stored
<1>12. Barrier'
  BY <1>1, <1>3 DEF PushCost, Barrier, Stored
<1>13. QED
  BY <1>7, <1>8, <1>9, <1>11, <1>12

\* The listing is over and everything is stored.
LEMMA ListDoneStep == ASSUME IInv, NEW w \in Worker, ListDone(w) PROVE IInv'
<1> USE DEF IInv
<1>1. /\ work[w].stage = "each" /\ work[w].rest = {} /\ nodesReady = 1 /\ nodesReady' = 0
      /\ ~\E i \in 1..Len(queue) : ListQueued(i)
      /\ \A v \in Worker \ {w} : ~Listing(v)
  BY DEF ListDone, OneListing, Listing
<1>2. /\ work'[w] = Idle /\ Idle.stage = "free" /\ queue' = queue /\ items' = items
      /\ \A v \in Worker \ {w} : work'[v] = work[v]
  BY DEF ListDone, TypeOK, Idle
<1>3. TypeOK'
  BY <1>1, NodesAssumption DEF ListDone, TypeOK, Idle, NewJob, NoItem, Item
<1>4. Stages'
  BY <1>2 DEF Stages
<1>5. OneListing'
  BY <1>1, <1>2 DEF OneListing, Listing, ListQueued
<1>6. Stored'
  BY <1>1, <1>2 DEF ListDone, Stored, CostQueued, ListQueued, Listing
<1>7. Barrier'
  BY <1>1, <1>2 DEF ListDone, Barrier
<1>8. QED
  BY <1>3, <1>4, <1>5, <1>6, <1>7

\* What a worker does that holds no listing, with queue and items for the conjuncts to
\* be shown.
LEMMA OtherStep ==
  ASSUME IInv, NEW w \in Worker, work[w].stage \in {"cost", "read"}, work' = [work EXCEPT ![w] = Idle],
         nodesReady' = nodesReady, main' = main, failed' = failed, TypeOK',
         \A m \in Node : items[m].stored => items'[m].stored,
         \A m \in Node : ~items[m].stored => ~items'[m].stored,
         \A i \in 1..Len(queue) : i \in 1..Len(queue') /\ queue'[i] = queue[i],
         \A i \in 1..Len(queue') :
           i \in 1..Len(queue) \/ (queue'[i].kind = "cost" /\ queue'[i].of \in Node /\ items[queue'[i].of].stored),
         \A c \in copies' \ copies : nodesReady = 0 /\ c.names = {n \in Node : items[n].stored}
  PROVE  IInv'
<1> USE DEF IInv
<1>1. /\ work'[w].stage = "free"
      /\ \A v \in Worker \ {w} : work'[v] = work[v]
  BY DEF TypeOK, Idle
<1>2. \A i \in 1..Len(queue') : ListQueued(i)' => i \in 1..Len(queue) /\ ListQueued(i)
  BY DEF ListQueued
<1>3. \A i \in 1..Len(queue) : ListQueued(i) => i \in 1..Len(queue') /\ ListQueued(i)'
  BY DEF ListQueued
<1>4. \A v \in Worker : Listing(v)' <=> Listing(v)
  BY <1>1 DEF Listing
<1>5. Stages'
  BY <1>1 DEF Stages
<1>6. OneListing'
  BY <1>2, <1>3, <1>4 DEF OneListing
<1>7. NoneStored => NoneStored'
  BY DEF NoneStored
<1>8. main # "nodes"
  BY DEF Barrier
<1>9. Stored'
  <2>1. ASSUME NEW i \in 1..Len(queue'), NEW n \in Node, CostQueued(i, n)' PROVE items'[n].stored
    BY <2>1 DEF Stored, CostQueued
  <2>2. ASSUME NEW v \in Worker, work'[v].stage = "cost"
        PROVE  items'[work'[v].job.of].stored /\ work'[v].item.stored
    BY <1>1, <2>2 DEF Stored, Stages
  <2>3. (\E i \in 1..Len(queue') : ListQueued(i)') => NoneStored'
    BY <1>2, <1>7 DEF Stored
  <2>4. ASSUME NEW v \in Worker, work'[v].stage = "list" PROVE NoneStored'
    BY <1>1, <1>7, <2>4 DEF Stored
  <2>5. ASSUME NEW v \in Worker, work'[v].stage \in {"each", "push"}, NEW n \in Node \ work'[v].rest
        PROVE  items'[n].stored
    BY <1>1, <2>5 DEF Stored
  <2>6. nodesReady' = 0 => (\A n \in Node : items'[n].stored) \/ (failed' /\ NoneStored')
    BY <1>7, <1>8 DEF Stored
  <2>7. ASSUME NEW v \in Worker, work'[v].stage = "push" PROVE items'[work'[v].job.of].stored
    <3>1. work'[v] = work[v] /\ work[v].job.of \in Node
      BY <1>1, <2>7 DEF Stages, TypeOK
    <3>2. QED
      BY <2>7, <3>1 DEF Stored
  <2>8. QED
    BY <1>8, <2>1, <2>2, <2>3, <2>4, <2>5, <2>6, <2>7 DEF Stored
<1>10. Barrier'
  <2>1. nodesReady = 1 => copies' = {}
    BY DEF Barrier
  <2>2. ASSUME NEW c \in copies' PROVE c.names = Node \/ (failed' /\ c.names = {})
    BY <1>8 DEF Barrier, Stored, NoneStored
  <2>3. QED
    BY <1>8, <2>1, <2>2 DEF Barrier
<1>11. QED
  BY <1>5, <1>6, <1>9, <1>10

\* A cost job ends, is tried again or stores the cost, or a reader reads.
LEMMA CostAndReadStep ==
  ASSUME IInv, NEW w \in Worker, CostUnknown(w) \/ CostFails(w) \/ GetNodeCost(w) \/ ReadNodes(w)
  PROVE  IInv'
<1> USE DEF IInv
<1>1. queue \in Seq(Job) /\ Len(queue) \in Nat /\ work \in [Worker -> Task] /\ work[w] \in Task
  BY LenProperties DEF TypeOK, Task
<1>2. Idle \in Task
  BY NodesAssumption DEF Idle, Task, NewJob, NoItem, Item
<1>3. [work EXCEPT ![w] = Idle] \in [Worker -> Task]
  BY <1>1, <1>2
<1>4. CASE CostUnknown(w)
  <2>1. work[w].job.of \in Node
    BY <1>4 DEF CostUnknown, Stages
  <2>2. TypeOK'
    BY <1>3, <1>4, <2>1 DEF CostUnknown, TypeOK, Task
  <2>3. QED
    BY <1>1, <1>4, <2>2, OtherStep DEF CostUnknown
<1>5. CASE CostFails(w)
  <2> DEFINE again == [work[w].job EXCEPT !.tries = @ + 1]
  <2>1. work[w].job \in [kind : {"cost"}, of : Node, tries : 0..MaxRetry] /\ items[work[w].job.of].stored
    BY <1>5 DEF CostFails, Stages, Stored
  <2>2. work[w].job.tries < MaxRetry =>
          again \in Job /\ again.kind = "cost" /\ again.of = work[w].job.of
    BY <2>1, NodesAssumption DEF Job
  <2>3. UNCHANGED queue \/ (queue' = Append(queue, again) /\ again \in Job /\ again.kind = "cost" /\ again.of = work[w].job.of)
    BY <1>5, <2>2 DEF CostFails
  <2>4. /\ queue' \in Seq(Job)
        /\ \A i \in 1..Len(queue) : i \in 1..Len(queue') /\ queue'[i] = queue[i]
        /\ \A i \in 1..Len(queue') :
             i \in 1..Len(queue) \/ (queue'[i].kind = "cost" /\ queue'[i].of = work[w].job.of)
    <3>1. CASE UNCHANGED queue
      BY <1>1, <3>1
    <3>2. CASE queue' = Append(queue, again) /\ again \in Job /\ again.kind = "cost" /\ again.of = work[w].job.of
      <4>1. /\ queue' \in Seq(Job) /\ Len(queue') = Len(queue) + 1
            /\ \A i \in 1..(Len(queue) + 1) : queue'[i] = IF i <= Len(queue) THEN queue[i] ELSE again
        BY <1>1, <3>2, PushedJob
      <4>2. QED
        BY <1>1, <3>2, <4>1
    <3>3. QED
      BY <2>3, <3>1, <3>2
  <2>5. TypeOK'
    BY <1>3, <1>5, <2>1, <2>4 DEF CostFails, TypeOK, Task
  <2>6. QED
    BY <1>5, <2>1, <2>4, <2>5, OtherStep DEF CostFails
<1>6. CASE GetNodeCost(w)
  <2>1. work[w].job.of \in Node /\ items[work[w].job.of].stored /\ work[w].item \in Item
    BY <1>1, <1>6 DEF GetNodeCost, Stages, Stored, Task
  <2>2. /\ items' \in [Node -> Item]
        /\ \A m \in Node : items'[m].stored = items[m].stored
    <3>1. /\ [work[w].item EXCEPT !.cost = TRUE] \in Item
          /\ [work[w].item EXCEPT !.cost = TRUE].stored
      BY <1>6, <2>1 DEF GetNodeCost, Item
    <3>2. QED
      BY <1>6, <2>1, <3>1 DEF GetNodeCost, TypeOK
  <2>3. TypeOK'
    BY <1>3, <1>6, <2>2 DEF GetNodeCost, TypeOK, Task
  <2>4. QED
    BY <1>1, <1>6, <2>2, <2>3, OtherStep DEF GetNodeCost
<1>7. CASE ReadNodes(w)
  <2>1. GetKubernetesNodes \in [names : SUBSET Node, costs : SUBSET Node]
    BY DEF GetKubernetesNodes
  <2>2. TypeOK'
    BY <1>3, <1>7, <2>1 DEF ReadNodes, TypeOK, Task
  <2>3. \A c \in copies' \ copies : nodesReady = 0 /\ c.names = {n \in Node : items[n].stored}
    BY <1>7 DEF ReadNodes, GetKubernetesNodes
  <2>4. QED
    BY <1>1, <1>7, <2>2, <2>3, OtherStep DEF ReadNodes
<1>8. QED
  BY <1>4, <1>5, <1>6, <1>7

LEMMA NextStep == IInv /\ [Next]_vars => IInv'
<1> SUFFICES ASSUME IInv, [Next]_vars PROVE IInv'
  OBVIOUS
<1>1. CASE Constructing
  BY <1>1, NewProcessorStep, ConstructWaitingStep, ConstructPodsStep DEF Constructing
<1>2. ASSUME NEW w \in Worker, WorkerStep(w) PROVE IInv'
  BY <1>2, TakeStep, ListAllNodesFailsStep, ListAllNodesStep, ListDoneStep, StoreNodeStep, PushCostStep,
     CostAndReadStep
  DEF WorkerStep
<1>3. CASE UNCHANGED vars
  BY <1>3 DEF vars, IInv, TypeOK, Stages, OneListing, Stored, Barrier, Listing, ListQueued, CostQueued, NoneStored
<1>4. QED
  BY <1>1, <1>2, <1>3 DEF Next

LEMMA Inductive == Spec => []IInv
BY InitIInv, NextStep, PTL DEF Spec

\* The state keeps its type in every execution; in particular the wait group never
\* becomes negative, which would panic, and is never closed twice.
THEOREM TypeCorrect == Spec => []TypeOK
<1>1. IInv => TypeOK
  BY DEF IInv
<1>2. QED
  BY <1>1, Inductive, PTL

\* However many workers, readers and nodes there are, what GetKubernetesNodes returned
\* to anyone who passed the barrier was the whole cluster, or nothing after the listing
\* failed.
THEOREM ListingIsWhole == Spec => []WholeListing
<1>1. IInv => WholeListing
  BY DEF IInv, Barrier, WholeListing
<1>2. QED
  BY <1>1, Inductive, PTL

--------------------------------------------------------------------------------
(* The costs.                                                                *)

\* The listing has not come past node n.
Ahead(n) ==
  \/ main = "nodes"
  \/ \E i \in 1..Len(queue) : ListQueued(i)
  \/ \E w \in Worker : work[w].stage = "list"
  \/ \E w \in Worker : work[w].stage \in {"each", "push"} /\ n \in work[w].rest

\* There is a cost job of node n.
Pricing(n) ==
  \/ \E i \in 1..Len(queue) : CostQueued(i, n)
  \/ \E w \in Worker : work[w].stage = "cost" /\ work[w].job.of = n

\* At every moment the cost of a node is known, known to be unknown, or somebody is
\* going to ask for it.
CostsCome == \A n \in Managed : failed \/ Ahead(n) \/ Pricing(n) \/ items[n].cost \/ n \in unpriced

\* A step after which everybody who was going to ask still is.
LEMMA CostsStillCome ==
  ASSUME CostsCome,
         \A n \in Managed : /\ Ahead(n) => Ahead(n)' \/ Pricing(n)'
                            /\ Pricing(n) => Pricing(n)' \/ items'[n].cost \/ n \in unpriced'
                            /\ items[n].cost => items'[n].cost \/ Ahead(n)'
                            /\ n \in unpriced => n \in unpriced'
                            /\ failed => failed'
  PROVE  CostsCome'
BY DEF CostsCome

LEMMA CostsStep == IInv /\ CostsCome /\ [Next]_vars => CostsCome'
<1> SUFFICES ASSUME IInv, CostsCome, [Next]_vars PROVE CostsCome'
  OBVIOUS
<1>1. /\ queue \in Seq(Job) /\ Len(queue) \in Nat /\ Readers \in Nat /\ Managed \subseteq Node
      /\ work \in [Worker -> Task]
      /\ items \in [Node -> [stored : BOOLEAN, skipped : BOOLEAN, cost : BOOLEAN]]
  BY LenProperties, NodesAssumption DEF IInv, TypeOK, Task, Item
<1>2. ASSUME \A i \in 1..Len(queue) : i \in 1..Len(queue') /\ queue'[i] = queue[i]
      PROVE  \A i \in 1..Len(queue) : i \in 1..Len(queue') /\ (ListQueued(i) => ListQueued(i)')
                                        /\ \A n : CostQueued(i, n) => CostQueued(i, n)'
  BY <1>2 DEF ListQueued, CostQueued
<1>3. CASE NewProcessor
  <2>1. NewJob("list", "all") \in Job
    BY DEF NewJob, Job
  <2>2. queue' = Append(queue, NewJob("list", "all")) /\ Len(queue') = Len(queue) + 1
          /\ queue'[Len(queue) + 1] = NewJob("list", "all")
    BY <1>1, <1>3, <2>1, PushedJob DEF NewProcessor
  <2>3. PICK k \in Nat : k = Len(queue) + 1
    BY <1>1
  <2>4. k \in 1..Len(queue') /\ ListQueued(k)'
    BY <1>1, <2>2, <2>3 DEF ListQueued, NewJob
  <2>5. QED
    BY <2>4 DEF CostsCome, Ahead
<1>4. CASE ConstructWaiting
  BY <1>4 DEF ConstructWaiting, CostsCome, Ahead, Pricing, ListQueued, CostQueued
<1>5. CASE ConstructPods
  <2>1. \A i \in 1..Len(queue) : i \in 1..Len(queue') /\ queue'[i] = queue[i]
    BY <1>1, <1>5, PushedReaders DEF ConstructPods
  <2>2. QED
    BY <1>2, <1>5, <2>1 DEF ConstructPods, CostsCome, Ahead, Pricing
<1>6. ASSUME NEW w \in Worker, Take(w) PROVE CostsCome'
  <2>1. /\ queue # <<>> /\ Head(queue) = queue[1] /\ Len(queue) >= 1 /\ Len(queue') = Len(queue) - 1
        /\ \A i \in 1..Len(queue') : queue'[i] = queue[i + 1]
    BY <1>1, <1>6, TakenJob DEF Take
  <2>2. /\ work'[w].stage = queue[1].kind /\ work'[w].job = queue[1]
        /\ work[w].stage = "free"
        /\ \A v \in Worker \ {w} : work'[v] = work[v]
        /\ UNCHANGED <<items, main, failed, unpriced>>
    BY <1>1, <1>6, <2>1 DEF Take, Idle
  <2>3. ASSUME NEW i \in 1..Len(queue)
        PROVE  i = 1 \/ (i - 1 \in 1..Len(queue') /\ queue'[i - 1] = queue[i])
    BY <1>1, <2>1
  <2>4. ASSUME NEW n \in Managed, Ahead(n) PROVE Ahead(n)'
    <3>1. CASE \E i \in 1..Len(queue) : ListQueued(i)
      BY <2>2, <2>3, <3>1 DEF Ahead, ListQueued
    <3>2. QED
      BY <2>2, <2>4, <3>1 DEF Ahead
  <2>5. ASSUME NEW n \in Managed, Pricing(n) PROVE Pricing(n)'
    <3>1. CASE \E i \in 1..Len(queue) : CostQueued(i, n)
      BY <2>2, <2>3, <3>1 DEF Pricing, CostQueued
    <3>2. QED
      BY <2>2, <2>5, <3>1 DEF Pricing
  <2>6. QED
    BY <2>2, <2>4, <2>5, CostsStillCome
<1>7. ASSUME NEW w \in Worker, ListAllNodesFails(w) PROVE CostsCome'
  BY <1>7 DEF ListAllNodesFails, CostsCome
<1>8. ASSUME NEW w \in Worker, ListAllNodes(w) PROVE CostsCome'
  <2>1. /\ work'[w].stage = "each" /\ work'[w].rest = Node /\ work[w].stage = "list"
        /\ \A v \in Worker \ {w} : work'[v] = work[v]
        /\ UNCHANGED <<items, queue, main, failed, unpriced>>
    BY <1>1, <1>8 DEF ListAllNodes, Task
  <2>2. \A n \in Managed : Ahead(n)'
    BY <1>1, <2>1 DEF Ahead
  <2>3. QED
    BY <2>2 DEF CostsCome
<1>9. ASSUME NEW w \in Worker, NEW m \in Node, StoreNode(w, m) PROVE CostsCome'
  <2>1. /\ work'[w].stage = "push" /\ work'[w].rest = work[w].rest /\ work[w].stage = "each" /\ m \in work[w].rest
        /\ \A v \in Worker \ {w} : work'[v] = work[v]
        /\ UNCHANGED <<queue, main, failed, unpriced>>
    BY <1>1, <1>9 DEF StoreNode, Task
  <2>2. \A n \in Node \ {m} : items'[n] = items[n]
    BY <1>1, <1>9 DEF StoreNode
  <2>3. \A n \in Managed : Ahead(n) => Ahead(n)'
    BY <2>1 DEF Ahead, ListQueued
  <2>4. \A n \in Managed : Pricing(n) => Pricing(n)'
    BY <2>1 DEF Pricing, CostQueued
  <2>5. Ahead(m)'
    BY <2>1 DEF Ahead
  <2>6. QED
    BY <1>1, <2>1, <2>2, <2>3, <2>4, <2>5, CostsStillCome
<1>10. ASSUME NEW w \in Worker, PushCost(w) PROVE CostsCome'
  <2>0. PICK m : m = work[w].job.of
    OBVIOUS
  <2>1. /\ work'[w].stage = "each" /\ work'[w].rest = work[w].rest \ {m} /\ work[w].stage = "push"
        /\ \A v \in Worker \ {w} : work'[v] = work[v]
        /\ UNCHANGED <<main, failed, unpriced>>
        /\ m \in Node
    BY <1>1, <1>10, <2>0 DEF PushCost, Task, IInv, Stages
  <2>2. \A n \in Node : items'[n].cost = items[n].cost
    <3>1. CASE UNCHANGED items
      BY <3>1
    <3>2. CASE items' = [items EXCEPT ![m].skipped = TRUE]
      BY <1>1, <2>1, <3>2
    <3>3. QED
      BY <1>10, <2>0, <3>1, <3>2 DEF PushCost
  <2>3. /\ \A i \in 1..Len(queue) : i \in 1..Len(queue') /\ queue'[i] = queue[i]
        /\ m \in Managed => Pricing(m)'
    <3>1. CASE m \notin Managed
      BY <1>1, <1>10, <2>0, <3>1 DEF PushCost
    <3>2. CASE m \in Managed
      <4>1. NewJob("cost", m) \in Job
        BY <2>1, NodesAssumption DEF NewJob, Job
      <4>2. /\ Len(queue') = Len(queue) + 1
            /\ \A i \in 1..(Len(queue) + 1) : queue'[i] = IF i <= Len(queue) THEN queue[i] ELSE NewJob("cost", m)
        BY <1>1, <1>10, <2>0, <3>2, <4>1, PushedJob DEF PushCost
      <4>3. PICK k \in Nat : k = Len(queue) + 1
        BY <1>1
      <4>4. k \in 1..Len(queue') /\ CostQueued(k, m)'
        BY <1>1, <4>2, <4>3 DEF CostQueued, NewJob
      <4>5. QED
        BY <1>1, <4>2, <4>4 DEF Pricing
    <3>3. QED
      BY <3>1, <3>2
  <2>4. \A n \in Managed : Ahead(n) => Ahead(n)' \/ n = m
    BY <1>2, <2>1, <2>3 DEF Ahead
  <2>5. \A n \in Managed : Pricing(n) => Pricing(n)'
    BY <1>2, <2>1, <2>3 DEF Pricing
  <2>6. QED
    BY <1>1, <2>1, <2>2, <2>3, <2>4, <2>5, CostsStillCome
<1>11. ASSUME NEW w \in Worker, ListDone(w) PROVE CostsCome'
  <2>1. /\ work'[w].stage = "free" /\ work[w].stage = "each" /\ work[w].rest = {}
        /\ \A v \in Worker \ {w} : work'[v] = work[v]
        /\ UNCHANGED <<items, queue, main, failed, unpriced>>
    BY <1>1, <1>11 DEF ListDone, Idle
  <2>2. \A n \in Managed : (Ahead(n) => Ahead(n)') /\ (Pricing(n) => Pricing(n)')
    BY <2>1 DEF Ahead, Pricing, ListQueued, CostQueued
  <2>3. QED
    BY <2>1, <2>2, CostsStillCome
<1>12. ASSUME NEW w \in Worker, CostUnknown(w) \/ CostFails(w) \/ GetNodeCost(w) \/ ReadNodes(w) PROVE CostsCome'
  <2>0. PICK m : m = work[w].job.of
    OBVIOUS
  <2>1. /\ work'[w].stage = "free" /\ work[w].stage \in {"cost", "read"}
        /\ \A v \in Worker \ {w} : work'[v] = work[v]
        /\ UNCHANGED <<main, failed>> /\ unpriced \subseteq unpriced'
    BY <1>1, <1>12 DEF CostUnknown, CostFails, GetNodeCost, ReadNodes, Idle
  <2>2. work[w].stage = "cost" =>
          work[w].job \in [kind : {"cost"}, of : Node, tries : 0..MaxRetry] /\ m \in Node
    BY <2>0 DEF IInv, Stages
  <2>3. /\ \A i \in 1..Len(queue) : i \in 1..Len(queue') /\ queue'[i] = queue[i]
        /\ CostFails(w) => Pricing(m)' \/ m \in unpriced'
    <3>1. CASE UNCHANGED queue
      BY <1>1, <2>0, <3>1 DEF CostFails
    <3>2. CASE CostFails(w) /\ work[w].job.tries < MaxRetry
      <4>1. PICK again \in Job : /\ again = [work[w].job EXCEPT !.tries = @ + 1]
                                 /\ again.kind = "cost" /\ again.of = m
        BY <2>0, <2>2, <3>2, NodesAssumption DEF CostFails, Job
      <4>2. /\ Len(queue') = Len(queue) + 1
            /\ \A i \in 1..(Len(queue) + 1) : queue'[i] = IF i <= Len(queue) THEN queue[i] ELSE again
        BY <1>1, <3>2, <4>1, PushedJob DEF CostFails
      <4>3. again.kind = "cost" /\ again.of = m
        BY <4>1
      <4>4. PICK k \in Nat : k = Len(queue) + 1
        BY <1>1
      <4>5. k \in 1..Len(queue') /\ CostQueued(k, m)'
        BY <1>1, <4>2, <4>3, <4>4 DEF CostQueued
      <4>6. QED
        BY <1>1, <4>2, <4>5 DEF Pricing
    <3>3. QED
      BY <1>12, <2>0, <3>1, <3>2 DEF CostUnknown, CostFails, GetNodeCost, ReadNodes
  <2>4. \A n \in Node : items[n].cost => items'[n].cost
    <3>1. CASE UNCHANGED items
      BY <3>1
    <3>2. CASE GetNodeCost(w)
      BY <1>1, <2>0, <2>2, <3>2 DEF GetNodeCost, Task, Item
    <3>3. QED
      BY <1>12, <3>1, <3>2 DEF CostUnknown, CostFails, ReadNodes
  <2>5. work[w].stage = "cost" => Pricing(m)' \/ items'[m].cost \/ m \in unpriced'
    <3>1. CASE CostUnknown(w)
      BY <2>0, <3>1 DEF CostUnknown
    <3>2. CASE GetNodeCost(w)
      BY <1>1, <2>0, <2>2, <3>2 DEF GetNodeCost, Task, Item
    <3>3. QED
      BY <1>12, <2>3, <3>1, <3>2 DEF ReadNodes
  <2>6. \A n \in Managed : Ahead(n) => Ahead(n)'
    BY <1>2, <2>1, <2>3 DEF Ahead
  <2>7. \A n \in Managed : Pricing(n) => Pricing(n)' \/ (work[w].stage = "cost" /\ n = m)
    BY <1>2, <2>0, <2>1, <2>3 DEF Pricing
  <2>8. QED
    BY <1>1, <2>1, <2>4, <2>5, <2>6, <2>7, CostsStillCome
<1>13. CASE UNCHANGED vars
  BY <1>13 DEF vars, CostsCome, Ahead, Pricing, ListQueued, CostQueued
<1>14. QED
  BY <1>3, <1>4, <1>5, <1>6, <1>7, <1>8, <1>9, <1>10, <1>11, <1>12, <1>13 DEF Next, Constructing, WorkerStep

\* However often cost jobs fail, are tried again and interleave with the listing that
\* writes the same nodes: when no job is left every managed node has its cost, or the
\* server did not tell it.
THEOREM CostsAreKept == Spec => []CostsAreNotLost
<1>1. Init => CostsCome
  BY DEF Init, CostsCome, Ahead
<1>2. IInv /\ CostsCome => CostsAreNotLost
  <2> SUFFICES ASSUME CostsCome, main = "done", queue = <<>>, ~failed,
                      \A w \in Worker : work[w].stage = "free", NEW n \in Managed
               PROVE  items[n].cost \/ n \in unpriced
    BY DEF CostsAreNotLost
  <2>1. ~Ahead(n) /\ ~Pricing(n)
    BY EmptySeq DEF Ahead, Pricing
  <2>2. QED
    BY <2>1 DEF CostsCome
<1>3. QED
  BY <1>1, <1>2, CostsStep, Inductive, PTL DEF Spec

================================================================================
