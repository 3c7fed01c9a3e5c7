---------------------------- MODULE SchedulerProofs ----------------------------
(***************************************************************************)
(* For every cluster, every set of templates and budgets and every         *)
(* sequence of calls: the scheduler's state keeps its type, no node is     *)
(* overcommitted, its totals are the sums of what its pods request, no pod *)
(* sits where it is not admitted or beside one that it excludes, a drain   *)
(* conserves the pods and their budgets and the fullest node is taken      *)
(* first; the simulation of removals keeps every node in exactly one       *)
(* place, places the replicas it has read or notes a failure, and          *)
(* implements NodeRemoval.                                                 *)
(***************************************************************************)
EXTENDS SchedulerService, SumTheorems, FiniteSetTheorems, FunctionTheorems, SequenceTheorems, TLAPS

\* A node that takes one more pod of a template keeps the type of its record.
LEMMA WithPodType ==
  ASSUME NEW a \in AllocType, NEW t \in Template
  PROVE  WithPod(a, t) \in AllocType
<1>1. CpuRequest(t) \in Nat /\ MemRequest(t) \in Nat
  BY TemplateAssumption
<1>2. Append(a.pods, t) \in Seq(Template)
  BY DEF AllocType
<1>3. QED
  BY <1>1, <1>2 DEF WithPod, AllocType

\* schedulePodWithStrategy reorders the nodes and either changes nothing else or
\* books the pod on one node on which it can be scheduled.
LEMMA ScheduleOutcome ==
  ASSUME NEW ord \in Seq(Node), NEW al, NEW t, NEW h,
         NEW out \in SchedulePodWithStrategy(ord, al, t, h)
  PROVE  /\ out.order \in Seq(Node)
         /\ Range(out.order) = Range(ord)
         /\ \/ out.alloc = al
            \/ \E n \in Range(ord) : /\ n \in Node
                                     /\ CanScheduleOnNode(t, n, al[n], h, Range(ord))
                                     /\ out.alloc = [al EXCEPT ![n] = WithPod(@, t)]
<1>1. Range(ord) \subseteq Node /\ DOMAIN ord = 1..Len(ord) /\ Len(ord) \in Nat
  BY DEF Range
<1>2. ASSUME NEW p \in SortedByUtilization(ord, al)
      PROVE  /\ p \in Seq(Node) /\ Range(p) = Range(ord)
             /\ \A i \in DOMAIN p : p[i] \in Range(ord)
  <2>1. p \in [1..Len(ord) -> Range(ord)] /\ Range(p) = Range(ord)
    BY <1>1 DEF SortedByUtilization
  <2>2. p \in [1..Len(ord) -> Node]
    BY <2>1, <1>1
  <2>3. QED
    BY <2>1, <2>2, <1>1
<1>3. PICK p \in SortedByUtilization(ord, al) :
        \/ out = [ok |-> FALSE, order |-> p, alloc |-> al]
        \/ \E i \in DOMAIN p :
             /\ CanScheduleOnNode(t, p[i], al[p[i]], h, Range(ord))
             /\ out = [ok |-> TRUE, order |-> p, alloc |-> [al EXCEPT ![p[i]] = WithPod(@, t)]]
  BY DEF SchedulePodWithStrategy
<1>4. CASE out = [ok |-> FALSE, order |-> p, alloc |-> al]
  BY <1>2, <1>4
<1>5. ASSUME NEW i \in DOMAIN p,
             CanScheduleOnNode(t, p[i], al[p[i]], h, Range(ord)),
             out = [ok |-> TRUE, order |-> p, alloc |-> [al EXCEPT ![p[i]] = WithPod(@, t)]]
      PROVE  \E n \in Range(ord) : /\ n \in Node
                                   /\ CanScheduleOnNode(t, n, al[n], h, Range(ord))
                                   /\ out.alloc = [al EXCEPT ![n] = WithPod(@, t)]
  <2>1. p[i] \in Range(ord) /\ p[i] \in Node
    BY <1>1, <1>2
  <2>2. out.alloc = [al EXCEPT ![p[i]] = WithPod(@, t)]
    BY <1>5
  <2>3. QED
    BY <1>5, <2>1, <2>2
<1>6. ASSUME NEW i \in DOMAIN p,
             out = [ok |-> TRUE, order |-> p, alloc |-> [al EXCEPT ![p[i]] = WithPod(@, t)]]
      PROVE  out.order = p
  BY <1>6
<1>7. QED
  BY <1>2, <1>3, <1>4, <1>5, <1>6

--------------------------------------------------------------------------------
(* What the pods of a node request together.                                 *)

Requests(pods, resource) == [i \in DOMAIN pods |-> GetPodResourceRequest(pods[i], resource)]

\* RequestedBy is the sum of the requests.
LEMMA RequestedByTotal ==
  ASSUME NEW pods \in Seq(Template), NEW resource \in {"cpu", "mem"}
  PROVE  /\ Requests(pods, resource) \in [DOMAIN pods -> Int] /\ IsFiniteSet(DOMAIN pods)
         /\ RequestedBy(pods, resource) = Total(Requests(pods, resource))
<1>1. IsFiniteSet(DOMAIN pods)
  BY FS_Interval
<1>2. PICK f : f = Requests(pods, resource)
  OBVIOUS
<1>3. f \in [DOMAIN pods -> Int]
  BY <1>2, TemplateAssumption DEF Requests, CpuRequest, MemRequest
<1> DEFINE Rec(h) == h = [s \in SUBSET DOMAIN pods |-> IF s = {} THEN 0
                            ELSE GetPodResourceRequest(pods[CHOOSE x \in s : TRUE], resource)
                                   + h[s \ {CHOOSE x \in s : TRUE}]]
<1>4. Rec(CHOOSE h : Rec(h))
  <2>1. PICK h : IsIteration(h, f, DOMAIN pods)
    BY <1>1, <1>3, IterationIsTotal
  <2>2. \A s \in SUBSET DOMAIN pods : s # {} => (CHOOSE x \in s : TRUE) \in DOMAIN pods
    OBVIOUS
  <2>3. \A s \in SUBSET DOMAIN pods : s # {} =>
           f[CHOOSE x \in s : TRUE] = GetPodResourceRequest(pods[CHOOSE x \in s : TRUE], resource)
    BY <1>2, <2>2 DEF Requests
  <2>4. Rec(h)
    BY <2>1, <2>3 DEF IsIteration
  <2>5. QED
    BY <2>4, Zenon
<1>5. RequestedBy(pods, resource) = (CHOOSE h : Rec(h))[DOMAIN pods]
  BY Zenon DEF RequestedBy, MapThenSumSet, MapThenFoldSet
<1>6. PICK h : Rec(h) /\ RequestedBy(pods, resource) = h[DOMAIN pods]
  BY <1>4, <1>5
<1>7. IsIteration(h, f, DOMAIN pods)
  <2>2. \A s \in SUBSET DOMAIN pods : s # {} => (CHOOSE x \in s : TRUE) \in DOMAIN pods
    OBVIOUS
  <2>3. \A s \in SUBSET DOMAIN pods : s # {} =>
           f[CHOOSE x \in s : TRUE] = GetPodResourceRequest(pods[CHOOSE x \in s : TRUE], resource)
    BY <1>2, <2>2 DEF Requests
  <2>4. QED
    BY <1>6, <2>3 DEF IsIteration
<1>8. PICK g : IsTotal(g, f, DOMAIN pods)
  BY <1>1, <1>3, SumsExist
<1>9. QED
  <2>1. h[DOMAIN pods] = g[DOMAIN pods]
    BY <1>1, <1>3, <1>7, <1>8, IterationIsTotal
  <2>2. Total(f) = g[DOMAIN pods]
    BY <1>1, <1>3, <1>8, TotalIs
  <2>3. QED
    BY <1>1, <1>2, <1>3, <1>6, <2>1, <2>2

LEMMA RequestedByNone ==
  ASSUME NEW resource \in {"cpu", "mem"}
  PROVE  RequestedBy(<<>>, resource) = 0
<1>1. <<>> \in Seq(Template) /\ DOMAIN <<>> = {}
  OBVIOUS
<1>2. QED
  BY <1>1, RequestedByTotal, TotalEmpty

\* One more pod adds its request.
LEMMA RequestedByOneMore ==
  ASSUME NEW pods \in Seq(Template), NEW t \in Template, NEW resource \in {"cpu", "mem"}
  PROVE  RequestedBy(Append(pods, t), resource) = RequestedBy(pods, resource) + GetPodResourceRequest(t, resource)
<1>1. PICK more \in Seq(Template) : more = Append(pods, t)
  <2>1. Append(pods, t) \in Seq(Template)
    OBVIOUS
  <2>2. QED
    BY <2>1
<1>2. PICK S, x : S = DOMAIN pods /\ x = Len(pods) + 1
  OBVIOUS
<1>3. /\ DOMAIN more = S \cup {x} /\ x \notin S /\ more[x] = t
      /\ \A i \in S : more[i] = pods[i]
  BY <1>1, <1>2
<1>4. PICK f, h : f = Requests(more, resource) /\ h = Requests(pods, resource)
  OBVIOUS
<1>5. /\ f \in [S \cup {x} -> Int] /\ h \in [S -> Int] /\ IsFiniteSet(S)
      /\ RequestedBy(more, resource) = Total(f) /\ RequestedBy(pods, resource) = Total(h)
  BY <1>2, <1>3, <1>4, RequestedByTotal
<1>6. f[x] = GetPodResourceRequest(t, resource) /\ \A i \in S : h[i] = f[i]
  BY <1>2, <1>3, <1>4 DEF Requests
<1>7. Total(f) = f[x] + Total(h)
  <2>1. Summable(f) /\ x \in DOMAIN f
    BY <1>3, <1>5, FS_AddElement DEF Summable
  <2>2. h = LessAt(f, x)
    BY <1>3, <1>5, <1>6 DEF LessAt
  <2>3. QED
    BY <2>1, <2>2, TotalWithout
<1>8. QED
  BY <1>1, <1>5, <1>6, <1>7, TotalType

--------------------------------------------------------------------------------
(* The inductive invariant: the factors in force are among those seen, and   *)
(* both allocations, the scheduler's and the copy of a drain, are sound.     *)

HeadroomSeen == \A f \in Factors : headroom[f] \in seen[f]

Admitted(a, n) == \A i \in DOMAIN a.pods : Admits(n, a.pods[i])

Apart(a, n) ==
  \A i, j \in DOMAIN a.pods :
    i < j => \A term \in PodSpec[a.pods[j]].podAntiAffinity :
               ~SatisfiesPodAffinityTerm(term, n, <<a.pods[i]>>, {n})

Accounted(a) ==
  /\ a.cpu = RequestedBy(a.pods, "cpu")
  /\ a.mem = RequestedBy(a.pods, "mem")
  /\ a.pod = Len(a.pods)

SoundOn(a, n) == WithinHeadroom(a, n) /\ Admitted(a, n) /\ Apart(a, n) /\ Accounted(a)

Sound(al) == \A n \in Node : SoundOn(al[n], n)

IInv == TypeOK /\ HeadroomSeen /\ Sound(alloc) /\ Sound(temp.alloc)

\* Nothing is on any node: sound.
LEMMA EmptySound ==
  ASSUME NEW n \in Node
  PROVE  SoundOn(Empty, n) /\ Empty \in AllocType
<1>1. Accounted(Empty)
  BY RequestedByNone DEF Accounted, Empty
<1>2. WithinHeadroom(Empty, n) /\ Empty \in AllocType
  BY DEF WithinHeadroom, Empty, AllocType
<1>3. Admitted(Empty, n) /\ Apart(Empty, n)
  BY DEF Admitted, Apart, Empty
<1>4. QED
  BY <1>1, <1>2, <1>3 DEF SoundOn

\* What a pod excludes within the topology of its node, it excludes on the node.
LEMMA ExcludedThere ==
  ASSUME NEW term, NEW n, NEW L, n \in L, NEW pods, NEW i \in DOMAIN pods,
         ~SatisfiesPodAffinityTerm(term, n, pods, L)
  PROVE  ~SatisfiesPodAffinityTerm(term, n, <<pods[i]>>, {n})
<1>1. Range(<<pods[i]>>) = {pods[i]} /\ pods[i] \in Range(pods)
  BY DEF Range
<1>2. QED
  BY <1>1 DEF SatisfiesPodAffinityTerm

LEMMA OneMorePod ==
  ASSUME NEW pods \in Seq(Template), NEW t, NEW more, more = Append(pods, t)
  PROVE  \A i \in DOMAIN more :
           \/ i = Len(pods) + 1 /\ more[i] = t
           \/ i \in DOMAIN pods /\ i <= Len(pods) /\ more[i] = pods[i]
<1>1. DOMAIN more = 1..(Len(pods) + 1) /\ DOMAIN pods = 1..Len(pods) /\ Len(pods) \in Nat
  OBVIOUS
<1>2. \A i \in 1..(Len(pods) + 1) : more[i] = IF i <= Len(pods) THEN pods[i] ELSE t
  OBVIOUS
<1>3. QED
  BY <1>1, <1>2

\* Booking a pod on a node on which it can be scheduled keeps an allocation
\* typed and sound.
LEMMA BookingSound ==
  ASSUME TypeOK, HeadroomSeen,
         NEW al \in [Node -> AllocType], Sound(al),
         NEW t \in Template, NEW n \in Node, NEW L, n \in L,
         CanScheduleOnNode(t, n, al[n], headroom, L)
  PROVE  WithPod(al[n], t) \in AllocType /\ SoundOn(WithPod(al[n], t), n)
<1> PICK a, b : a = al[n] /\ b = WithPod(a, t)
  OBVIOUS
<1>1. a \in AllocType /\ b \in AllocType /\ SoundOn(a, n)
  BY WithPodType DEF Sound
<1>2. /\ b.cpu = a.cpu + CpuRequest(t)
      /\ b.mem = a.mem + MemRequest(t)
      /\ b.pod = a.pod + 1
      /\ b.pods = Append(a.pods, t)
  BY DEF WithPod
<1>3. HasEnoughResources(t, n, a, headroom) /\ Admits(n, t) /\ SatisfiesAffinityRules(t, n, a.pods, L)
  BY DEF CanScheduleOnNode
<1>4. headroom.cpu \in seen["cpu"] /\ headroom.mem \in seen["mem"] /\ headroom.pod \in seen["pod"]
  BY DEF HeadroomSeen, Factors
<1>5. /\ 100 * b.cpu <= NodeSpec[n].vcores * headroom.cpu
      /\ 100 * b.mem <= NodeSpec[n].memory * headroom.mem
      /\ b.pod <= PodLimit(n, headroom.pod)
  BY <1>2, <1>3 DEF HasEnoughResources
<1>6. WithinHeadroom(b, n)
  BY <1>4, <1>5 DEF WithinHeadroom
<1>7. a.pods \in Seq(Template) /\ a.cpu \in Nat /\ a.mem \in Nat
  BY <1>1 DEF AllocType
<1>8. \A i \in DOMAIN b.pods :
        \/ i = Len(a.pods) + 1 /\ b.pods[i] = t
        \/ i \in DOMAIN a.pods /\ i <= Len(a.pods) /\ b.pods[i] = a.pods[i]
  BY <1>2, <1>7, OneMorePod
<1>9. Admitted(b, n)
  BY <1>1, <1>3, <1>8 DEF SoundOn, Admitted
<1>10. Apart(b, n)
  <2> SUFFICES ASSUME NEW i \in DOMAIN b.pods, NEW j \in DOMAIN b.pods, i < j,
                      NEW term \in PodSpec[b.pods[j]].podAntiAffinity
               PROVE  ~SatisfiesPodAffinityTerm(term, n, <<b.pods[i]>>, {n})
    BY DEF Apart
  <2>1. i \in DOMAIN a.pods /\ b.pods[i] = a.pods[i]
    BY <1>2, <1>7, <1>8
  <2>2. CASE j \in DOMAIN a.pods /\ b.pods[j] = a.pods[j]
    BY <1>1, <2>1, <2>2 DEF SoundOn, Apart
  <2>3. CASE b.pods[j] = t
    <3>1. ~SatisfiesPodAffinityTerm(term, n, a.pods, L)
      BY <1>3, <2>3 DEF SatisfiesAffinityRules
    <3>2. QED
      BY <2>1, <3>1, ExcludedThere
  <2>4. QED
    BY <1>8, <2>2, <2>3
<1>11. Accounted(b)
  <2>1. Accounted(a)
    BY <1>1 DEF SoundOn
  <2>2. b.cpu = RequestedBy(b.pods, "cpu")
    BY <1>2, <1>7, <2>1, RequestedByOneMore DEF Accounted, CpuRequest
  <2>3. b.mem = RequestedBy(b.pods, "mem")
    BY <1>2, <1>7, <2>1, RequestedByOneMore DEF Accounted, MemRequest
  <2>4. b.pod = Len(b.pods)
    BY <1>2, <1>7, <2>1 DEF Accounted
  <2>5. QED
    BY <2>2, <2>3, <2>4 DEF Accounted
<1>12. QED
  BY <1>1, <1>6, <1>9, <1>10, <1>11 DEF SoundOn

\* Whatever schedulePodWithStrategy produces from a sound allocation is sound.
LEMMA OutcomeSound ==
  ASSUME TypeOK, HeadroomSeen,
         NEW ord \in Seq(Node), NEW al \in [Node -> AllocType], Sound(al),
         NEW t \in Template,
         NEW out \in SchedulePodWithStrategy(ord, al, t, headroom)
  PROVE  /\ out.order \in Seq(Node) /\ Range(out.order) = Range(ord)
         /\ out.alloc \in [Node -> AllocType]
         /\ Sound(out.alloc)
<1>1. /\ out.order \in Seq(Node) /\ Range(out.order) = Range(ord)
      /\ \/ out.alloc = al
         \/ \E n \in Range(ord) : /\ n \in Node
                                  /\ CanScheduleOnNode(t, n, al[n], headroom, Range(ord))
                                  /\ out.alloc = [al EXCEPT ![n] = WithPod(@, t)]
  BY ScheduleOutcome
<1>2. ASSUME NEW n \in Node, n \in Range(ord),
             CanScheduleOnNode(t, n, al[n], headroom, Range(ord)),
             out.alloc = [al EXCEPT ![n] = WithPod(@, t)]
      PROVE  out.alloc \in [Node -> AllocType] /\ Sound(out.alloc)
  <2>1. WithPod(al[n], t) \in AllocType /\ SoundOn(WithPod(al[n], t), n)
    BY <1>2, BookingSound
  <2>2. \A m \in Node : out.alloc[m] = IF m = n THEN WithPod(al[n], t) ELSE al[m]
    BY <1>2
  <2>3. out.alloc \in [Node -> AllocType]
    BY <1>2, <2>1
  <2>4. QED
    BY <2>1, <2>2, <2>3 DEF Sound
<1>3. QED
  BY <1>1, <1>2

--------------------------------------------------------------------------------

\* The invariant holds for the scheduler that New returns.
LEMMA InitIInv == SchedulerInit => IInv
<1> SUFFICES ASSUME SchedulerInit PROVE IInv
  OBVIOUS
<1>1. order \in Seq(Node)
  <2>1. PICK o \in [1..Cardinality(Node) -> Node] : order = o
    BY DEF SchedulerInit
  <2>2. Cardinality(Node) \in Nat
    BY NodeAssumption, FS_CardinalityType
  <2>3. QED
    BY <2>1, <2>2
<1>2. TypeOK
  BY <1>1 DEF SchedulerInit, TypeOK, NoTemp, Empty, AllocType, Factors
<1>3. HeadroomSeen
  BY DEF SchedulerInit, HeadroomSeen
<1>4. Sound(alloc) /\ Sound(temp.alloc)
  <2>1. \A n \in Node : alloc[n] = Empty /\ temp.alloc[n] = Empty
    BY DEF SchedulerInit, NoTemp
  <2>2. QED
    BY <2>1, EmptySound DEF Sound
<1>5. QED
  BY <1>2, <1>3, <1>4 DEF IInv

\* A call that returns leaves an empty copy behind.
LEMMA ReturnSound ==
  ASSUME NEW r \in {"ok", "failed", "error"}, Return(r)
  PROVE  /\ call' \in {"none", "add", "addJob", "drain"} /\ pending' \in Seq(Template)
         /\ target' \subseteq Node /\ result' \in {"ok", "failed", "error"}
         /\ temp' \in [order : Seq(Node), alloc : [Node -> AllocType]]
         /\ temp'.alloc = [n \in Node |-> Empty]
BY DEF Return, NoTemp, Empty, AllocType

\* With the same factors seen, soundness depends on the allocation only.
LEMMA SoundUnchanged ==
  ASSUME NEW al, UNCHANGED seen, Sound(al)
  PROVE  /\ alloc' = al => Sound(alloc)'
         /\ temp'.alloc = al => Sound(temp.alloc)'
BY DEF Sound, SoundOn, WithinHeadroom, Admitted, Apart, Accounted

\* Returning from a call keeps the invariant.
LEMMA ReturnStep ==
  ASSUME IInv, NEW r \in {"ok", "failed", "error"}, Return(r),
         order' \in Seq(Node), alloc' \in [Node -> AllocType], Sound(alloc'),
         UNCHANGED <<pdbs, headroom, seen>>
  PROVE  IInv'
<1>1. TypeOK'
  BY ReturnSound DEF IInv, TypeOK
<1>2. HeadroomSeen'
  BY DEF IInv, HeadroomSeen
<1>3. Sound(temp.alloc)'
  <2>1. \A n \in Node : temp'.alloc[n] = Empty
    BY ReturnSound
  <2>2. Sound(temp'.alloc)
    BY <2>1, EmptySound DEF Sound
  <2>3. QED
    BY <2>2, SoundUnchanged
<1>4. Sound(alloc)'
  BY SoundUnchanged
<1>5. QED
  BY <1>1, <1>2, <1>3, <1>4 DEF IInv

\* A call that only changes its own control state keeps the invariant.
LEMMA ControlStep ==
  ASSUME IInv, TypeOK', UNCHANGED <<alloc, headroom, seen>>, temp'.alloc \in {temp.alloc, alloc}
  PROVE  IInv'
<1>1. HeadroomSeen'
  BY DEF IInv, HeadroomSeen
<1>2. Sound(alloc)' /\ Sound(temp.alloc)'
  BY SoundUnchanged DEF IInv
<1>3. QED
  BY <1>1, <1>2 DEF IInv

LEMMA AddReplicasStep ==
  ASSUME IInv, NEW kind \in {"add", "addJob"}, NEW t \in Template, NEW k \in 0..MaxReplicas,
         AddReplicas(kind, t, k)
  PROVE  IInv'
<1>1. [i \in 1..k |-> t] \in Seq(Template)
  BY SchedulerAssumption
<1>2. TypeOK'
  BY <1>1 DEF IInv, TypeOK, AddReplicas
<1>3. QED
  BY <1>2, ControlStep DEF AddReplicas

LEMMA PlaceReplicaStep ==
  ASSUME IInv, PlaceReplica
  PROVE  IInv'
<1>1. PICK out \in SchedulePodWithStrategy(order, alloc, Head(pending), headroom) :
        /\ order' = out.order /\ alloc' = out.alloc
        /\ IF out.ok
           THEN pending' = Tail(pending) /\ UNCHANGED <<call, target, temp, result>>
           ELSE Return(IF call = "addJob" THEN "ok" ELSE "failed")
  BY DEF PlaceReplica
<1>2. pending \in Seq(Template) /\ Head(pending) \in Template /\ Tail(pending) \in Seq(Template)
  BY DEF IInv, TypeOK, PlaceReplica
<1>3. order' \in Seq(Node) /\ alloc' \in [Node -> AllocType] /\ Sound(alloc')
  <2>1. order \in Seq(Node) /\ alloc \in [Node -> AllocType]
    BY DEF IInv, TypeOK
  <2>2. QED
    BY <1>1, <1>2, <2>1, OutcomeSound DEF IInv
<1>4. UNCHANGED <<pdbs, headroom, seen>>
  BY DEF PlaceReplica
<1>5. CASE out.ok
  <2>1. pending' = Tail(pending) /\ UNCHANGED <<call, target, temp, result>>
    BY <1>1, <1>5
  <2>2. TypeOK'
    BY <1>2, <1>3, <1>4, <2>1 DEF IInv, TypeOK
  <2>3. Sound(alloc)' /\ Sound(temp.alloc)'
    BY <1>3, <1>4, <2>1, SoundUnchanged DEF IInv
  <2>4. QED
    BY <1>4, <2>2, <2>3 DEF IInv, HeadroomSeen
<1>6. CASE ~out.ok
  <2>1. \E r \in {"ok", "failed", "error"} : Return(r)
    BY <1>1, <1>6
  <2>2. QED
    BY <1>3, <1>4, <2>1, ReturnStep
<1>7. QED
  BY <1>5, <1>6

LEMMA AddDaemonSetStep ==
  ASSUME IInv, NEW t \in Template, AddDaemonSet(t)
  PROVE  IInv'
<1> USE DEF IInv, AddDaemonSet
<1>1. ASSUME NEW n \in Node
      PROVE  alloc'[n] \in AllocType /\ SoundOn(alloc'[n], n)
  <2>1. alloc \in [Node -> AllocType]
    BY DEF TypeOK
  <2>2. CASE alloc'[n] = alloc[n]
    BY <2>1, <2>2 DEF Sound
  <2>3. CASE alloc'[n] # alloc[n]
    <3>1. n \in live /\ CanScheduleOnNode(t, n, alloc[n], headroom, live) /\ alloc'[n] = WithPod(alloc[n], t)
      BY <2>3
    <3>2. QED
      BY <2>1, <3>1, BookingSound
  <2>4. QED
    BY <2>2, <2>3
<1>2. alloc' \in [Node -> AllocType] /\ Sound(alloc')
  BY <1>1 DEF Sound
<1>3. TypeOK'
  BY <1>2 DEF TypeOK
<1>4. Sound(alloc)' /\ Sound(temp.alloc)'
  BY <1>2, SoundUnchanged
<1>5. QED
  BY <1>3, <1>4 DEF HeadroomSeen

LEMMA CanRemoveNodeStep ==
  ASSUME IInv, NEW n \in Node, CanRemoveNode(n)
  PROVE  IInv'
<1>1. UNCHANGED <<order, alloc, pdbs, headroom, seen>>
  BY DEF CanRemoveNode
<1>2. CASE \E r \in {"ok", "failed", "error"} : Return(r)
  BY <1>1, <1>2, ReturnStep DEF IInv, TypeOK
<1>3. CASE /\ n \in live
           /\ call' = "drain" /\ target' = {n}
           /\ pending' = alloc[n].pods
           /\ temp' = [order |-> Without(n), alloc |-> alloc]
           /\ UNCHANGED result
  <2>1. Without(n) \in Seq(Node)
    <3>1. order \in Seq(Node)
      BY DEF IInv, TypeOK
    <3>2. PICK i \in DOMAIN order : order[i] = n
      BY <1>3 DEF live, Range
    <3>3. QED
      BY <3>1, <3>2 DEF Without
  <2>2. alloc[n].pods \in Seq(Template)
    BY DEF IInv, TypeOK, AllocType
  <2>3. TypeOK'
    BY <1>1, <1>3, <2>1, <2>2 DEF IInv, TypeOK
  <2>4. QED
    BY <1>1, <1>3, <2>3, ControlStep
<1>4. QED
  BY <1>2, <1>3 DEF CanRemoveNode

LEMMA DrainPodStep ==
  ASSUME IInv, DrainPod
  PROVE  IInv'
<1>1. UNCHANGED <<order, alloc, pdbs, headroom, seen>>
  BY DEF DrainPod
<1>2. pending \in Seq(Template) /\ Head(pending) \in Template /\ Tail(pending) \in Seq(Template)
  BY DEF IInv, TypeOK, DrainPod
<1>3. CASE \E r \in {"ok", "failed", "error"} : Return(r)
  BY <1>1, <1>3, ReturnStep DEF IInv, TypeOK
<1>4. ASSUME NEW out \in SchedulePodWithStrategy(temp.order, temp.alloc, Head(pending), headroom),
             temp' = [order |-> out.order, alloc |-> out.alloc],
             pending' = Tail(pending),
             UNCHANGED <<call, target, result>>
      PROVE  IInv'
  <2>1. temp.order \in Seq(Node) /\ temp.alloc \in [Node -> AllocType]
    BY DEF IInv, TypeOK
  <2>2. out.order \in Seq(Node) /\ out.alloc \in [Node -> AllocType] /\ Sound(out.alloc)
    BY <1>2, <2>1, OutcomeSound DEF IInv
  <2>3. TypeOK'
    BY <1>1, <1>2, <1>4, <2>2 DEF IInv, TypeOK
  <2>4. Sound(alloc)' /\ Sound(temp.alloc)'
    BY <1>1, <1>4, <2>2, SoundUnchanged DEF IInv
  <2>5. QED
    BY <1>1, <2>3, <2>4 DEF IInv, HeadroomSeen
<1>5. QED
  BY <1>3, <1>4 DEF DrainPod

\* A new factor in force is a new factor seen; nothing seen is forgotten.
LEMMA SetHeadroomStep ==
  ASSUME IInv, NEW f \in Factors, NEW pct \in HeadroomPct, SetHeadroom(f, pct)
  PROVE  IInv'
<1> USE DEF IInv, SetHeadroom
<1>1. seen \in [Factors -> SUBSET HeadroomPct] /\ headroom \in [Factors -> HeadroomPct]
  BY DEF TypeOK
<1>2. \A g \in Factors : seen[g] \subseteq seen'[g]
  BY <1>1
<1>3. HeadroomSeen'
  BY <1>1 DEF HeadroomSeen
<1>4. Sound(alloc)'
  BY <1>2 DEF Sound, SoundOn, WithinHeadroom, Admitted, Apart, Accounted, Factors
<1>5. Sound(temp.alloc)'
  BY <1>2 DEF Sound, SoundOn, WithinHeadroom, Admitted, Apart, Accounted, Factors
<1>6. TypeOK'
  BY <1>1 DEF TypeOK
<1>7. QED
  BY <1>3, <1>4, <1>5, <1>6

LEMMA NextStep == IInv /\ [Next]_schedVars => IInv'
<1> SUFFICES ASSUME IInv, [Next]_schedVars PROVE IInv'
  OBVIOUS
<1>1. CASE SchedulerStep
  <2>1. CASE AllPlaced \/ Drained
    BY <2>1, ReturnStep DEF AllPlaced, Drained, IInv, TypeOK
  <2>2. QED
    BY <1>1, <2>1, PlaceReplicaStep, DrainPodStep DEF SchedulerStep
<1>2. ASSUME NEW b \in Pdb, AddPodDisruptionBudget(b) PROVE IInv'
  <2>1. TypeOK'
    BY <1>2 DEF IInv, TypeOK, AddPodDisruptionBudget
  <2>2. QED
    BY <1>2, <2>1, ControlStep DEF AddPodDisruptionBudget
<1>3. CASE UNCHANGED schedVars
  <2>1. TypeOK'
    BY <1>3 DEF IInv, TypeOK, schedVars
  <2>2. QED
    BY <1>3, <2>1, ControlStep DEF schedVars
<1>4. QED
  BY <1>1, <1>2, <1>3, AddReplicasStep, AddDaemonSetStep, CanRemoveNodeStep, SetHeadroomStep
  DEF Next

LEMMA Inductive == Spec => []IInv
BY InitIInv, NextStep, PTL DEF Spec

\* The state of the scheduler keeps its type in every execution.
THEOREM TypeCorrect == Spec => []TypeOK
<1>1. IInv => TypeOK
  BY DEF IInv
<1>2. QED
  BY <1>1, Inductive, PTL

\* No execution overcommits a node: cpu, memory and pod count of every node, in
\* the scheduler and in the copy of a drain, stay within a headroom factor that
\* was in force since the scheduler was created.
THEOREM CapacityIsRespected == Spec => []CapacityRespected
<1>1. IInv => CapacityRespected
  BY DEF IInv, Sound, SoundOn, CapacityRespected
<1>2. QED
  BY <1>1, Inductive, PTL

\* No execution puts a pod on a node whose taints it does not tolerate or whose
\* labels its node affinity or node selector refuse.
THEOREM PlacementIsAdmissible == Spec => []PlacementAdmissible
<1>1. IInv => PlacementAdmissible
  BY DEF IInv, Sound, SoundOn, Admitted, PlacementAdmissible
<1>2. QED
  BY <1>1, Inductive, PTL

\* In no execution does a pod join one on the same node that one of its anti-affinity
\* terms selects, neither when it is placed nor when a drain moves it.
THEOREM AntiAffinityIsRespected == Spec => []AntiAffinityRespected
<1>1. IInv => AntiAffinityRespected
  BY DEF IInv, Sound, SoundOn, Apart, AntiAffinityRespected
<1>2. QED
  BY <1>1, Inductive, PTL

\* Every pod is always where the taints, its affinity, its selector and the pods it
\* excludes let it be.
THEOREM PlacementIsAllowed == Spec => []PlacementAllowed
<1>1. PlacementAdmissible /\ AntiAffinityRespected => PlacementAllowed
  BY DEF PlacementAllowed
<1>2. QED
  BY <1>1, PlacementIsAdmissible, AntiAffinityIsRespected, PTL

\* In every execution the running totals of a node, in the scheduler and in the copy of a
\* drain, are the sums of what the pods recorded on it request.
THEOREM AccountingIsExact == Spec => []AccountingExact
<1>1. IInv => AccountingExact
  BY DEF IInv, Sound, SoundOn, Accounted, AccountingExact
<1>2. QED
  BY <1>1, Inductive, PTL

--------------------------------------------------------------------------------
(* Counting the pods of some templates on the nodes.                         *)

Carried(P, pods)     == Cardinality({i \in DOMAIN pods : pods[i] \in P})
Bit(P, t)            == IF t \in P THEN 1 ELSE 0
Carries(P, al, nodes) == [n \in nodes |-> Carried(P, al[n].pods)]
Placed(P, al, nodes) == Total(Carries(P, al, nodes))

LEMMA CarriedType ==
  ASSUME NEW P, NEW pods \in Seq(Template)
  PROVE  IsFiniteSet({i \in DOMAIN pods : pods[i] \in P}) /\ Carried(P, pods) \in Nat
<1>1. IsFiniteSet(DOMAIN pods)
  BY FS_Interval
<1>2. IsFiniteSet({i \in DOMAIN pods : pods[i] \in P})
  BY <1>1, FS_Subset
<1>3. QED
  BY <1>2, FS_CardinalityType DEF Carried

LEMMA CarriedOneMore ==
  ASSUME NEW P, NEW pods \in Seq(Template), NEW t
  PROVE  Carried(P, Append(pods, t)) = Carried(P, pods) + Bit(P, t)
<1>1. PICK more, S, T, x : /\ more = Append(pods, t) /\ x = Len(pods) + 1
                           /\ S = {i \in DOMAIN pods : pods[i] \in P}
                           /\ T = {i \in DOMAIN more : more[i] \in P}
  OBVIOUS
<1>2. IsFiniteSet(S) /\ Cardinality(S) \in Nat /\ Carried(P, pods) = Cardinality(S) /\ Carried(P, more) = Cardinality(T)
  BY <1>1, CarriedType DEF Carried
<1>3. /\ DOMAIN more = (DOMAIN pods) \cup {x} /\ x \notin DOMAIN pods /\ more[x] = t
      /\ \A i \in DOMAIN pods : more[i] = pods[i]
  BY <1>1
<1>4. CASE t \in P
  <2>1. T = S \cup {x} /\ x \notin S
    BY <1>1, <1>3, <1>4
  <2>2. Cardinality(T) = Cardinality(S) + 1
    BY <1>2, <2>1, FS_AddElement
  <2>3. Bit(P, t) = 1
    BY <1>4 DEF Bit
  <2>4. Carried(P, more) = Carried(P, pods) + Bit(P, t)
    BY <1>2, <2>2, <2>3
  <2>5. QED
    BY <1>1, <2>4, Zenon
<1>5. CASE t \notin P
  <2>1. T = S
    BY <1>1, <1>3, <1>5
  <2>2. Bit(P, t) = 0
    BY <1>5 DEF Bit
  <2>3. Carried(P, more) = Carried(P, pods) + Bit(P, t)
    BY <1>2, <2>1, <2>2
  <2>4. QED
    BY <1>1, <2>3, Zenon
<1>6. QED
  BY <1>4, <1>5

LEMMA CarriedRest ==
  ASSUME NEW P, NEW pods \in Seq(Template), pods # <<>>
  PROVE  Carried(P, pods) = Carried(P, Tail(pods)) + Bit(P, Head(pods))
<1>0. PICK rest \in Seq(Template) : rest = Tail(pods)
  BY HeadTailProperties
<1>1. PICK S, T : S = {i \in DOMAIN rest : rest[i] \in P} /\ T = {i \in DOMAIN pods : pods[i] \in P}
  OBVIOUS
<1>2. /\ Len(rest) = Len(pods) - 1 /\ Head(pods) = pods[1] /\ Len(pods) \in Nat \ {0}
      /\ DOMAIN pods = 1..Len(pods) /\ DOMAIN rest = 1..Len(rest)
      /\ \A i \in 1..Len(rest) : rest[i] = pods[i + 1]
  BY <1>0, <1>1, HeadTailProperties
<1>3. /\ IsFiniteSet(S) /\ Cardinality(S) \in Nat /\ Carried(P, rest) = Cardinality(S)
      /\ IsFiniteSet(T) /\ Cardinality(T) \in Nat /\ Carried(P, pods) = Cardinality(T)
  BY <1>0, <1>1, CarriedType DEF Carried
<1>4. Cardinality(T \ {1}) = Cardinality(S)
  <2>1. PICK f : f = [i \in S |-> i + 1]
    OBVIOUS
  <2>2. f \in [S -> T \ {1}]
    BY <1>0, <1>1, <1>2, <2>1
  <2>3. \A i, j \in S : f[i] = f[j] => i = j
    BY <1>0, <1>1, <1>2, <2>1
  <2>4. ASSUME NEW k \in T \ {1} PROVE \E i \in S : f[i] = k
    <3>1. k - 1 \in 1..Len(rest) /\ rest[k - 1] = pods[k]
      BY <1>0, <1>1, <1>2
    <3>2. k - 1 \in S /\ f[k - 1] = k
      BY <1>0, <1>1, <1>2, <2>1, <3>1
    <3>3. QED
      BY <3>2
  <2>5. f \in Bijection(S, T \ {1})
    BY <2>2, <2>3, <2>4, Fun_IsBij
  <2>6. ExistsBijection(S, T \ {1})
    BY <2>5 DEF ExistsBijection
  <2>7. QED
    BY <1>3, <2>6, FS_Bijection
<1>5. Cardinality(T) = Cardinality(T \ {1}) + (IF 1 \in T THEN 1 ELSE 0)
  <2>1. Cardinality(T \ {1}) = IF 1 \in T THEN Cardinality(T) - 1 ELSE Cardinality(T)
    BY <1>3, FS_RemoveElement
  <2>2. QED
    BY <1>3, <2>1
<1>6. 1 \in T <=> Head(pods) \in P
  BY <1>0, <1>1, <1>2
<1>7. QED
  BY <1>0, <1>1, <1>3, <1>4, <1>5, <1>6 DEF Bit

LEMMA PlacedType ==
  ASSUME NEW P, NEW al \in [Node -> AllocType], NEW nodes \in SUBSET Node
  PROVE  /\ IsFiniteSet(nodes) /\ Placed(P, al, nodes) \in Int
         /\ Carries(P, al, nodes) \in [nodes -> Int]
<1>1. IsFiniteSet(nodes)
  BY NodeAssumption, FS_Subset
<1>2. \A n \in nodes : al[n].pods \in Seq(Template)
  BY DEF AllocType
<1>3. \A n \in nodes : Carried(P, al[n].pods) \in Int
  <2>1. \A n \in nodes : Carried(P, al[n].pods) \in Nat
    BY <1>2, CarriedType
  <2>2. QED
    BY <2>1
<1>4. Carries(P, al, nodes) \in [nodes -> Int]
  BY <1>3, Zenon DEF Carries
<1>5. QED
  BY <1>1, <1>4, TotalType DEF Placed

\* A node that takes a pod.
LEMMA PlacedOneMore ==
  ASSUME NEW P, NEW al \in [Node -> AllocType], NEW nodes \in SUBSET Node,
         NEW n \in nodes, NEW t \in Template, NEW al2, al2 = [al EXCEPT ![n] = WithPod(@, t)]
  PROVE  Placed(P, al2, nodes) = Placed(P, al, nodes) + Bit(P, t)
<1>1. al2 \in [Node -> AllocType]
  BY WithPodType
<1>2. PICK f, h : f = Carries(P, al, nodes) /\ h = Carries(P, al2, nodes)
  OBVIOUS
<1>3. IsFiniteSet(nodes) /\ f \in [nodes -> Int] /\ h \in [nodes -> Int]
  BY <1>1, <1>2, PlacedType
<1>4. \A m \in nodes \ {n} : h[m] = f[m]
  BY <1>2 DEF Carries
<1>5. h[n] = f[n] + Bit(P, t)
  <2>1. al[n].pods \in Seq(Template) /\ al2[n].pods = Append(al[n].pods, t)
    BY DEF AllocType, WithPod
  <2>2. QED
    BY <1>2, <2>1, CarriedOneMore DEF Carries
<1>6. Total(h) = Total(f) - f[n] + h[n] /\ Total(f) \in Int
  BY <1>3, <1>4, TotalChange, TotalType
<1>7. f[n] \in Int /\ Bit(P, t) \in Int
  BY <1>3 DEF Bit
<1>8. QED
  BY <1>2, <1>3, <1>5, <1>6, <1>7 DEF Placed

\* The nodes without one of them.
LEMMA PlacedWithout ==
  ASSUME NEW P, NEW al \in [Node -> AllocType], NEW nodes \in SUBSET Node, NEW n \in nodes
  PROVE  Placed(P, al, nodes \ {n}) + Carried(P, al[n].pods) = Placed(P, al, nodes)
<1>1. PICK f \in [nodes -> Int], h \in [nodes \ {n} -> Int] :
        f = Carries(P, al, nodes) /\ h = Carries(P, al, nodes \ {n})
  <2>1. nodes \ {n} \in SUBSET Node
    OBVIOUS
  <2>2. QED
    BY <2>1, PlacedType
<1>2. IsFiniteSet(nodes)
  BY PlacedType
<1>3. \A m \in nodes \ {n} : h[m] = f[m]
  BY <1>1 DEF Carries
<1>4. Total(f) = f[n] + Total(h)
  BY <1>2, <1>3, TotalRemove
<1>5. f[n] = Carried(P, al[n].pods) /\ f[n] \in Int
  BY <1>1 DEF Carries
<1>6. Total(h) \in Int
  BY <1>1, PlacedType DEF Placed
<1>7. QED
  BY <1>1, <1>4, <1>5, <1>6 DEF Placed

\* The templates a budget protects.
Protected(b) == {t \in Template : SelectorMatches(PdbSpec[b].selector, t)}

\* Copies counts one template, CountMatching those of a budget.
LEMMA CopiesPlaced ==
  ASSUME NEW t, NEW al \in [Node -> AllocType], NEW nodes \in SUBSET Node
  PROVE  Copies(t, al, nodes) = Total(Carries({t}, al, nodes))
<1>1. PICK f \in [nodes -> Int] : f = Carries({t}, al, nodes)
  BY PlacedType
<1>2. IsFiniteSet(nodes)
  BY PlacedType
<1>3. \A s \in SUBSET nodes : s # {} => f[CHOOSE x \in s : TRUE] = CountOf(t, al[CHOOSE x \in s : TRUE].pods)
  <2>1. \A s \in SUBSET nodes : s # {} => (CHOOSE x \in s : TRUE) \in nodes
    OBVIOUS
  <2>2. \A m \in nodes : f[m] = CountOf(t, al[m].pods)
    BY <1>1 DEF Carries, Carried, CountOf
  <2>3. QED
    BY <2>1, <2>2
<1> DEFINE Rec(h) == h = [s \in SUBSET nodes |-> IF s = {} THEN 0
                       ELSE CountOf(t, al[CHOOSE x \in s : TRUE].pods) + h[s \ {CHOOSE x \in s : TRUE}]]
<1>4. Rec(CHOOSE h : Rec(h))
  <2>1. PICK h : IsIteration(h, f, nodes)
    BY <1>2, IterationIsTotal
  <2>2. Rec(h)
    BY <1>3, <2>1 DEF IsIteration
  <2>3. QED
    BY <2>2, Zenon
<1>5. Copies(t, al, nodes) = (CHOOSE h : Rec(h))[nodes]
  BY Zenon DEF Copies, MapThenSumSet, MapThenFoldSet
<1>6. PICK h : Rec(h) /\ Copies(t, al, nodes) = h[nodes]
  BY <1>4, <1>5
<1>7. IsIteration(h, f, nodes)
  <2>1. Rec(h)
    BY <1>6
  <2>2. PICK k : k = [s \in SUBSET nodes |-> IF s = {} THEN 0
                       ELSE f[CHOOSE x \in s : TRUE] + h[s \ {CHOOSE x \in s : TRUE}]]
    OBVIOUS
  <2>3. \A s \in SUBSET nodes : h[s] = k[s]
    BY <1>3, <2>1, <2>2
  <2>4. h = k
    BY <2>1, <2>2, <2>3
  <2>5. QED
    BY <2>2, <2>4 DEF IsIteration
<1>8. h[nodes] = Total(f)
  BY <1>2, <1>7, IterationSums
<1>9. QED
  BY <1>1, <1>6, <1>8

LEMMA CountMatchingPlaced ==
  ASSUME NEW b, NEW al \in [Node -> AllocType], NEW nodes \in SUBSET Node
  PROVE  CountMatching(b, al, nodes) = Total(Carries(Protected(b), al, nodes))
<1>1. PICK f \in [nodes -> Int] : f = Carries(Protected(b), al, nodes)
  BY PlacedType
<1>2. IsFiniteSet(nodes)
  BY PlacedType
<1>3. \A s \in SUBSET nodes : s # {} => f[CHOOSE x \in s : TRUE] = Cardinality({i \in DOMAIN al[CHOOSE x \in s : TRUE].pods : SelectorMatches(PdbSpec[b].selector, al[CHOOSE x \in s : TRUE].pods[i])})
  <2>1. \A s \in SUBSET nodes : s # {} => (CHOOSE x \in s : TRUE) \in nodes
    OBVIOUS
  <2>2. \A m \in nodes : f[m] = Cardinality({i \in DOMAIN al[m].pods : SelectorMatches(PdbSpec[b].selector, al[m].pods[i])})
    <3> SUFFICES ASSUME NEW m \in nodes
                 PROVE  f[m] = Cardinality({i \in DOMAIN al[m].pods : SelectorMatches(PdbSpec[b].selector, al[m].pods[i])})
      OBVIOUS
    <3>1. al[m].pods \in Seq(Template)
      BY DEF AllocType
    <3>2. \A i \in DOMAIN al[m].pods : al[m].pods[i] \in Template
      BY <3>1
    <3>3. {i \in DOMAIN al[m].pods : al[m].pods[i] \in Protected(b)}
            = {i \in DOMAIN al[m].pods : SelectorMatches(PdbSpec[b].selector, al[m].pods[i])}
      BY <3>2 DEF Protected
    <3>4. QED
      BY <1>1, <3>3 DEF Carries, Carried
  <2>3. QED
    BY <2>1, <2>2
<1> DEFINE Rec(h) == h = [s \in SUBSET nodes |-> IF s = {} THEN 0
                       ELSE Cardinality({i \in DOMAIN al[CHOOSE x \in s : TRUE].pods : SelectorMatches(PdbSpec[b].selector, al[CHOOSE x \in s : TRUE].pods[i])}) + h[s \ {CHOOSE x \in s : TRUE}]]
<1>4. Rec(CHOOSE h : Rec(h))
  <2>1. PICK h : IsIteration(h, f, nodes)
    BY <1>2, IterationIsTotal
  <2>2. Rec(h)
    BY <1>3, <2>1 DEF IsIteration
  <2>3. QED
    BY <2>2, Zenon
<1>5. CountMatching(b, al, nodes) = (CHOOSE h : Rec(h))[nodes]
  BY Zenon DEF CountMatching, MapThenSumSet, MapThenFoldSet
<1>6. PICK h : Rec(h) /\ CountMatching(b, al, nodes) = h[nodes]
  BY <1>4, <1>5
<1>7. IsIteration(h, f, nodes)
  <2>1. Rec(h)
    BY <1>6
  <2>2. PICK k : k = [s \in SUBSET nodes |-> IF s = {} THEN 0
                       ELSE f[CHOOSE x \in s : TRUE] + h[s \ {CHOOSE x \in s : TRUE}]]
    OBVIOUS
  <2>3. \A s \in SUBSET nodes : h[s] = k[s]
    BY <1>3, <2>1, <2>2
  <2>4. h = k
    BY <2>1, <2>2, <2>3
  <2>5. QED
    BY <2>2, <2>4 DEF IsIteration
<1>8. h[nodes] = Total(f)
  BY <1>2, <1>7, IterationSums
<1>9. QED
  BY <1>1, <1>6, <1>8

--------------------------------------------------------------------------------
(* What a drain keeps: its copy holds all nodes but the target, each of them *)
(* once, and every pod of the cluster is in the copy or still to be moved.   *)

NodesOnce == Len(order) = Cardinality(live)

Conserved ==
  call = "drain" =>
    /\ Range(temp.order) = live \ target
    /\ \A P \in SUBSET Template :
         Placed(P, temp.alloc, live \ target) + Carried(P, pending) = Placed(P, alloc, live)

LEMMA ScheduleLength ==
  ASSUME NEW ord \in Seq(Node), NEW al, NEW t, NEW h,
         NEW out \in SchedulePodWithStrategy(ord, al, t, h)
  PROVE  Len(out.order) = Len(ord)
<1>1. PICK p \in SortedByUtilization(ord, al) : out.order = p
  BY DEF SchedulePodWithStrategy
<1>2. DOMAIN ord = 1..Len(ord) /\ Len(ord) \in Nat /\ DOMAIN p = DOMAIN ord
  BY DEF SortedByUtilization
<1>3. p \in [1..Len(ord) -> Range(ord)]
  BY <1>2 DEF SortedByUtilization
<1>4. p \in Seq(Range(ord)) /\ Len(p) = Len(ord)
  BY <1>2, <1>3
<1>5. QED
  BY <1>1, <1>4

\* A success books the pod on a node, whatever else it reorders.
LEMMA SuccessBooks ==
  ASSUME NEW ord \in Seq(Node), NEW al, NEW t, NEW h,
         NEW out \in SchedulePodWithStrategy(ord, al, t, h), out.ok
  PROVE  /\ Range(out.order) = Range(ord)
         /\ \E n \in Range(ord) : out.alloc = [al EXCEPT ![n] = WithPod(@, t)]
<1>1. PICK p \in SortedByUtilization(ord, al) :
        \/ out = [ok |-> FALSE, order |-> p, alloc |-> al]
        \/ \E i \in DOMAIN p : out = [ok |-> TRUE, order |-> p, alloc |-> [al EXCEPT ![p[i]] = WithPod(@, t)]]
  BY DEF SchedulePodWithStrategy
<1>2. out # [ok |-> FALSE, order |-> p, alloc |-> al]
  OBVIOUS
<1>3. PICK i \in DOMAIN p : out = [ok |-> TRUE, order |-> p, alloc |-> [al EXCEPT ![p[i]] = WithPod(@, t)]]
  BY <1>1, <1>2
<1>4. p[i] \in Range(ord) /\ out.alloc = [al EXCEPT ![p[i]] = WithPod(@, t)]
  BY <1>3 DEF SortedByUtilization
<1>5. QED
  BY <1>4, ScheduleOutcome

LEMMA LiveNodes ==
  ASSUME TypeOK
  PROVE  live \in SUBSET Node /\ IsFiniteSet(live) /\ (NodesOnce => order \in Injection(1..Len(order), live))
<1>1. order \in Seq(Node) /\ Len(order) \in Nat /\ order \in [1..Len(order) -> Node]
  BY DEF TypeOK
<1>2. live \in SUBSET Node
  BY <1>1 DEF live, Range
<1>3. IsFiniteSet(live)
  BY <1>2, NodeAssumption, FS_Subset
<1>4. ASSUME NodesOnce PROVE order \in Injection(1..Len(order), live)
  <2>1. order \in Surjection(1..Len(order), live)
    BY <1>1 DEF live, Range, Surjection
  <2>2. IsFiniteSet(1..Len(order)) /\ Cardinality(1..Len(order)) = Len(order)
    BY <1>1, FS_Interval
  <2>3. QED
    BY <1>4, <2>1, <2>2, FS_SurjSameCardinalityImpliesInj DEF NodesOnce
<1>5. QED
  BY <1>2, <1>3, <1>4

LEMMA WithoutIt ==
  ASSUME TypeOK, NodesOnce, NEW n \in live
  PROVE  Without(n) \in Seq(Node) /\ Range(Without(n)) = live \ {n}
<1>1. order \in Seq(Node) /\ Len(order) \in Nat /\ DOMAIN order = 1..Len(order)
  BY DEF TypeOK
<1>2. \A j, k \in 1..Len(order) : order[j] = order[k] => j = k
  BY LiveNodes, Fun_InjectionProperties
<1>3. PICK i \in 1..Len(order) : order[i] = n /\ Without(n) = SubSeq(order, 1, i - 1) \o SubSeq(order, i + 1, Len(order))
  <2>1. \E k \in DOMAIN order : order[k] = n
    BY DEF live, Range
  <2>2. PICK m : m = (CHOOSE k \in DOMAIN order : order[k] = n)
    OBVIOUS
  <2>3. m \in DOMAIN order /\ order[m] = n
    BY <2>1, <2>2
  <2>4. QED
    BY <1>1, <2>2, <2>3 DEF Without
<1>4. PICK front, back : front = SubSeq(order, 1, i - 1) /\ back = SubSeq(order, i + 1, Len(order))
  OBVIOUS
<1>5. /\ front \in Seq(Node) /\ Len(front) = i - 1
      /\ \A k \in 1..(i - 1) : front[k] = order[k]
  BY <1>1, <1>4, SubSeqProperties
<1>6. /\ back \in Seq(Node) /\ Len(back) = Len(order) - i
      /\ \A k \in 1..(Len(order) - i) : back[k] = order[i + k]
  <2>1. PICK m, l : m = i + 1 /\ l = Len(order)
    OBVIOUS
  <2>2. /\ back = SubSeq(order, m, l) /\ m \in 1..(Len(order) + 1) /\ l \in m - 1..Len(order)
    BY <1>1, <1>4, <2>1
  <2>3. /\ back \in Seq(Node) /\ Len(back) = (IF m <= l THEN l - m + 1 ELSE 0)
        /\ \A k \in 1..(l - m + 1) : back[k] = order[m + k - 1]
    BY <1>1, <2>2, SubSeqProperties
  <2>4. Len(back) = Len(order) - i
    <3>1. i \in Int /\ i <= l /\ l \in Int /\ m = i + 1
      BY <1>1, <2>1
    <3>2. CASE m <= l
      <4>1. Len(back) = l - m + 1
        BY <2>3, <3>2
      <4>2. QED
        BY <2>1, <3>1, <4>1
    <3>3. CASE ~(m <= l)
      <4>1. Len(back) = 0 /\ l = i
        BY <2>3, <3>1, <3>3
      <4>2. QED
        BY <2>1, <3>1, <4>1
    <3>4. QED
      BY <3>2, <3>3
  <2>5. ASSUME NEW k \in 1..(Len(order) - i) PROVE back[k] = order[i + k]
    <3>1. l - m + 1 = Len(order) - i /\ m + k - 1 = i + k
      BY <1>1, <2>1
    <3>2. QED
      BY <2>3, <3>1
  <2>6. QED
    BY <2>3, <2>4, <2>5
<1>7. PICK w : w = Without(n)
  OBVIOUS
<1>8. /\ w \in Seq(Node) /\ Len(w) = Len(order) - 1 /\ DOMAIN w = 1..(Len(order) - 1)
      /\ \A k \in 1..(Len(order) - 1) : w[k] = IF k <= i - 1 THEN order[k] ELSE order[k + 1]
  <2>1. w = front \o back
    BY <1>3, <1>4, <1>7
  <2>2. w \in Seq(Node) /\ Len(w) = Len(order) - 1
    <3>1. w \in Seq(Node) /\ Len(w) = Len(front) + Len(back)
      BY <1>5, <1>6, <2>1, ConcatProperties
    <3>2. QED
      BY <1>1, <1>5, <1>6, <3>1
  <2>3. ASSUME NEW k \in 1..(Len(order) - 1) PROVE w[k] = IF k <= i - 1 THEN order[k] ELSE order[k + 1]
    <3>1. w[k] = IF k <= Len(front) THEN front[k] ELSE back[k - Len(front)]
      BY <1>1, <1>5, <1>6, <2>1, ConcatProperties
    <3>2. CASE k <= i - 1
      BY <1>5, <3>1, <3>2
    <3>3. CASE ~(k <= i - 1)
      <4>1. k - (i - 1) \in 1..(Len(order) - i) /\ i + (k - (i - 1)) = k + 1
        BY <1>1, <3>3
      <4>2. back[k - (i - 1)] = order[k + 1]
        BY <1>6, <4>1
      <4>3. QED
        BY <1>5, <3>1, <3>3, <4>2
    <3>4. QED
      BY <3>2, <3>3
  <2>4. QED
    BY <2>2, <2>3
<1>9. Range(w) \subseteq live \ {n}
  <2> SUFFICES ASSUME NEW k \in 1..(Len(order) - 1) PROVE w[k] \in live \ {n}
    BY <1>8 DEF Range
  <2>1. PICK l \in 1..Len(order) : w[k] = order[l] /\ l # i
    BY <1>1, <1>8
  <2>2. QED
    BY <1>1, <1>2, <1>3, <2>1 DEF live, Range
<1>10. live \ {n} \subseteq Range(w)
  <2> SUFFICES ASSUME NEW m \in live, m # n PROVE m \in Range(w)
    OBVIOUS
  <2>1. PICK l \in 1..Len(order) : order[l] = m
    BY <1>1 DEF live, Range
  <2>2. l # i
    BY <1>3, <2>1
  <2>3. CASE l < i
    <3>1. l \in 1..(Len(order) - 1) /\ w[l] = m
      BY <1>1, <1>8, <2>1, <2>3
    <3>2. QED
      BY <1>8, <3>1 DEF Range
  <2>4. CASE l > i
    <3>1. l - 1 \in 1..(Len(order) - 1) /\ w[l - 1] = m
      BY <1>1, <1>8, <2>1, <2>4
    <3>2. QED
      BY <1>8, <3>1 DEF Range
  <2>5. QED
    BY <1>1, <2>2, <2>3, <2>4
<1>11. QED
  BY <1>7, <1>8, <1>9, <1>10

DrainInv == NodesOnce /\ Conserved

\* Of a call that is none of a drain, only the order matters.
LEMMA NoDrain ==
  ASSUME TypeOK, DrainInv, call' # "drain", order' = order
  PROVE  DrainInv'
BY DEF DrainInv, NodesOnce, Conserved, live

LEMMA SameDrain ==
  ASSUME TypeOK, DrainInv, UNCHANGED <<order, alloc, call, pending, target, temp>>
  PROVE  DrainInv'
BY DEF DrainInv, NodesOnce, Conserved, live

LEMMA PlaceReplicaDrain ==
  ASSUME TypeOK, DrainInv, PlaceReplica
  PROVE  DrainInv'
<1>1. PICK out \in SchedulePodWithStrategy(order, alloc, Head(pending), headroom) :
        /\ order' = out.order
        /\ call' \in {call, "none"} /\ call # "drain"
  BY DEF PlaceReplica, Return
<1>2. Range(out.order) = Range(order) /\ Len(out.order) = Len(order)
  BY ScheduleOutcome, ScheduleLength DEF TypeOK
<1>3. NodesOnce'
  BY <1>1, <1>2 DEF DrainInv, NodesOnce, live
<1>4. call' # "drain"
  BY <1>1
<1>5. QED
  BY <1>3, <1>4 DEF DrainInv, Conserved

LEMMA CanRemoveNodeDrain ==
  ASSUME TypeOK, DrainInv, NEW n \in Node, CanRemoveNode(n)
  PROVE  DrainInv'
<1>1. UNCHANGED <<order, alloc>>
  BY DEF CanRemoveNode
<1>2. CASE \E r : Return(r)
  BY <1>1, <1>2, NoDrain DEF Return
<1>3. CASE /\ n \in live
           /\ call' = "drain" /\ target' = {n}
           /\ pending' = alloc[n].pods
           /\ temp' = [order |-> Without(n), alloc |-> alloc]
  <2>1. Range(temp'.order) = live \ {n} /\ temp'.alloc = alloc
    BY <1>3, WithoutIt DEF DrainInv
  <2>2. ASSUME NEW P \in SUBSET Template
        PROVE  Placed(P, alloc, live \ {n}) + Carried(P, alloc[n].pods) = Placed(P, alloc, live)
    BY <1>3, LiveNodes, PlacedWithout DEF TypeOK
  <2>3. live' = live
    BY <1>1 DEF live
  <2>4. Conserved'
    BY <1>1, <1>3, <2>1, <2>2, <2>3 DEF Conserved
  <2>5. NodesOnce'
    BY <1>1, <2>3 DEF DrainInv, NodesOnce
  <2>6. QED
    BY <2>4, <2>5 DEF DrainInv
<1>4. QED
  BY <1>2, <1>3 DEF CanRemoveNode

\* The copy of a drain takes one more pod.
LEMMA DrainPodDrain ==
  ASSUME TypeOK, DrainInv, DrainPod
  PROVE  DrainInv'
<1>1. UNCHANGED <<order, alloc>> /\ call = "drain"
  BY DEF DrainPod
<1>2. CASE Return("failed")
  BY <1>1, <1>2, NoDrain DEF Return
<1>3. ASSUME NEW out \in SchedulePodWithStrategy(temp.order, temp.alloc, Head(pending), headroom), out.ok,
             temp' = [order |-> out.order, alloc |-> out.alloc], pending' = Tail(pending), UNCHANGED <<call, target>>
      PROVE  DrainInv'
  <2>1. /\ temp.order \in Seq(Node) /\ temp.alloc \in [Node -> AllocType] /\ pending \in Seq(Template)
        /\ pending # <<>> /\ Head(pending) \in Template
    BY DEF TypeOK, DrainPod
  <2>2. PICK n \in Range(temp.order) :
          /\ Range(out.order) = Range(temp.order)
          /\ out.alloc = [temp.alloc EXCEPT ![n] = WithPod(@, Head(pending))]
    <3>1. PICK t \in Template : t = Head(pending)
      BY <2>1
    <3>2. out \in SchedulePodWithStrategy(temp.order, temp.alloc, t, headroom) /\ out.ok
      BY <1>3, <3>1
    <3>3. /\ Range(out.order) = Range(temp.order)
          /\ \E n \in Range(temp.order) : out.alloc = [temp.alloc EXCEPT ![n] = WithPod(@, t)]
      BY <2>1, <3>2, SuccessBooks
    <3>4. QED
      BY <3>1, <3>3
  <2>3. live' = live /\ live \ target \in SUBSET Node
    BY <1>1, LiveNodes DEF live
  <2>4. Range(temp.order) = live \ target
    BY <1>1 DEF DrainInv, Conserved
  <2>5. ASSUME NEW P \in SUBSET Template
        PROVE  Placed(P, out.alloc, live \ target) + Carried(P, Tail(pending)) = Placed(P, alloc, live)
    <3>1. Placed(P, out.alloc, live \ target) = Placed(P, temp.alloc, live \ target) + Bit(P, Head(pending))
      <4>0. PICK al2 : al2 = out.alloc
        OBVIOUS
      <4>1. PICK al \in [Node -> AllocType], t \in Template, nodes \in SUBSET Node :
              al = temp.alloc /\ t = Head(pending) /\ nodes = live \ target
        BY <2>1, <2>3
      <4>2. n \in nodes /\ al2 = [al EXCEPT ![n] = WithPod(@, t)]
        BY <2>2, <2>4, <4>0, <4>1
      <4>3. Placed(P, al2, nodes) = Placed(P, al, nodes) + Bit(P, t)
        BY <4>2, PlacedOneMore
      <4>4. QED
        BY <4>0, <4>1, <4>3, Zenon
    <3>2. Carried(P, pending) = Carried(P, Tail(pending)) + Bit(P, Head(pending))
      BY <2>1, CarriedRest
    <3>3. Placed(P, temp.alloc, live \ target) + Carried(P, pending) = Placed(P, alloc, live)
      BY <1>1 DEF DrainInv, Conserved
    <3>4. /\ Placed(P, temp.alloc, live \ target) \in Int /\ Bit(P, Head(pending)) \in Int
          /\ Tail(pending) \in Seq(Template)
      <4>1. Placed(P, temp.alloc, live \ target) \in Int
        BY <2>1, <2>3, PlacedType
      <4>2. QED
        BY <2>1, <4>1 DEF Bit
    <3>5. Carried(P, Tail(pending)) \in Nat
      BY <3>4, CarriedType
    <3>6. QED
      BY <3>1, <3>2, <3>3, <3>4, <3>5
  <2>6. Conserved'
    BY <1>1, <1>3, <2>2, <2>3, <2>4, <2>5 DEF Conserved
  <2>7. NodesOnce'
    BY <1>1, <2>3 DEF DrainInv, NodesOnce
  <2>8. QED
    BY <2>6, <2>7 DEF DrainInv
<1>4. QED
  BY <1>2, <1>3 DEF DrainPod

LEMMA NextDrain ==
  ASSUME TypeOK, DrainInv, [Next]_schedVars
  PROVE  DrainInv'
<1>1. CASE AllPlaced \/ Drained
  BY <1>1, NoDrain DEF AllPlaced, Drained, Return
<1>2. ASSUME NEW b \in Pdb, AddPodDisruptionBudget(b) PROVE DrainInv'
  BY <1>2, SameDrain DEF AddPodDisruptionBudget
<1>3. ASSUME NEW kind \in {"add", "addJob"}, NEW t \in Template, NEW k \in 0..MaxReplicas, AddReplicas(kind, t, k)
      PROVE  DrainInv'
  BY <1>3, NoDrain DEF AddReplicas
<1>4. ASSUME NEW t \in Template, AddDaemonSet(t) PROVE DrainInv'
  BY <1>4, NoDrain DEF AddDaemonSet, Idle
<1>5. ASSUME NEW f \in Factors, NEW pct \in HeadroomPct, SetHeadroom(f, pct) PROVE DrainInv'
  BY <1>5, SameDrain DEF SetHeadroom
<1>6. CASE UNCHANGED schedVars
  BY <1>6, SameDrain DEF schedVars
<1>7. QED
  BY <1>1, <1>2, <1>3, <1>4, <1>5, <1>6, PlaceReplicaDrain, DrainPodDrain, CanRemoveNodeDrain DEF Next, SchedulerStep

LEMMA InitDrain == SchedulerInit => DrainInv
<1> SUFFICES ASSUME SchedulerInit PROVE DrainInv
  OBVIOUS
<1>1. order \in [1..Cardinality(Node) -> Node] /\ Range(order) = Node /\ call # "drain"
  BY DEF SchedulerInit
<1>2. Cardinality(Node) \in Nat
  BY NodeAssumption, FS_CardinalityType
<1>3. Len(order) = Cardinality(Node)
  BY <1>1, <1>2
<1>4. QED
  BY <1>1, <1>3 DEF DrainInv, NodesOnce, Conserved, live

LEMMA DrainInvariant == Spec => []DrainInv
<1>1. TypeOK /\ DrainInv /\ [Next]_schedVars => DrainInv'
  BY NextDrain
<1>2. QED
  BY <1>1, InitDrain, TypeCorrect, PTL DEF Spec

--------------------------------------------------------------------------------

LEMMA DrainCounts ==
  ASSUME TypeOK, DrainInv
  PROVE  DrainConservesPods
<1> SUFFICES ASSUME call = "drain" PROVE DrainConservesPods
  BY DEF DrainConservesPods
<1>1. Range(temp.order) = live \ target
  BY DEF DrainInv, Conserved
<1>2. live \in SUBSET Node /\ live \ target \in SUBSET Node
  BY LiveNodes
<1>3. ASSUME NEW t \in Template
      PROVE  Copies(t, temp.alloc, Range(temp.order)) + CountOf(t, pending) = Copies(t, alloc, live)
  <2>1. Copies(t, temp.alloc, live \ target) = Placed({t}, temp.alloc, live \ target)
    BY <1>2, CopiesPlaced DEF Placed, TypeOK
  <2>2. Copies(t, alloc, live) = Placed({t}, alloc, live)
    BY <1>2, CopiesPlaced DEF Placed, TypeOK
  <2>3. CountOf(t, pending) = Carried({t}, pending)
    BY DEF CountOf, Carried
  <2>4. Placed({t}, temp.alloc, live \ target) + Carried({t}, pending) = Placed({t}, alloc, live)
    BY DEF DrainInv, Conserved
  <2>5. QED
    BY <1>1, <2>1, <2>2, <2>3, <2>4
<1>4. QED
  BY <1>1, <1>3 DEF DrainConservesPods

\* The pods of a budget that are in place while one of them is on its way.
LEMMA BudgetKept ==
  ASSUME TypeOK, DrainInv, DrainPod, call' = "drain", NEW b \in pdbs,
         SelectorMatches(PdbSpec[b].selector, Head(pending)), NEW min \in PdbSpec[b].minAvailable
  PROVE  CountMatching(b, temp.alloc, live \ target)
           + Cardinality({i \in DOMAIN Tail(pending) : SelectorMatches(PdbSpec[b].selector, Tail(pending)[i])}) >= min
<1> PICK P \in SUBSET Template : P = Protected(b)
  BY DEF Protected
<1>1. live \in SUBSET Node /\ live \ target \in SUBSET Node /\ temp.alloc \in [Node -> AllocType] /\ alloc \in [Node -> AllocType]
  BY LiveNodes DEF TypeOK
<1>2. pending \in Seq(Template) /\ pending # <<>> /\ Head(pending) \in Template /\ Tail(pending) \in Seq(Template) /\ call = "drain"
  BY DEF TypeOK, DrainPod
<1>3. CountMatching(b, temp.alloc, live \ target) = Placed(P, temp.alloc, live \ target)
  BY <1>1, CountMatchingPlaced DEF Placed
<1>4. CountPods(b) = Placed(P, alloc, live)
  BY <1>1, CountMatchingPlaced DEF Placed, CountPods
<1>5. Placed(P, temp.alloc, live \ target) + Carried(P, pending) = Placed(P, alloc, live)
  BY <1>2 DEF DrainInv, Conserved
<1>6. Carried(P, pending) = Carried(P, Tail(pending)) + 1 /\ Carried(P, Tail(pending)) \in Nat
  <2>1. Bit(P, Head(pending)) = 1
    BY <1>2 DEF Bit, Protected
  <2>2. QED
    BY <1>2, <2>1, CarriedRest, CarriedType
<1>7. Cardinality({i \in DOMAIN Tail(pending) : SelectorMatches(PdbSpec[b].selector, Tail(pending)[i])})
        = Carried(P, Tail(pending))
  <2>1. PICK rest \in Seq(Template) : rest = Tail(pending)
    BY <1>2
  <2>2. \A i \in DOMAIN rest : rest[i] \in Template
    OBVIOUS
  <2>3. {i \in DOMAIN rest : rest[i] \in P} = {i \in DOMAIN rest : SelectorMatches(PdbSpec[b].selector, rest[i])}
    BY <2>2 DEF Protected
  <2>4. QED
    BY <2>1, <2>3 DEF Carried
<1>8. CountPods(b) > min /\ min \in Int
  <2>1. CanEvictPod(Head(pending))
    BY DEF DrainPod, Return
  <2>2. QED
    BY <2>1, PdbAssumption DEF CanEvictPod, TypeOK
<1>9. Placed(P, temp.alloc, live \ target) \in Int
  BY <1>1, PlacedType
<1>10. Placed(P, temp.alloc, live \ target) + Carried(P, Tail(pending)) >= min
  BY <1>4, <1>5, <1>6, <1>8, <1>9
<1>11. QED
  BY <1>3, <1>7, <1>10


BudgetsHold ==
  \A b \in pdbs :
    (call = "drain" /\ call' = "drain" /\ pending # pending' /\ SelectorMatches(PdbSpec[b].selector, Head(pending))) =>
      LET waiting == {i \in DOMAIN Tail(pending) : SelectorMatches(PdbSpec[b].selector, Tail(pending)[i])}
          inPlace == CountMatching(b, temp.alloc, live \ target) + Cardinality(waiting)
      IN  \A min \in PdbSpec[b].minAvailable : inPlace >= min

\* In every execution a drain conserves the pods of the cluster in its copy, and
\* evicting them one by one leaves every disruption budget what it asks for.
THEOREM DrainIsSound == Spec => DrainSound
<1>1. TypeOK /\ DrainInv => DrainConservesPods
  BY DrainCounts
<1>2. TypeOK /\ DrainInv /\ [Next]_schedVars => [BudgetsHold]_schedVars
  <2> SUFFICES ASSUME TypeOK, DrainInv, [Next]_schedVars, schedVars' # schedVars PROVE BudgetsHold
    OBVIOUS
  <2> SUFFICES ASSUME NEW b \in pdbs, call = "drain", call' = "drain", pending # pending',
                      SelectorMatches(PdbSpec[b].selector, Head(pending)),
                      NEW min \in PdbSpec[b].minAvailable
               PROVE  CountMatching(b, temp.alloc, live \ target)
                        + Cardinality({i \in DOMAIN Tail(pending) : SelectorMatches(PdbSpec[b].selector, Tail(pending)[i])})
                        >= min
    BY DEF BudgetsHold
  <2>1. DrainPod
    BY DEF Next, SchedulerStep, PlaceReplica, AllPlaced, Drained, Return, AddPodDisruptionBudget, AddReplicas,
           AddDaemonSet, CanRemoveNode, SetHeadroom, Idle
  <2>2. QED
    BY <2>1, BudgetKept
<1>3. QED
  BY <1>1, <1>2, TypeCorrect, DrainInvariant, PTL DEF Spec, DrainSound, DrainKeepsBudgets, BudgetsHold

--------------------------------------------------------------------------------

\* No node is fuller than itself.
LEMMA NotFullerThanItself ==
  ASSUME TypeOK, NEW n \in Node
  PROVE  ~FullerThan(n, n, alloc)
<1>1. alloc[n].cpu \in Int /\ alloc[n].mem \in Int
  BY DEF TypeOK, AllocType
<1>2. NodeSpec[n].vcores \in Int /\ NodeSpec[n].memory \in Int
  BY NodeAssumption
<1>3. /\ ~(alloc[n].cpu * NodeSpec[n].vcores > alloc[n].cpu * NodeSpec[n].vcores)
      /\ ~(alloc[n].mem * NodeSpec[n].memory > alloc[n].mem * NodeSpec[n].memory)
  <2>1. alloc[n].cpu * NodeSpec[n].vcores \in Int /\ alloc[n].mem * NodeSpec[n].memory \in Int
    BY <1>1, <1>2
  <2>2. \A x \in Int : ~(x > x)
    OBVIOUS
  <2>3. QED
    BY <2>1, <2>2
<1>4. QED
  BY <1>3 DEF FullerThan

\* The pod goes to the first node of a sorted slice that accommodates it.
LEMMA FirstFitIsFullest ==
  ASSUME TypeOK, NEW t, NEW out \in SchedulePodWithStrategy(order, alloc, t, headroom),
         NEW n \in Node, out.alloc[n] # alloc[n],
         NEW m \in live, CanScheduleOnNode(t, m, alloc[m], headroom, live)
  PROVE  ~FullerThan(m, n, alloc)
<1> DEFINE fits(x) == CanScheduleOnNode(t, x, alloc[x], headroom, live)
<1>1. PICK p \in SortedByUtilization(order, alloc) :
        \/ out = [ok |-> FALSE, order |-> p, alloc |-> alloc]
        \/ \E i \in DOMAIN p :
             /\ \A j \in 1..(i - 1) : ~fits(p[j])
             /\ out = [ok |-> TRUE, order |-> p, alloc |-> [alloc EXCEPT ![p[i]] = WithPod(@, t)]]
  BY DEF SchedulePodWithStrategy, live
<1>2. PICK i \in DOMAIN p :
        /\ \A j \in 1..(i - 1) : ~fits(p[j])
        /\ out = [ok |-> TRUE, order |-> p, alloc |-> [alloc EXCEPT ![p[i]] = WithPod(@, t)]]
  BY <1>1
<1>3. alloc \in [Node -> AllocType] /\ order \in Seq(Node)
  BY DEF TypeOK
<1>4. n = p[i]
  BY <1>2, <1>3
<1>5. /\ DOMAIN p = 1..Len(order) /\ Len(order) \in Nat /\ Range(p) = live
      /\ \A k, j \in DOMAIN p : k < j => ~FullerThan(p[j], p[k], alloc)
  BY <1>3 DEF SortedByUtilization, live
<1>6. PICK j \in DOMAIN p : p[j] = m
  BY <1>5 DEF Range
<1>7. ~(j \in 1..(i - 1))
  BY <1>2, <1>6
<1>8. CASE j = i
  BY <1>4, <1>6, <1>8, NotFullerThanItself
<1>9. CASE i < j
  BY <1>4, <1>5, <1>6, <1>9
<1>10. QED
  BY <1>5, <1>7, <1>8, <1>9

FullestFirst ==
  \A n \in Node : (call \in {"add", "addJob"} /\ alloc'[n] # alloc[n]) =>
    ~\E m \in live : /\ FullerThan(m, n, alloc)
                     /\ CanScheduleOnNode(Head(pending), m, alloc[m], headroom, live)

\* In every execution a pod that a deployment, stateful set, pod or job adds goes to a
\* node than which none that accommodates it is fuller at that moment.
THEOREM FullestNodeIsFirst == Spec => FullestNodeFirst
<1>1. TypeOK /\ [Next]_schedVars => [FullestFirst]_schedVars
  <2> SUFFICES ASSUME TypeOK, Next,
                      NEW n \in Node, call \in {"add", "addJob"}, alloc'[n] # alloc[n],
                      NEW m \in live, CanScheduleOnNode(Head(pending), m, alloc[m], headroom, live)
               PROVE  ~FullerThan(m, n, alloc)
    BY DEF FullestFirst
  <2>1. PlaceReplica
    BY DEF Next, SchedulerStep, AllPlaced, DrainPod, Drained, AddPodDisruptionBudget, AddReplicas,
           AddDaemonSet, CanRemoveNode, SetHeadroom, Idle
  <2>2. PICK out \in SchedulePodWithStrategy(order, alloc, Head(pending), headroom) : alloc' = out.alloc
    BY <2>1 DEF PlaceReplica
  <2>3. QED
    BY <2>2, FirstFitIsFullest
<1>2. QED
  BY <1>1, TypeCorrect, PTL DEF Spec, FullestNodeFirst, FullestFirst

--------------------------------------------------------------------------------
(* The simulation of node removals: every node is in exactly one place.      *)

\* The sequence repeats nothing.
Once(s) == Len(s) = Cardinality(Range(s))

\* The nodes of a slice beyond the first k.
Beyond(s, k) == {s[i] : i \in (k + 1)..Len(s)}

LEMMA RangeFinite ==
  ASSUME NEW s \in Seq(Node)
  PROVE  Range(s) \in SUBSET Node /\ IsFiniteSet(Range(s)) /\ Cardinality(Range(s)) \in Nat
<1>1. Range(s) \in SUBSET Node
  BY DEF Range
<1>2. QED
  BY <1>1, NodeAssumption, FS_Subset, FS_CardinalityType

LEMMA OnceInjective ==
  ASSUME NEW s \in Seq(Node), Once(s)
  PROVE  \A i, j \in 1..Len(s) : s[i] = s[j] => i = j
<1>1. IsFiniteSet(Range(s)) /\ Len(s) \in Nat /\ s \in [1..Len(s) -> Node]
  BY RangeFinite
<1>2. s \in Surjection(1..Len(s), Range(s))
  BY <1>1 DEF Range, Surjection
<1>3. IsFiniteSet(1..Len(s)) /\ Cardinality(1..Len(s)) = Len(s)
  BY <1>1, FS_Interval
<1>4. s \in Injection(1..Len(s), Range(s))
  BY <1>1, <1>2, <1>3, FS_SurjSameCardinalityImpliesInj DEF Once
<1>5. QED
  BY <1>4, Fun_InjectionProperties

LEMMA NothingOnce == Once(<<>>) /\ <<>> \in Seq(Node) /\ Range(<<>>) = {} /\ Len(<<>>) = 0
<1>1. <<>> \in Seq(Node) /\ Range(<<>>) = {} /\ Len(<<>>) = 0
  BY DEF Range
<1>2. QED
  BY <1>1, FS_EmptySet DEF Once

LEMMA OnceAppend ==
  ASSUME NEW s \in Seq(Node), Once(s), NEW n \in Node, n \notin Range(s)
  PROVE  /\ Append(s, n) \in Seq(Node) /\ Len(Append(s, n)) = Len(s) + 1
         /\ Range(Append(s, n)) = Range(s) \cup {n} /\ Once(Append(s, n))
<1>1. PICK more \in Seq(Node) : more = Append(s, n)
  <2>1. Append(s, n) \in Seq(Node)
    OBVIOUS
  <2>2. QED
    BY <2>1
<1>2. /\ Len(more) = Len(s) + 1 /\ more[Len(s) + 1] = n /\ Len(s) \in Nat
      /\ \A i \in 1..Len(s) : more[i] = s[i]
  BY <1>1
<1>3. Range(more) = Range(s) \cup {n}
  BY <1>2 DEF Range
<1>4. Cardinality(Range(more)) = Cardinality(Range(s)) + 1
  BY <1>3, RangeFinite, FS_AddElement
<1>5. Len(more) = Cardinality(Range(more))
  BY <1>2, <1>4 DEF Once
<1>6. QED
  BY <1>1, <1>2, <1>3, <1>5, Zenon DEF Once

LEMMA BeyondAll ==
  ASSUME NEW s \in Seq(Node)
  PROVE  /\ Beyond(s, 0) = Range(s)
         /\ \A k \in Nat : k >= Len(s) => Beyond(s, k) = {}
         /\ \A k \in Nat : k < Len(s) => Beyond(s, k) # {}
         /\ \A k \in Nat : Beyond(s, k) \in SUBSET Node
<1>1. Len(s) \in Nat /\ s \in [1..Len(s) -> Node] /\ DOMAIN s = 1..Len(s)
  OBVIOUS
<1>2. Beyond(s, 0) = Range(s)
  <2>1. 0 + 1 = 1
    OBVIOUS
  <2>2. QED
    BY <1>1, <2>1 DEF Beyond, Range
<1>3. ASSUME NEW k \in Nat PROVE (k >= Len(s) => Beyond(s, k) = {}) /\ (k < Len(s) => s[k + 1] \in Beyond(s, k))
  BY <1>1 DEF Beyond
<1>4. ASSUME NEW k \in Nat PROVE Beyond(s, k) \in SUBSET Node
  <2>1. \A i \in (k + 1)..Len(s) : s[i] \in Node
    BY <1>1
  <2>2. QED
    BY <2>1 DEF Beyond
<1>5. QED
  BY <1>2, <1>3, <1>4

LEMMA BeyondOne ==
  ASSUME NEW s \in Seq(Node), Once(s), NEW k \in Nat, k < Len(s)
  PROVE  /\ s[k + 1] \in Node /\ s[k + 1] \notin Beyond(s, k + 1)
         /\ Beyond(s, k) = Beyond(s, k + 1) \cup {s[k + 1]}
<1>1. Len(s) \in Nat /\ k + 1 \in 1..Len(s) /\ s[k + 1] \in Node
  OBVIOUS
<1>2. s[k + 1] \notin Beyond(s, k + 1)
  <2> SUFFICES ASSUME NEW i \in ((k + 1) + 1)..Len(s), s[i] = s[k + 1] PROVE FALSE
    BY DEF Beyond
  <2>1. i \in 1..Len(s) /\ i # k + 1
    BY <1>1
  <2>2. QED
    BY <1>1, <2>1, OnceInjective
<1>3. Beyond(s, k) = Beyond(s, k + 1) \cup {s[k + 1]}
  <2>1. (k + 1)..Len(s) = ((k + 1) + 1)..Len(s) \cup {k + 1}
    BY <1>1
  <2>2. QED
    BY <2>1, Zenon DEF Beyond
<1>4. QED
  BY <1>1, <1>2, <1>3

\* SetToSeq lists a finite set once.
LEMMA SetToSeqLists ==
  ASSUME NEW S, IsFiniteSet(S)
  PROVE  /\ SetToSeq(S) \in Seq(S) /\ Range(SetToSeq(S)) = S /\ Len(SetToSeq(S)) = Cardinality(S)
<1>1. PICK n \in Nat : ExistsBijection(1..n, S)
  BY FS_NatBijection
<1>2. Cardinality(S) = n
  BY <1>1, FS_CountingElements
<1>3. PICK f \in Bijection(1..n, S) : TRUE
  BY <1>1 DEF ExistsBijection
<1>4. f \in [1..n -> S] /\ \A i, j \in 1..n : f[i] = f[j] => i = j
  BY <1>3 DEF Bijection, Injection, IsInjective
<1>5. \E g \in [1..Cardinality(S) -> S] : IsInjective(g)
  BY <1>2, <1>4 DEF IsInjective
<1>6. PICK g \in [1..n -> S] : g = SetToSeq(S) /\ IsInjective(g)
  BY <1>2, <1>5 DEF SetToSeq
<1>7. g \in Seq(S) /\ Len(g) = n /\ DOMAIN g = 1..n
  OBVIOUS
<1>8. Range(g) = S
  <2>1. g \in Injection(1..n, Range(g)) /\ g \in Surjection(1..n, Range(g))
    BY <1>6 DEF Injection, Surjection, Range, IsInjective
  <2>2. ExistsBijection(1..n, Range(g))
    BY <2>1 DEF ExistsBijection, Bijection
  <2>3. Range(g) \in SUBSET S
    BY DEF Range
  <2>4. Cardinality(Range(g)) = n
    BY <2>2, FS_CountingElements
  <2>5. QED
    BY <1>2, <2>3, <2>4, FS_Subset
<1>9. QED
  BY <1>2, <1>6, <1>7, <1>8

LEMMA ConcatRange ==
  ASSUME NEW s \in Seq(Node), NEW r \in Seq(Node)
  PROVE  /\ s \o r \in Seq(Node) /\ Len(s \o r) = Len(s) + Len(r)
         /\ Range(s \o r) = Range(s) \cup Range(r)
<1>1. PICK c : c = s \o r
  OBVIOUS
<1>2. /\ c \in Seq(Node) /\ Len(c) = Len(s) + Len(r) /\ Len(s) \in Nat /\ Len(r) \in Nat
      /\ DOMAIN c = 1..(Len(s) + Len(r)) /\ DOMAIN s = 1..Len(s) /\ DOMAIN r = 1..Len(r)
      /\ \A i \in 1..(Len(s) + Len(r)) : c[i] = IF i <= Len(s) THEN s[i] ELSE r[i - Len(s)]
  BY <1>1, ConcatProperties
<1>3. ASSUME NEW i \in 1..Len(c) PROVE c[i] \in Range(s) \cup Range(r)
  <2>1. CASE i <= Len(s)
    BY <1>2, <2>1 DEF Range
  <2>2. CASE ~(i <= Len(s))
    <3>1. i - Len(s) \in 1..Len(r) /\ c[i] = r[i - Len(s)]
      BY <1>2, <2>2
    <3>2. QED
      BY <3>1 DEF Range
  <2>3. QED
    BY <2>1, <2>2
<1>4. ASSUME NEW i \in 1..Len(s) PROVE s[i] \in Range(c)
  <2>1. i \in 1..Len(c) /\ c[i] = s[i]
    BY <1>2
  <2>2. QED
    BY <1>2, <2>1 DEF Range
<1>5. ASSUME NEW i \in 1..Len(r) PROVE r[i] \in Range(c)
  <2>1. PICK k : k = Len(s) + i
    OBVIOUS
  <2>2. k \in 1..(Len(s) + Len(r)) /\ ~(k <= Len(s)) /\ k - Len(s) = i
    BY <1>2, <2>1
  <2>3. c[k] = r[i] /\ k \in DOMAIN c
    BY <1>2, <2>2
  <2>4. QED
    BY <2>3 DEF Range
<1>6. Range(c) = Range(s) \cup Range(r)
  <2>1. Range(c) \subseteq Range(s) \cup Range(r)
    BY <1>2, <1>3 DEF Range
  <2>2. Range(s) \subseteq Range(c)
    <3>1. \A x \in Range(s) : \E i \in 1..Len(s) : x = s[i]
      BY <1>2 DEF Range
    <3>2. QED
      BY <1>4, <3>1
  <2>3. Range(r) \subseteq Range(c)
    <3>1. \A x \in Range(r) : \E i \in 1..Len(r) : x = r[i]
      BY <1>2 DEF Range
    <3>2. QED
      BY <1>5, <3>1
  <2>4. QED
    BY <2>1, <2>2, <2>3
<1>7. QED
  BY <1>1, <1>2, <1>6

--------------------------------------------------------------------------------
(* The scheduler's state keeps its type whatever its totals say: between two *)
(* levels the service resets them and keeps the pods.                        *)

LEMMA ScheduledTyped ==
  ASSUME NEW ord \in Seq(Node), NEW al \in [Node -> AllocType], NEW t \in Template, NEW h,
         NEW out \in SchedulePodWithStrategy(ord, al, t, h)
  PROVE  /\ out.order \in Seq(Node) /\ Range(out.order) = Range(ord) /\ Len(out.order) = Len(ord)
         /\ out.alloc \in [Node -> AllocType]
<1>1. ASSUME NEW n \in Node, out.alloc = [al EXCEPT ![n] = WithPod(@, t)]
      PROVE  out.alloc \in [Node -> AllocType]
  <2>1. WithPod(al[n], t) \in AllocType
    BY WithPodType
  <2>2. QED
    BY <1>1, <2>1
<1>2. /\ out.order \in Seq(Node) /\ Range(out.order) = Range(ord)
      /\ out.alloc = al \/ \E n \in Node : out.alloc = [al EXCEPT ![n] = WithPod(@, t)]
  BY ScheduleOutcome
<1>3. Len(out.order) = Len(ord)
  BY ScheduleLength
<1>4. QED
  BY <1>1, <1>2, <1>3

LEMMA ReturnTyped ==
  ASSUME TypeOK, NEW r \in {"ok", "failed", "error"}, Return(r),
         order' \in Seq(Node), alloc' \in [Node -> AllocType], UNCHANGED <<pdbs, headroom, seen>>
  PROVE  TypeOK' /\ call' = "none"
BY ReturnSound DEF TypeOK, Return

LEMMA SchedulerStepTyped ==
  ASSUME TypeOK, SchedulerStep
  PROVE  /\ TypeOK'
         /\ Range(order') = Range(order) /\ Len(order') = Len(order)
         /\ call \in {"none", "drain"} => order' = order /\ call' \in {"none", "drain"}
<1>1. order \in Seq(Node) /\ alloc \in [Node -> AllocType] /\ result \in {"ok", "failed", "error"}
  BY DEF TypeOK
<1>2. CASE AllPlaced \/ Drained
  BY <1>1, <1>2, ReturnTyped DEF AllPlaced, Drained, Return
<1>3. CASE PlaceReplica
  <2>1. PICK out \in SchedulePodWithStrategy(order, alloc, Head(pending), headroom) :
          /\ order' = out.order /\ alloc' = out.alloc
          /\ IF out.ok
             THEN pending' = Tail(pending) /\ UNCHANGED <<call, target, temp, result>>
             ELSE Return(IF call = "addJob" THEN "ok" ELSE "failed")
    BY <1>3 DEF PlaceReplica
  <2>2. /\ pending \in Seq(Template) /\ Head(pending) \in Template /\ Tail(pending) \in Seq(Template)
        /\ UNCHANGED <<pdbs, headroom, seen>> /\ call \notin {"none", "drain"}
    BY <1>3 DEF TypeOK, PlaceReplica
  <2>3. /\ order' \in Seq(Node) /\ Range(order') = Range(order) /\ Len(order') = Len(order)
        /\ alloc' \in [Node -> AllocType]
    BY <1>1, <2>1, <2>2, ScheduledTyped
  <2>4. CASE out.ok
    BY <2>1, <2>2, <2>3, <2>4 DEF TypeOK
  <2>5. CASE ~out.ok
    <3>1. \E r \in {"ok", "failed", "error"} : Return(r)
      BY <2>1, <2>5
    <3>2. QED
      BY <2>2, <2>3, <3>1, ReturnTyped
  <2>6. QED
    BY <2>2, <2>3, <2>4, <2>5
<1>4. CASE DrainPod
  <2>1. UNCHANGED <<order, alloc, pdbs, headroom, seen>> /\ call = "drain"
    BY <1>4 DEF DrainPod
  <2>2. CASE Return("failed")
    BY <1>1, <2>1, <2>2, ReturnTyped
  <2>3. ASSUME NEW out \in SchedulePodWithStrategy(temp.order, temp.alloc, Head(pending), headroom),
               temp' = [order |-> out.order, alloc |-> out.alloc],
               pending' = Tail(pending), UNCHANGED <<call, target, result>>
        PROVE  TypeOK'
    <3>1. /\ pending \in Seq(Template) /\ Head(pending) \in Template /\ Tail(pending) \in Seq(Template)
          /\ temp.order \in Seq(Node) /\ temp.alloc \in [Node -> AllocType]
      BY <1>4 DEF TypeOK, DrainPod
    <3>2. out.order \in Seq(Node) /\ out.alloc \in [Node -> AllocType]
      BY <3>1, ScheduledTyped
    <3>3. QED
      BY <2>1, <2>3, <3>1, <3>2 DEF TypeOK
  <2>4. QED
    BY <1>4, <2>1, <2>2, <2>3 DEF DrainPod, Return
<1>5. QED
  BY <1>2, <1>3, <1>4 DEF SchedulerStep

LEMMA CanRemoveNodeTyped ==
  ASSUME TypeOK, NEW n \in Node, CanRemoveNode(n)
  PROVE  TypeOK' /\ order' = order /\ call' \in {"none", "drain"}
<1>1. UNCHANGED <<order, alloc, pdbs, headroom, seen>>
  BY DEF CanRemoveNode
<1>2. order \in Seq(Node) /\ alloc \in [Node -> AllocType]
  BY DEF TypeOK
<1>3. CASE \E r \in {"ok", "failed", "error"} : Return(r)
  BY <1>1, <1>2, <1>3, ReturnTyped
<1>4. CASE /\ n \in live
           /\ call' = "drain" /\ target' = {n}
           /\ pending' = alloc[n].pods
           /\ temp' = [order |-> Without(n), alloc |-> alloc]
           /\ UNCHANGED result
  <2>1. Without(n) \in Seq(Node)
    <3>1. PICK i \in DOMAIN order : order[i] = n
      BY <1>4 DEF live, Range
    <3>2. QED
      BY <1>2, <3>1 DEF Without
  <2>2. alloc[n].pods \in Seq(Template)
    BY <1>2 DEF AllocType
  <2>3. QED
    BY <1>1, <1>2, <1>4, <2>1, <2>2 DEF TypeOK
<1>5. QED
  BY <1>1, <1>3, <1>4 DEF CanRemoveNode

LEMMA AddFuncTyped ==
  ASSUME TypeOK, AddFunc, queue \in Seq(Workload)
  PROVE  TypeOK' /\ order' = order
<1>1. Head(queue) \in Workload
  BY DEF AddFunc
<1>2. PICK t \in Template, k \in Nat : t = WorkloadSpec[Head(queue)].template /\ k = WorkloadSpec[Head(queue)].replicas
  BY <1>1, ServiceAssumption
<1>3. \/ AddDaemonSet(t)
      \/ \E kind \in {"add", "addJob"}, l \in Nat : AddReplicas(kind, t, l)
  BY <1>2 DEF AddFunc
<1>4. alloc \in [Node -> AllocType]
  BY DEF TypeOK
<1>5. CASE AddDaemonSet(t)
  <2>1. \A n \in Node : alloc'[n] \in AllocType
    BY <1>4, <1>5, WithPodType DEF AddDaemonSet
  <2>2. alloc' \in [Node -> AllocType]
    BY <1>5, <2>1 DEF AddDaemonSet
  <2>3. QED
    BY <1>5, <2>2 DEF AddDaemonSet, TypeOK
<1>6. ASSUME NEW kind \in {"add", "addJob"}, NEW l \in Nat, AddReplicas(kind, t, l) PROVE TypeOK' /\ order' = order
  <2>1. [i \in 1..l |-> t] \in Seq(Template)
    OBVIOUS
  <2>2. QED
    BY <1>6, <2>1 DEF AddReplicas, TypeOK
<1>7. QED
  BY <1>3, <1>5, <1>6

--------------------------------------------------------------------------------
(* Where the nodes are.                                                      *)

Ahead == Beyond(order, scanned)

Parted ==
  /\ scanned \in Nat
  /\ Once(order) /\ Once(remaining) /\ Once(removed)
  /\ Range(removed) \cap Range(remaining) = {} /\ Range(removed) \cap Ahead = {}
  /\ Range(remaining) \cap Ahead = {}
  /\ Range(removed) \cup Range(remaining) \cup Ahead = Node
  /\ Range(remaining) \cup Ahead # {}

\* How far a level is.
Progress ==
  /\ phase \in {"idle", "collect", "add"} => scanned = 0 /\ remaining = <<>>
  /\ phase = "enter" => \/ scanned = 0 /\ remaining = <<>>
                        \/ scanned >= Len(order) /\ remaining = order
  /\ phase \in {"collect", "add", "scan", "verdict"} => Len(order) >= 2
  /\ phase \in {"scan", "verdict"} => /\ scanned <= Len(order)
                                      /\ Len(remaining) \in {scanned, scanned - 1}
  /\ phase = "verdict" => /\ scanned < Len(order) /\ Len(remaining) = scanned
                          /\ call \in {"none", "drain"}

Answered == Once(answer) /\ Len(answer) < Cardinality(Node)

ServiceInv == ServiceTypeOK /\ (phase # "idle" => Parted) /\ Progress /\ Answered

\* Fewer nodes than all are removed.
LEMMA SomeStay ==
  ASSUME ServiceTypeOK, Parted
  PROVE  Len(removed) < Cardinality(Node)
<1>1. removed \in Seq(Node) /\ remaining \in Seq(Node) /\ order \in Seq(Node)
  BY DEF ServiceTypeOK, TypeOK
<1>2. Range(removed) \in SUBSET Node /\ Range(removed) # Node
  BY <1>1, RangeFinite DEF Parted
<1>3. Cardinality(Range(removed)) <= Cardinality(Node) /\ Cardinality(Range(removed)) # Cardinality(Node)
  BY <1>2, NodeAssumption, FS_Subset
<1>4. Cardinality(Node) \in Nat /\ Cardinality(Range(removed)) \in Nat
  BY <1>1, NodeAssumption, FS_CardinalityType, RangeFinite
<1>5. QED
  BY <1>3, <1>4 DEF Parted, Once

LEMMA OrderLength ==
  ASSUME ServiceTypeOK, Parted
  PROVE  Len(order) \in Nat /\ Len(order) <= Cardinality(Node) /\ Cardinality(Node) \in Nat
<1>1. order \in Seq(Node)
  BY DEF ServiceTypeOK, TypeOK
<1>2. Range(order) \in SUBSET Node
  BY <1>1, RangeFinite
<1>3. QED
  BY <1>1, <1>2, NodeAssumption, FS_Subset, FS_CardinalityType DEF Parted, Once

\* The parts make up the cluster.
LEMMA PartsAddUp ==
  ASSUME ServiceTypeOK, Parted
  PROVE  /\ Len(removed \o remaining \o SetToSeq(Ahead)) = Cardinality(Node)
         /\ Range(removed \o remaining \o SetToSeq(Ahead)) = Node
<1>1. removed \in Seq(Node) /\ remaining \in Seq(Node) /\ order \in Seq(Node)
  BY DEF ServiceTypeOK, TypeOK
<1>2. PICK A, R, K : A = Ahead /\ R = Range(removed) /\ K = Range(remaining)
  OBVIOUS
<1>3. A \in SUBSET Node /\ R \in SUBSET Node /\ K \in SUBSET Node
  BY <1>1, <1>2, BeyondAll, RangeFinite DEF Parted, Ahead
<1>4. IsFiniteSet(A) /\ IsFiniteSet(R) /\ IsFiniteSet(K)
  BY <1>3, NodeAssumption, FS_Subset
<1>5. PICK s \in Seq(Node) : s = SetToSeq(A) /\ Range(s) = A /\ Len(s) = Cardinality(A)
  <2>1. SetToSeq(A) \in Seq(A) /\ Range(SetToSeq(A)) = A /\ Len(SetToSeq(A)) = Cardinality(A)
    BY <1>4, SetToSeqLists
  <2>2. SetToSeq(A) \in Seq(Node)
    BY <1>3, <2>1
  <2>3. QED
    BY <2>1, <2>2
<1>6. Cardinality(Node) = Cardinality(R) + Cardinality(K) + Cardinality(A)
  <2>1. IsFiniteSet(R \cup K) /\ Cardinality(R \cup K) = Cardinality(R) + Cardinality(K) - Cardinality({})
    <3>1. R \cap K = {}
      BY <1>2 DEF Parted
    <3>2. QED
      BY <1>4, <3>1, FS_Union
  <2>2. Cardinality((R \cup K) \cup A) = Cardinality(R \cup K) + Cardinality(A) - Cardinality({})
    <3>1. (R \cup K) \cap A = {}
      BY <1>2 DEF Parted
    <3>2. QED
      BY <1>4, <2>1, <3>1, FS_Union
  <2>3. (R \cup K) \cup A = Node
    BY <1>2 DEF Parted
  <2>4. Cardinality({}) = 0 /\ Cardinality(R) \in Nat /\ Cardinality(K) \in Nat /\ Cardinality(A) \in Nat
    BY <1>4, FS_EmptySet, FS_CardinalityType
  <2>5. Cardinality(Node) = Cardinality(R \cup K) + Cardinality(A) - Cardinality({})
    BY <2>2, <2>3
  <2>6. Cardinality(R \cup K) = Cardinality(R) + Cardinality(K)
    BY <2>1, <2>4
  <2>7. QED
    BY <2>4, <2>5, <2>6
<1>7. PICK both \in Seq(Node) : /\ both = removed \o remaining /\ Len(both) = Len(removed) + Len(remaining)
                                /\ Range(both) = R \cup K
  BY <1>1, <1>2, ConcatRange
<1>8. Len(both \o s) = Len(both) + Len(s) /\ Range(both \o s) = Range(both) \cup A
  BY <1>5, ConcatRange
<1>9. Len(removed) = Cardinality(R) /\ Len(remaining) = Cardinality(K)
  BY <1>2 DEF Parted, Once
<1>10. R \cup K \cup A = Node
  BY <1>2 DEF Parted
<1>11. removed \o remaining \o SetToSeq(Ahead) = both \o s
  BY <1>2, <1>5, <1>7
<1>12. Len(both \o s) = Cardinality(Node) /\ Range(both \o s) = Node
  BY <1>5, <1>6, <1>7, <1>8, <1>9, <1>10
<1>13. QED
  BY <1>11, <1>12, Zenon

LEMMA Partitioned == ServiceInv => NodesPartitioned
<1> SUFFICES ASSUME ServiceInv PROVE NodesPartitioned
  OBVIOUS
<1>1. Cardinality(Range(answer)) = Len(answer) /\ Len(answer) < Cardinality(Node)
  BY DEF ServiceInv, Answered, Once
<1>2. ASSUME phase # "idle"
      PROVE  /\ Len(removed \o remaining \o SetToSeq({order[i] : i \in (scanned + 1)..Len(order)})) = Cardinality(Node)
             /\ Range(removed \o remaining \o SetToSeq({order[i] : i \in (scanned + 1)..Len(order)})) = Node
             /\ Len(removed) < Cardinality(Node)
  BY <1>2, PartsAddUp, SomeStay DEF ServiceInv, Ahead, Beyond
<1>3. QED
  BY <1>1, <1>2 DEF NodesPartitioned, ServiceInv

--------------------------------------------------------------------------------

LEMMA FullCluster ==
  /\ NodeOrder \in Seq(Node) /\ Once(NodeOrder) /\ Beyond(NodeOrder, 0) = Node
<1>1. NodeOrder \in Seq(Node) /\ Once(NodeOrder) /\ Range(NodeOrder) = Node
  BY ServiceAssumption DEF Once
<1>2. QED
  BY <1>1, BeyondAll

LEMMA NothingAnswered ==
  ASSUME Node # {}
  PROVE  Once(<<>>) /\ Len(<<>>) < Cardinality(Node)
<1>1. Cardinality(Node) \in Nat /\ Cardinality(Node) # 0
  BY NodeAssumption, FS_EmptySet, FS_CardinalityType
<1>2. QED
  BY <1>1, NothingOnce

LEMMA InitService ==
  ASSUME Node # {}, ServiceInit
  PROVE  ServiceInv
<1>1. TypeOK
  BY InitIInv DEF ServiceInit, IInv
<1>2. Cardinality(Node) \in Nat
  BY NodeAssumption, FS_CardinalityType
<1>3. ServiceTypeOK
  <2>1. <<>> \in Seq(Range(Kinds)) /\ <<>> \in Seq(Workload) /\ <<>> \in Seq(Node) /\ 0 \in 0..Cardinality(Node)
    BY <1>2
  <2>2. registered \subseteq Workload /\ resources \subseteq Workload /\ phase = "idle" /\ err \in BOOLEAN
    BY DEF ServiceInit
  <2>3. QED
    BY <1>1, <2>1, <2>2 DEF ServiceInit, ServiceTypeOK
<1>4. Progress /\ phase = "idle"
  BY DEF ServiceInit, Progress
<1>5. Answered
  BY NothingAnswered DEF ServiceInit, Answered
<1>6. QED
  BY <1>3, <1>4, <1>5 DEF ServiceInv

\* The same nodes, in another order while none was looked at.
LEMMA PartedSame ==
  ASSUME ServiceTypeOK, Parted, UNCHANGED <<scanned, remaining, removed>>, order' \in Seq(Node),
         Range(order') = Range(order), Len(order') = Len(order), order' = order \/ scanned = 0
  PROVE  Parted'
<1>1. order \in Seq(Node)
  BY DEF ServiceTypeOK, TypeOK
<1>2. Once(order')
  BY DEF Parted, Once
<1>3. Beyond(order', scanned) = Beyond(order, scanned)
  BY <1>1, BeyondAll
<1>4. QED
  BY <1>2, <1>3 DEF Parted, Ahead

\* A step that moves no node.
LEMMA StandStill ==
  ASSUME ServiceInv, ServiceTypeOK', UNCHANGED <<scanned, remaining, removed, answer>>,
         Range(order') = Range(order), Len(order') = Len(order), order' = order \/ phase = "add",
         \/ phase' = phase /\ (phase = "verdict" => call' \in {"none", "drain"})
         \/ phase = "collect" /\ phase' = "add"
         \/ phase = "add" /\ phase' = "scan"
         \/ phase = "scan" /\ phase' = "verdict" /\ scanned < Len(order) /\ Len(remaining) = scanned
              /\ call' \in {"none", "drain"},
         phase = "enter" => order' = order
  PROVE  ServiceInv'
<1>1. order' \in Seq(Node)
  BY DEF ServiceTypeOK, TypeOK
<1>2. phase' # "idle" => phase # "idle"
  OBVIOUS
<1>3. phase # "idle" => Parted'
  <2> SUFFICES ASSUME phase # "idle" PROVE Parted'
    OBVIOUS
  <2>1. order' = order \/ scanned = 0
    BY DEF ServiceInv, Progress
  <2>2. QED
    BY <1>1, <2>1, PartedSame DEF ServiceInv
<1>4. Progress'
  <2>1. Len(remaining) = 0 /\ scanned = 0 => Len(remaining) \in {scanned, scanned - 1}
    OBVIOUS
  <2>2. Len(<<>>) = 0
    OBVIOUS
  <2>3. Len(order) \in Nat /\ scanned = 0 => scanned <= Len(order)
    OBVIOUS
  <2>4. Len(order) \in Nat
    BY DEF ServiceInv, ServiceTypeOK, TypeOK
  <2>5. QED
    BY <2>1, <2>2, <2>3, <2>4 DEF ServiceInv, Progress
<1>5. Answered'
  BY DEF ServiceInv, Answered
<1>6. QED
  BY <1>2, <1>3, <1>4, <1>5 DEF ServiceInv

LEMMA RegisterService ==
  ASSUME ServiceInv, NEW w \in Workload, Register(w)
  PROVE  ServiceInv'
<1>1. ServiceTypeOK'
  BY DEF ServiceInv, ServiceTypeOK, TypeOK, Register, schedVars
<1>2. QED
  BY <1>1, StandStill DEF Register, schedVars, ServiceInv, Progress

LEMMA ChangeHeadroomService ==
  ASSUME ServiceInv, ChangeHeadroom
  PROVE  ServiceInv'
<1>1. PICK f \in Factors, pct \in HeadroomPct : SetHeadroom(f, pct)
  BY DEF ChangeHeadroom
<1>2. TypeOK'
  BY <1>1 DEF ServiceInv, ServiceTypeOK, TypeOK, SetHeadroom
<1>3. ServiceTypeOK'
  BY <1>2 DEF ServiceInv, ServiceTypeOK, ChangeHeadroom, serviceVars
<1>4. QED
  BY <1>1, <1>3, StandStill DEF ChangeHeadroom, serviceVars, SetHeadroom, ServiceInv, Progress

LEMMA CollectService ==
  ASSUME ServiceInv, Collect \/ SortByPriority \/ AllAdded
  PROVE  ServiceInv'
<1>1. UNCHANGED schedVars
  BY DEF Collect, SortByPriority, AllAdded
<1>2. TypeOK'
  BY <1>1 DEF ServiceInv, ServiceTypeOK, TypeOK, schedVars
<1>3. ServiceTypeOK'
  <2>1. CASE Collect
    BY <1>2, <2>1 DEF ServiceInv, ServiceTypeOK, Collect
  <2>2. CASE SortByPriority
    <3>1. resources \in SUBSET Workload
      BY DEF ServiceInv, ServiceTypeOK
    <3>2. Cardinality(resources) \in Nat
      BY <3>1, ServiceAssumption, FS_Subset, FS_CardinalityType
    <3>3. queue' \in [1..Cardinality(resources) -> resources]
      BY <2>2 DEF SortByPriority, SetToSeqs
    <3>4. queue' \in Seq(Workload)
      BY <3>1, <3>2, <3>3
    <3>5. QED
      BY <1>2, <2>2, <3>4 DEF ServiceInv, ServiceTypeOK, SortByPriority
  <2>3. CASE AllAdded
    BY <1>2, <2>3 DEF ServiceInv, ServiceTypeOK, AllAdded
  <2>4. QED
    BY <2>1, <2>2, <2>3
<1>4. QED
  BY <1>1, <1>3, StandStill DEF Collect, SortByPriority, AllAdded, schedVars

LEMMA AddFuncService ==
  ASSUME ServiceInv, AddFunc
  PROVE  ServiceInv'
<1>1. TypeOK' /\ order' = order
  BY AddFuncTyped DEF ServiceInv, ServiceTypeOK
<1>2. ServiceTypeOK'
  BY <1>1 DEF ServiceInv, ServiceTypeOK, AddFunc
<1>3. QED
  BY <1>1, <1>2, StandStill DEF AddFunc

LEMMA AddStepService ==
  ASSUME ServiceInv, AddStep
  PROVE  ServiceInv'
<1>1. TypeOK' /\ Range(order') = Range(order) /\ Len(order') = Len(order)
  BY SchedulerStepTyped DEF ServiceInv, ServiceTypeOK, AddStep
<1>2. err' \in BOOLEAN
  <2>1. PICK failed \in BOOLEAN : err' = (err \/ failed)
    <3>1. (call' = "none" /\ result' = "failed") \in BOOLEAN
      OBVIOUS
    <3>2. QED
      BY <3>1 DEF AddStep
  <2>2. QED
    BY <2>1, Zenon
<1>3. ServiceTypeOK'
  BY <1>1, <1>2 DEF ServiceInv, ServiceTypeOK, AddStep
<1>4. QED
  BY <1>1, <1>3, StandStill DEF AddStep

LEMMA TryRemoveService ==
  ASSUME ServiceInv, TryRemove
  PROVE  ServiceInv'
<1>1. /\ order \in Seq(Node) /\ scanned \in Nat /\ Len(remaining) \in Nat
      /\ scanned < Len(order) /\ Len(remaining) = scanned
  BY DEF ServiceInv, ServiceTypeOK, TypeOK, Parted, Progress, TryRemove, RemovedHere
<1>2. Candidate \in Node
  BY <1>1 DEF Candidate
<1>3. TypeOK' /\ order' = order /\ call' \in {"none", "drain"}
  BY <1>2, CanRemoveNodeTyped DEF ServiceInv, ServiceTypeOK, TryRemove
<1>4. ServiceTypeOK'
  BY <1>3 DEF ServiceInv, ServiceTypeOK, TryRemove
<1>5. QED
  BY <1>1, <1>3, <1>4, StandStill DEF TryRemove

LEMMA DrainStepService ==
  ASSUME ServiceInv, DrainStep
  PROVE  ServiceInv'
<1>1. call \in {"none", "drain"} /\ phase = "verdict"
  BY DEF ServiceInv, Progress, DrainStep
<1>2. TypeOK' /\ order' = order /\ call' \in {"none", "drain"}
  BY <1>1, SchedulerStepTyped DEF ServiceInv, ServiceTypeOK, DrainStep
<1>3. ServiceTypeOK'
  BY <1>2 DEF ServiceInv, ServiceTypeOK, DrainStep, serviceVars
<1>4. QED
  BY <1>1, <1>2, <1>3, StandStill DEF DrainStep, serviceVars

LEMMA SimulateService ==
  ASSUME Node # {}, ServiceInv, Simulate
  PROVE  ServiceInv'
<1>1. TypeOK'
  <2>1. [n \in Node |-> Empty] \in [Node -> AllocType]
    BY DEF Empty, AllocType
  <2>2. QED
    BY <2>1, FullCluster DEF ServiceInv, ServiceTypeOK, TypeOK, Simulate
<1>2. ServiceTypeOK'
  BY <1>1, NothingOnce DEF ServiceInv, ServiceTypeOK, Simulate
<1>3. scanned' = 0 /\ remaining' = <<>> /\ removed' = <<>> /\ order' = NodeOrder /\ phase' = "enter"
  BY DEF ServiceInv, Progress, Simulate
<1>4. Ahead' = Node
  BY <1>3, FullCluster DEF Ahead
<1>5. Parted'
  BY <1>3, <1>4, FullCluster, NothingOnce DEF Parted
<1>6. Progress'
  BY <1>3 DEF Progress
<1>7. Answered'
  BY DEF ServiceInv, Answered, Simulate
<1>8. QED
  BY <1>2, <1>5, <1>6, <1>7 DEF ServiceInv

\* The answer names what was removed.
LEMMA FinishService ==
  ASSUME ServiceInv, Parted, Finish, UNCHANGED removed, UNCHANGED registered, TypeOK'
  PROVE  ServiceInv'
<1>1. ServiceTypeOK'
  <2>1. <<>> \in Seq(Range(Kinds)) /\ <<>> \in Seq(Workload) /\ <<>> \in Seq(Node) /\ 0 \in 0..Cardinality(Node)
    BY NodeAssumption, FS_CardinalityType
  <2>2. kinds' = <<>> /\ queue' = <<>> /\ remaining' = <<>> /\ scanned' = 0 /\ resources' = {} /\ err' = FALSE
    BY DEF Finish
  <2>3. QED
    BY <2>1, <2>2 DEF ServiceInv, ServiceTypeOK, Finish
<1>2. Progress'
  BY DEF Progress, Finish
<1>3. Answered'
  BY SomeStay DEF ServiceInv, Answered, Finish, Parted
<1>4. QED
  BY <1>1, <1>2, <1>3 DEF ServiceInv, Finish

LEMMA EnterLevelService ==
  ASSUME ServiceInv, EnterLevel
  PROVE  ServiceInv'
<1>1. Parted /\ UNCHANGED <<order, alloc, pdbs, headroom, call, pending, target, temp, result, registered>>
  BY DEF ServiceInv, EnterLevel
<1>2. TypeOK'
  <2>1. seen' \in [Factors -> SUBSET HeadroomPct]
    BY DEF EnterLevel, ServiceInv, ServiceTypeOK, TypeOK
  <2>2. QED
    BY <1>1, <2>1 DEF ServiceInv, ServiceTypeOK, TypeOK
<1>3. CASE Len(order) <= 1
  BY <1>1, <1>2, <1>3, FinishService DEF EnterLevel
<1>4. CASE ~(Len(order) <= 1)
  <2>1. /\ phase' = "collect" /\ kinds' = Kinds /\ resources' = {} /\ err' = FALSE
        /\ scanned' = 0 /\ remaining' = <<>> /\ UNCHANGED <<order, queue, removed, answer, registered>>
    BY <1>1, <1>4 DEF EnterLevel
  <2>2. order \in Seq(Node) /\ Len(order) \in Nat /\ Len(order) >= 2
    BY <1>4 DEF ServiceInv, ServiceTypeOK, TypeOK
  <2>3. ServiceTypeOK'
    <3>1. <<>> \in Seq(Node) /\ 0 \in 0..Cardinality(Node) /\ Kinds \in Seq(Range(Kinds))
      BY ServiceAssumption, NodeAssumption, FS_CardinalityType
    <3>2. remaining' \in Seq(Node) /\ scanned' \in 0..Cardinality(Node) /\ kinds' \in Seq(Range(Kinds))
      BY <2>1, <3>1
    <3>3. QED
      BY <1>2, <2>1, <3>2 DEF ServiceInv, ServiceTypeOK
  <2>4. Range(removed) \cap Range(order) = {} /\ Range(removed) \cup Range(order) = Node
    <3>1. CASE scanned = 0 /\ remaining = <<>>
      <4>1. Ahead = Range(order) /\ Range(remaining) = {}
        BY <2>2, <3>1, BeyondAll, NothingOnce DEF Ahead
      <4>2. QED
        BY <1>1, <4>1 DEF Parted
    <3>2. CASE scanned >= Len(order) /\ remaining = order
      <4>1. Ahead = {}
        BY <1>1, <2>2, <3>2, BeyondAll DEF Ahead, Parted
      <4>2. QED
        BY <1>1, <3>2, <4>1 DEF Parted
    <3>3. QED
      BY <3>1, <3>2 DEF ServiceInv, Progress, EnterLevel
  <2>5. Ahead' = Range(order) /\ Range(order) # {}
    <3>1. Beyond(order, 0) = Range(order) /\ Beyond(order, 0) # {}
      BY <2>2, BeyondAll
    <3>2. QED
      BY <2>1, <3>1 DEF Ahead
  <2>6. Parted'
    BY <1>1, <2>1, <2>4, <2>5, NothingOnce DEF Parted
  <2>7. Progress'
    BY <2>1, <2>2 DEF Progress
  <2>8. Answered'
    BY <2>1 DEF ServiceInv, Answered
  <2>9. QED
    BY <2>3, <2>6, <2>7, <2>8 DEF ServiceInv
<1>5. QED
  BY <1>3, <1>4

\* The node that is looked at is kept or removed.
LEMMA PassNode ==
  ASSUME ServiceInv, Parted, phase \in {"scan", "verdict"}, scanned < Len(order),
         UNCHANGED <<order, answer>>, scanned' = scanned + 1, phase' = "scan",
         \/ remaining' = Append(remaining, Candidate) /\ UNCHANGED removed
         \/ removed' = Append(removed, Candidate) /\ UNCHANGED remaining /\ Len(remaining) = scanned,
         TypeOK', UNCHANGED <<registered, kinds, resources, queue, err>>
  PROVE  ServiceInv'
<1>1. /\ order \in Seq(Node) /\ Len(order) \in Nat /\ scanned \in Nat /\ Once(order) /\ Len(order) >= 2
      /\ remaining \in Seq(Node) /\ removed \in Seq(Node) /\ Once(remaining) /\ Once(removed)
  BY DEF ServiceInv, ServiceTypeOK, TypeOK, Parted, Progress
<1>2. PICK n \in Node : /\ n = Candidate /\ n \notin Beyond(order, scanned + 1)
                        /\ Ahead = Beyond(order, scanned + 1) \cup {n}
  BY <1>1, BeyondOne DEF Candidate, Ahead
<1>3. Ahead' = Beyond(order, scanned + 1)
  BY DEF Ahead
<1>4. n \notin Range(removed) /\ n \notin Range(remaining)
  BY <1>2 DEF Parted
<1>5. /\ remaining' \in Seq(Node) /\ removed' \in Seq(Node) /\ Once(remaining') /\ Once(removed')
      /\ \/ /\ Range(remaining') = Range(remaining) \cup {n} /\ Len(remaining') = Len(remaining) + 1
            /\ Range(removed') = Range(removed)
         \/ /\ Range(removed') = Range(removed) \cup {n} /\ Len(remaining') = scanned /\ remaining' = remaining
            /\ Range(remaining') = Range(remaining)
  <2>1. CASE remaining' = Append(remaining, n) /\ UNCHANGED removed
    BY <1>1, <1>4, <2>1, OnceAppend
  <2>2. CASE removed' = Append(removed, n) /\ UNCHANGED remaining /\ Len(remaining) = scanned
    BY <1>1, <1>4, <2>2, OnceAppend
  <2>3. QED
    BY <1>2, <2>1, <2>2
<1>6. scanned + 1 \in 0..Cardinality(Node)
  BY <1>1, OrderLength DEF ServiceInv
<1>7. ServiceTypeOK'
  BY <1>5, <1>6 DEF ServiceInv, ServiceTypeOK
<1>8. Range(remaining') \cup Ahead' # {}
  <2>1. CASE scanned = 0
    <3>1. scanned + 1 < Len(order) /\ scanned + 1 \in Nat
      BY <1>1, <2>1
    <3>2. QED
      BY <1>1, <1>3, <3>1, BeyondAll
  <2>2. CASE scanned # 0
    <3>1. Len(remaining) \in Nat /\ Len(remaining) \in {scanned, scanned - 1}
      BY <1>1 DEF ServiceInv, Progress
    <3>2. Len(remaining') >= 1
      BY <1>1, <1>5, <2>2, <3>1
    <3>3. remaining'[1] \in Range(remaining')
      BY <1>5, <3>2 DEF Range
    <3>4. QED
      BY <3>3
  <2>3. QED
    BY <2>1, <2>2
<1>9. Parted'
  BY <1>1, <1>2, <1>3, <1>5, <1>8 DEF Parted
<1>10. Len(remaining') \in {scanned', scanned' - 1}
  BY <1>1, <1>5 DEF ServiceInv, Progress
<1>11. Progress'
  BY <1>1, <1>10 DEF Progress
<1>12. Answered'
  BY DEF ServiceInv, Answered
<1>13. QED
  BY <1>7, <1>9, <1>11, <1>12 DEF ServiceInv

LEMMA VerdictService ==
  ASSUME ServiceInv, Verdict \/ KeepRest
  PROVE  ServiceInv'
<1>1. TypeOK' /\ UNCHANGED order
  BY DEF ServiceInv, ServiceTypeOK, TypeOK, Verdict, KeepRest, schedVars
<1>2. Parted /\ phase \in {"scan", "verdict"} /\ scanned < Len(order) /\ (Verdict => Len(remaining) = scanned)
  BY DEF ServiceInv, Progress, Verdict, KeepRest
<1>3. /\ UNCHANGED <<answer, registered, kinds, resources, queue, err>>
      /\ scanned' = scanned + 1 /\ phase' = "scan"
  BY DEF Verdict, KeepRest
<1>4. \/ remaining' = Append(remaining, Candidate) /\ UNCHANGED removed
      \/ removed' = Append(removed, Candidate) /\ UNCHANGED remaining /\ Len(remaining) = scanned
  BY <1>2 DEF Verdict, KeepRest, Keep
<1>5. QED
  BY <1>1, <1>2, <1>3, <1>4, PassNode

\* The nodes that remain are those of the next level.
LEMMA EndScanService ==
  ASSUME ServiceInv, EndScan
  PROVE  ServiceInv'
<1>1. /\ Parted /\ scanned = Len(order) /\ remaining \in Seq(Node) /\ order \in Seq(Node)
      /\ alloc \in [Node -> AllocType]
      /\ UNCHANGED <<pdbs, headroom, call, pending, target, temp, result, seen, registered, removed>>
  BY DEF ServiceInv, ServiceTypeOK, TypeOK, EndScan
<1>2. CASE ~RemovedHere
  <2>1. Finish /\ UNCHANGED <<order, alloc>>
    BY <1>2 DEF EndScan
  <2>2. TypeOK'
    BY <1>1, <2>1 DEF ServiceInv, ServiceTypeOK, TypeOK
  <2>3. QED
    BY <1>1, <2>1, <2>2, FinishService
<1>3. CASE RemovedHere
  <2>1. /\ order' = remaining /\ phase' = "enter" /\ UNCHANGED <<kinds, resources, queue, err, scanned, remaining, answer>>
        /\ alloc' = [n \in Node |-> IF n \in Range(remaining)
                                    THEN [alloc[n] EXCEPT !.cpu = 0, !.mem = 0, !.pod = 0]
                                    ELSE Empty]
    BY <1>3 DEF EndScan
  <2>2. alloc' \in [Node -> AllocType]
    <3>1. \A n \in Node : [alloc[n] EXCEPT !.cpu = 0, !.mem = 0, !.pod = 0] \in AllocType
      BY <1>1 DEF AllocType
    <3>2. Empty \in AllocType
      BY DEF Empty, AllocType
    <3>3. QED
      BY <2>1, <3>1, <3>2
  <2>3. TypeOK'
    BY <1>1, <2>1, <2>2 DEF ServiceInv, ServiceTypeOK, TypeOK
  <2>4. ServiceTypeOK'
    BY <1>1, <2>1, <2>3 DEF ServiceInv, ServiceTypeOK
  <2>5. Len(order) \in Nat /\ Len(remaining) \in Nat /\ scanned \in Nat /\ scanned >= Len(remaining)
    BY <1>1, <1>3 DEF RemovedHere
  <2>6. Ahead = {} /\ Ahead' = {}
    <3>1. Beyond(order, scanned) = {}
      BY <1>1, <2>5, BeyondAll
    <3>2. Beyond(remaining, scanned) = {}
      BY <1>1, <2>5, BeyondAll
    <3>3. QED
      BY <2>1, <3>1, <3>2 DEF Ahead
  <2>7. Parted'
    BY <1>1, <2>1, <2>6 DEF Parted
  <2>8. Progress'
    BY <2>1, <2>5 DEF Progress
  <2>9. Answered'
    BY <2>1 DEF ServiceInv, Answered
  <2>10. QED
    BY <2>4, <2>7, <2>8, <2>9 DEF ServiceInv
<1>4. QED
  BY <1>2, <1>3

LEMMA ServiceStill ==
  ASSUME ServiceInv, UNCHANGED vars
  PROVE  ServiceInv'
<1>1. ServiceTypeOK'
  BY DEF ServiceInv, ServiceTypeOK, TypeOK, vars, schedVars, serviceVars
<1>2. QED
  BY <1>1, StandStill DEF vars, schedVars, serviceVars, ServiceInv, Progress

LEMMA ServiceStep ==
  ASSUME Node # {}, ServiceInv, [ServiceNext]_vars
  PROVE  ServiceInv'
<1>1. CASE SimulateStep
  BY <1>1, EnterLevelService, CollectService, AddFuncService, AddStepService, TryRemoveService, DrainStepService,
     VerdictService, EndScanService DEF SimulateStep
<1>2. QED
  BY <1>1, SimulateService, ChangeHeadroomService, RegisterService, ServiceStill DEF ServiceNext

\* In every execution on a cluster that has a node, whenever a workload is registered or a
\* factor changed meanwhile, every node is in exactly one place at every point of the
\* recursion, none is reported twice, and one stays (scheduling_service.go:62-236).
THEOREM NodesArePartitioned ==
  ASSUME Node # {}
  PROVE  ServiceSpec => []NodesPartitioned
<1>1. ServiceInit => ServiceInv
  BY InitService
<1>2. ServiceInv /\ [ServiceNext]_vars => ServiceInv'
  BY ServiceStep
<1>3. QED
  BY <1>1, <1>2, Partitioned, PTL DEF ServiceSpec

--------------------------------------------------------------------------------
(* What a level counts.  The counters of a node start again from zero at each *)
(* level and its pods do not: the counters stand for the last of the pods.   *)

\* The pods of a record that its counters include, and the cluster they show.
Since(a) == SubSeq(a.pods, Len(a.pods) - a.pod + 1, Len(a.pods))
View(al) == [n \in Node |-> [al[n] EXCEPT !.pods = Since(al[n])]]

\* No more pods are counted than are there.
Counts(al) == \A n \in Node : al[n].pod <= Len(al[n].pods)

LEMMA SinceType ==
  ASSUME NEW a \in AllocType, a.pod <= Len(a.pods)
  PROVE  /\ Since(a) \in Seq(Template) /\ Len(Since(a)) = a.pod
         /\ \A i \in 1..a.pod : /\ Since(a)[i] = a.pods[Len(a.pods) - a.pod + i]
                                /\ Len(a.pods) - a.pod + i \in DOMAIN a.pods
<1>1. PICK k, l, m : k = a.pod /\ l = Len(a.pods) /\ m = l - k + 1
  OBVIOUS
<1>2. PICK s : s = a.pods
  OBVIOUS
<1>3. /\ k \in Nat /\ l \in Nat /\ k <= l /\ m \in Int /\ s \in Seq(Template)
      /\ DOMAIN s = 1..l /\ \A i \in 1..l : s[i] \in Template
  BY <1>1, <1>2 DEF AllocType
<1>4. \A i \in m..l : s[i] \in Template
  BY <1>1, <1>3
<1>5. PICK q : q = SubSeq(s, m, l)
  OBVIOUS
<1>6. /\ q \in Seq(Template) /\ Len(q) = (IF m <= l THEN l - m + 1 ELSE 0)
      /\ \A i \in 1..(l - m + 1) : q[i] = s[m + i - 1]
  BY <1>3, <1>4, <1>5, SubSeqProperties
<1>7. Len(q) = k
  BY <1>1, <1>3, <1>6
<1>8. ASSUME NEW i \in 1..k PROVE q[i] = s[l - k + i] /\ l - k + i \in 1..l
  <2>1. m = l - k + 1 /\ i \in Int /\ 1 <= i /\ i <= k
    BY <1>1, <1>3
  <2>2. i \in 1..(l - m + 1) /\ m + i - 1 = l - k + i
    BY <1>3, <2>1
  <2>3. q[i] = s[m + i - 1] /\ l - k + i \in 1..l
    BY <1>3, <1>6, <2>1, <2>2
  <2>4. QED
    BY <2>2, <2>3
<1>9. q = Since(a)
  BY <1>1, <1>2, <1>5 DEF Since
<1>10. QED
  BY <1>1, <1>2, <1>3, <1>6, <1>7, <1>8, <1>9

\* Nothing counted, no pods.
LEMMA SinceNone ==
  ASSUME NEW a \in AllocType, a.pod = 0
  PROVE  Since(a) = <<>> /\ a.pod <= Len(a.pods)
<1>1. a.pod <= Len(a.pods)
  BY DEF AllocType
<1>2. Since(a) \in Seq(Template) /\ Len(Since(a)) = 0
  BY <1>1, SinceType
<1>3. QED
  BY <1>1, <1>2

\* One more pod is one more that counts.
LEMMA SinceOneMore ==
  ASSUME NEW a \in AllocType, a.pod <= Len(a.pods), NEW t \in Template, NEW b, b = WithPod(a, t)
  PROVE  b \in AllocType /\ b.pod <= Len(b.pods) /\ Since(b) = Append(Since(a), t)
<1>1. b \in AllocType /\ b.pod = a.pod + 1 /\ b.pods = Append(a.pods, t)
  BY WithPodType DEF WithPod
<1>2. PICK k, l, p, q, s, r : /\ k = a.pod /\ l = Len(a.pods) /\ p = a.pods /\ q = b.pods
                              /\ s = Since(a) /\ r = Since(b)
  OBVIOUS
<1>3. /\ k \in Nat /\ l \in Nat /\ k <= l /\ p \in Seq(Template) /\ q \in Seq(Template)
      /\ Len(q) = l + 1 /\ Len(p) = l /\ q[l + 1] = t /\ \A i \in 1..l : q[i] = p[i]
  BY <1>1, <1>2 DEF AllocType
<1>4. b.pod <= Len(b.pods)
  BY <1>1, <1>2, <1>3
<1>5. /\ s \in Seq(Template) /\ Len(s) = k
      /\ \A i \in 1..k : s[i] = p[l - k + i] /\ l - k + i \in DOMAIN p
  BY <1>2, SinceType
<1>6. /\ r \in Seq(Template) /\ Len(r) = k + 1
      /\ \A i \in 1..(k + 1) : r[i] = q[(l + 1) - (k + 1) + i]
  <2>1. b.pod = k + 1 /\ Len(b.pods) = l + 1
    BY <1>1, <1>2, <1>3
  <2>2. /\ r \in Seq(Template) /\ Len(r) = b.pod
        /\ \A i \in 1..b.pod : r[i] = b.pods[Len(b.pods) - b.pod + i]
    BY <1>1, <1>2, <1>4, SinceType
  <2>3. QED
    BY <1>2, <2>1, <2>2
<1>7. PICK e : e = Append(s, t)
  OBVIOUS
<1>8. e \in Seq(Template) /\ Len(e) = k + 1 /\ e[k + 1] = t /\ \A i \in 1..k : e[i] = s[i]
  BY <1>5, <1>7
<1>9. ASSUME NEW i \in 1..(k + 1) PROVE r[i] = e[i]
  <2>1. (l + 1) - (k + 1) + i = l - k + i
    BY <1>3
  <2>2. r[i] = q[l - k + i]
    BY <1>6, <2>1
  <2>3. CASE i = k + 1
    <3>1. l - k + i = l + 1
      BY <1>3, <2>3
    <3>2. QED
      BY <1>3, <1>8, <2>2, <2>3, <3>1
  <2>4. CASE i \in 1..k
    <3>1. l - k + i \in 1..l
      BY <1>3, <2>4
    <3>2. QED
      BY <1>3, <1>5, <1>8, <2>2, <2>4, <3>1
  <2>5. QED
    BY <1>3, <2>3, <2>4
<1>10. r = e
  BY <1>6, <1>8, <1>9
<1>11. QED
  BY <1>1, <1>2, <1>4, <1>7, <1>10

LEMMA ViewType ==
  ASSUME NEW al \in [Node -> AllocType], Counts(al)
  PROVE  /\ View(al) \in [Node -> AllocType]
         /\ \A n \in Node : /\ View(al)[n].pods = Since(al[n]) /\ View(al)[n].pod = al[n].pod
                            /\ View(al)[n].cpu = al[n].cpu /\ View(al)[n].mem = al[n].mem
<1>1. ASSUME NEW n \in Node
      PROVE  /\ [al[n] EXCEPT !.pods = Since(al[n])] \in AllocType
             /\ [al[n] EXCEPT !.pods = Since(al[n])].pods = Since(al[n])
             /\ [al[n] EXCEPT !.pods = Since(al[n])].pod = al[n].pod
             /\ [al[n] EXCEPT !.pods = Since(al[n])].cpu = al[n].cpu
             /\ [al[n] EXCEPT !.pods = Since(al[n])].mem = al[n].mem
  <2>1. PICK a \in AllocType : a = al[n]
    OBVIOUS
  <2>2. PICK s \in Seq(Template) : s = Since(al[n])
    BY SinceType DEF Counts
  <2>3. /\ [a EXCEPT !.pods = s] \in AllocType /\ [a EXCEPT !.pods = s].pods = s
        /\ [a EXCEPT !.pods = s].pod = a.pod
        /\ [a EXCEPT !.pods = s].cpu = a.cpu /\ [a EXCEPT !.pods = s].mem = a.mem
    BY DEF AllocType
  <2>4. QED
    BY <2>1, <2>2, <2>3
<1>2. QED
  BY <1>1 DEF View

\* al2 is al, where n has taken a pod of t.
Takes(al, al2, n, t) == al2 = [al EXCEPT ![n] = WithPod(@, t)]

\* To book a pod is to book it in the view.
LEMMA ViewOneMore ==
  ASSUME NEW al \in [Node -> AllocType], Counts(al), NEW n \in Node, NEW t \in Template,
         NEW al2, Takes(al, al2, n, t)
  PROVE  al2 \in [Node -> AllocType] /\ Counts(al2) /\ Takes(View(al), View(al2), n, t)
<1>0. al2 = [al EXCEPT ![n] = WithPod(@, t)]
  BY DEF Takes
<1>1. PICK b : b = WithPod(al[n], t)
  OBVIOUS
<1>2. al[n] \in AllocType /\ al[n].pod <= Len(al[n].pods)
  BY DEF Counts
<1>3. b \in AllocType /\ b.pod <= Len(b.pods) /\ Since(b) = Append(Since(al[n]), t)
  BY <1>1, <1>2, SinceOneMore
<1>4. al2 \in [Node -> AllocType] /\ al2[n] = b /\ \A m \in Node \ {n} : al2[m] = al[m]
  BY <1>0, <1>1, <1>3
<1>5. Counts(al2)
  BY <1>3, <1>4 DEF Counts
<1>6. PICK v : v = View(al)
  OBVIOUS
<1>7. v \in [Node -> AllocType] /\ v[n] = [al[n] EXCEPT !.pods = Since(al[n])]
  BY <1>6, ViewType DEF View
<1>8. [b EXCEPT !.pods = Since(b)] = WithPod(v[n], t)
  <2>1. PICK a, s, c, m : /\ a = al[n] /\ s = Since(al[n]) /\ c = CpuRequest(t) /\ m = MemRequest(t)
    OBVIOUS
  <2>2. b = [cpu |-> a.cpu + c, mem |-> a.mem + m, pod |-> a.pod + 1, pods |-> Append(a.pods, t)]
    BY <1>1, <2>1 DEF WithPod
  <2>3. [b EXCEPT !.pods = Since(b)] = [cpu |-> a.cpu + c, mem |-> a.mem + m, pod |-> a.pod + 1, pods |-> Append(s, t)]
    <3>1. PICK r : r = Since(b)
      OBVIOUS
    <3>2. r = Append(s, t)
      BY <1>3, <2>1, <3>1
    <3>3. [b EXCEPT !.pods = r] = [cpu |-> a.cpu + c, mem |-> a.mem + m, pod |-> a.pod + 1, pods |-> r]
      BY <2>2
    <3>4. QED
      BY <3>1, <3>2, <3>3
  <2>4. v[n].cpu = a.cpu /\ v[n].mem = a.mem /\ v[n].pod = a.pod /\ v[n].pods = s
    BY <1>6, <2>1, ViewType
  <2>5. QED
    BY <2>1, <2>3, <2>4 DEF WithPod
<1>9. View(al2) = [v EXCEPT ![n] = WithPod(@, t)]
  <2>1. ASSUME NEW m \in Node PROVE [al2[m] EXCEPT !.pods = Since(al2[m])] = [v EXCEPT ![n] = WithPod(v[n], t)][m]
    <3>1. CASE m = n
      BY <1>4, <1>7, <1>8, <3>1
    <3>2. CASE m # n
      <4>1. al2[m] = al[m] /\ v[m] = [al[m] EXCEPT !.pods = Since(al[m])]
        BY <1>4, <1>6, <3>2 DEF View
      <4>2. QED
        BY <1>7, <3>2, <4>1
    <3>3. QED
      BY <3>1, <3>2
  <2>2. QED
    BY <1>7, <2>1 DEF View
<1>10. QED
  BY <1>4, <1>5, <1>6, <1>9 DEF Takes

\* To book a pod is to place one more.
LEMMA TakesPlaced ==
  ASSUME NEW al \in [Node -> AllocType], NEW nodes \in SUBSET Node, NEW n \in nodes, NEW t \in Template,
         NEW al2, Takes(al, al2, n, t), NEW P
  PROVE  Placed(P, al2, nodes) = Placed(P, al, nodes) + Bit(P, t)
<1>1. al2 = [al EXCEPT ![n] = WithPod(@, t)]
  BY DEF Takes
<1>2. QED
  BY <1>1, PlacedOneMore

\* The copies at a level are those of the view.
LEMMA LevelCopiesPlaced ==
  ASSUME TypeOK, Counts(alloc), NEW t
  PROVE  LevelCopies(t) = Placed({t}, View(alloc), live)
<1>1. live \in SUBSET Node /\ IsFiniteSet(live) /\ alloc \in [Node -> AllocType]
  BY LiveNodes DEF TypeOK
<1>2. PICK nodes \in SUBSET Node, v \in [Node -> AllocType] : nodes = live /\ v = View(alloc)
  BY <1>1, ViewType
<1>3. PICK f \in [nodes -> Int] : f = Carries({t}, v, nodes)
  BY PlacedType
<1>4. \A s \in SUBSET nodes : s # {} => f[CHOOSE x \in s : TRUE] = CountOf(t, LevelPods(CHOOSE x \in s : TRUE))
  <2>1. \A s \in SUBSET nodes : s # {} => (CHOOSE x \in s : TRUE) \in nodes
    OBVIOUS
  <2>2. ASSUME NEW m \in nodes PROVE f[m] = CountOf(t, LevelPods(m))
    <3>1. v[m].pods = LevelPods(m)
      BY <1>1, <1>2, ViewType DEF LevelPods, Since
    <3>2. QED
      BY <1>3, <3>1 DEF Carries, Carried, CountOf
  <2>3. QED
    BY <2>1, <2>2
<1> DEFINE Rec(h) == h = [s \in SUBSET nodes |-> IF s = {} THEN 0
                       ELSE CountOf(t, LevelPods(CHOOSE x \in s : TRUE)) + h[s \ {CHOOSE x \in s : TRUE}]]
<1>5. Rec(CHOOSE h : Rec(h))
  <2>1. PICK h : IsIteration(h, f, nodes)
    BY <1>1, <1>2, IterationIsTotal
  <2>2. Rec(h)
    <3>1. PICK k : k = [s \in SUBSET nodes |-> IF s = {} THEN 0
                         ELSE CountOf(t, LevelPods(CHOOSE x \in s : TRUE)) + h[s \ {CHOOSE x \in s : TRUE}]]
      OBVIOUS
    <3>2. ASSUME NEW s \in SUBSET nodes PROVE h[s] = k[s]
      <4>1. PICK e : e = (CHOOSE x \in s : TRUE)
        OBVIOUS
      <4>2. h[s] = IF s = {} THEN 0 ELSE f[e] + h[s \ {e}]
        BY <2>1, <4>1 DEF IsIteration
      <4>3. k[s] = IF s = {} THEN 0 ELSE CountOf(t, LevelPods(e)) + h[s \ {e}]
        <5>1. k[s] = IF s = {} THEN 0
                     ELSE CountOf(t, LevelPods(CHOOSE x \in s : TRUE)) + h[s \ {CHOOSE x \in s : TRUE}]
          BY <3>1
        <5>2. QED
          BY <4>1, <5>1, Zenon
      <4>4. s # {} => f[e] = CountOf(t, LevelPods(e))
        BY <1>4, <4>1, Zenon
      <4>5. QED
        BY <4>2, <4>3, <4>4
    <3>3. h = k
      BY <2>1, <3>1, <3>2 DEF IsIteration
    <3>4. QED
      BY <3>1, <3>3, Zenon
  <2>3. QED
    BY <2>2, Zenon
<1>6. LevelCopies(t) = (CHOOSE h : Rec(h))[nodes]
  BY <1>2, Zenon DEF LevelCopies, MapThenSumSet, MapThenFoldSet
<1>7. PICK h : Rec(h) /\ LevelCopies(t) = h[nodes]
  BY <1>5, <1>6
<1>8. IsIteration(h, f, nodes)
  <2>1. Rec(h)
    BY <1>7
  <2>2. PICK k : k = [s \in SUBSET nodes |-> IF s = {} THEN 0
                       ELSE f[CHOOSE x \in s : TRUE] + h[s \ {CHOOSE x \in s : TRUE}]]
    OBVIOUS
  <2>3. \A s \in SUBSET nodes : h[s] = k[s]
    BY <1>4, <2>1, <2>2
  <2>4. h = k
    BY <2>1, <2>2, <2>3
  <2>5. QED
    BY <2>2, <2>4 DEF IsIteration
<1>9. h[nodes] = Total(f)
  BY <1>1, <1>2, <1>8, IterationSums
<1>10. QED
  BY <1>2, <1>3, <1>7, <1>9 DEF Placed

--------------------------------------------------------------------------------
(* What the workloads of a level ask for, and what of it is placed.          *)

ReplicasOf(S)    == MapThenSumSet(LAMBDA w : WorkloadSpec[w].replicas, S)
OfTemplate(t, S) == {w \in S : WorkloadSpec[w].template = t}
Need(t, S)       == ReplicasOf(OfTemplate(t, S))

LEMMA ReplicasTotal ==
  ASSUME NEW S \in SUBSET Workload
  PROVE  /\ IsFiniteSet(S) /\ [w \in S |-> WorkloadSpec[w].replicas] \in [S -> Int]
         /\ ReplicasOf(S) = Total([w \in S |-> WorkloadSpec[w].replicas]) /\ ReplicasOf(S) \in Int
<1>1. PICK f \in [S -> Int] : f = [w \in S |-> WorkloadSpec[w].replicas]
  <2>1. \A w \in S : WorkloadSpec[w].replicas \in Int
    BY ServiceAssumption
  <2>2. QED
    BY <2>1
<1>2. IsFiniteSet(S)
  BY ServiceAssumption, FS_Subset
<1>3. \A s \in SUBSET S : s # {} => f[CHOOSE x \in s : TRUE] = WorkloadSpec[CHOOSE x \in s : TRUE].replicas
  <2>1. \A s \in SUBSET S : s # {} => (CHOOSE x \in s : TRUE) \in S
    OBVIOUS
  <2>2. QED
    BY <1>1, <2>1
<1> DEFINE Rec(h) == h = [s \in SUBSET S |-> IF s = {} THEN 0
                       ELSE WorkloadSpec[CHOOSE x \in s : TRUE].replicas + h[s \ {CHOOSE x \in s : TRUE}]]
<1>4. Rec(CHOOSE h : Rec(h))
  <2>1. PICK h : IsIteration(h, f, S)
    BY <1>2, IterationIsTotal
  <2>2. Rec(h)
    BY <1>3, <2>1 DEF IsIteration
  <2>3. QED
    BY <2>2, Zenon
<1>5. ReplicasOf(S) = (CHOOSE h : Rec(h))[S]
  BY Zenon DEF ReplicasOf, MapThenSumSet, MapThenFoldSet
<1>6. PICK h : Rec(h) /\ ReplicasOf(S) = h[S]
  BY <1>4, <1>5
<1>7. IsIteration(h, f, S)
  <2>1. Rec(h)
    BY <1>6
  <2>2. PICK k : k = [s \in SUBSET S |-> IF s = {} THEN 0
                       ELSE f[CHOOSE x \in s : TRUE] + h[s \ {CHOOSE x \in s : TRUE}]]
    OBVIOUS
  <2>3. \A s \in SUBSET S : h[s] = k[s]
    BY <1>3, <2>1, <2>2
  <2>4. h = k
    BY <2>1, <2>2, <2>3
  <2>5. QED
    BY <2>2, <2>4 DEF IsIteration
<1>8. h[S] = Total(f) /\ Total(f) \in Int
  BY <1>2, <1>7, IterationSums, TotalType
<1>9. QED
  BY <1>1, <1>2, <1>6, <1>8

LEMMA ReplicasRest ==
  ASSUME NEW S \in SUBSET Workload, NEW w \in S
  PROVE  ReplicasOf(S) = WorkloadSpec[w].replicas + ReplicasOf(S \ {w})
<1>1. PICK R \in SUBSET Workload : R = S \ {w}
  OBVIOUS
<1>2. PICK f \in [S -> Int], g \in [R -> Int] :
        f = [v \in S |-> WorkloadSpec[v].replicas] /\ g = [v \in R |-> WorkloadSpec[v].replicas]
  BY ReplicasTotal
<1>3. IsFiniteSet(S) /\ ReplicasOf(S) = Total(f) /\ ReplicasOf(R) = Total(g)
  BY <1>2, ReplicasTotal
<1>4. Total(f) = f[w] + Total(g)
  <2>1. \A v \in S \ {w} : g[v] = f[v]
    BY <1>1, <1>2
  <2>2. QED
    BY <1>1, <1>3, <2>1, TotalRemove
<1>5. QED
  BY <1>1, <1>2, <1>3, <1>4

LEMMA NeedType ==
  ASSUME NEW S \in SUBSET Workload, NEW t
  PROVE  OfTemplate(t, S) \in SUBSET Workload /\ Need(t, S) \in Int
<1>1. OfTemplate(t, S) \in SUBSET Workload
  BY DEF OfTemplate
<1>2. QED
  BY <1>1, ReplicasTotal DEF Need

\* One workload less.
LEMMA NeedRest ==
  ASSUME NEW S \in SUBSET Workload, NEW w \in S, NEW t
  PROVE  Need(t, S) = Need(t, S \ {w}) + (IF WorkloadSpec[w].template = t THEN WorkloadSpec[w].replicas ELSE 0)
<1>1. PICK A, B : A = OfTemplate(t, S) /\ B = OfTemplate(t, S \ {w})
  OBVIOUS
<1>2. A \in SUBSET Workload /\ B \in SUBSET Workload /\ ReplicasOf(B) \in Int /\ WorkloadSpec[w].replicas \in Int
  <2>1. S \ {w} \in SUBSET Workload
    OBVIOUS
  <2>2. B \in SUBSET Workload /\ Need(t, S \ {w}) \in Int
    BY <1>1, <2>1, NeedType
  <2>3. A \in SUBSET Workload /\ WorkloadSpec[w].replicas \in Int
    BY <1>1, NeedType, ServiceAssumption
  <2>4. QED
    BY <1>1, <2>2, <2>3 DEF Need
<1>3. CASE WorkloadSpec[w].template = t
  <2>1. w \in A /\ B = A \ {w}
    BY <1>1, <1>3 DEF OfTemplate
  <2>2. ReplicasOf(A) = WorkloadSpec[w].replicas + ReplicasOf(B)
    BY <1>2, <2>1, ReplicasRest
  <2>3. QED
    BY <1>1, <1>2, <1>3, <2>2 DEF Need
<1>4. CASE WorkloadSpec[w].template # t
  <2>1. A = B
    BY <1>1, <1>4 DEF OfTemplate
  <2>2. QED
    BY <1>1, <1>2, <1>4, <2>1 DEF Need
<1>5. QED
  BY <1>3, <1>4

\* The queue without its head.
LEMMA QueueRest ==
  ASSUME NEW q \in Seq(Workload), q # <<>>, IsInjective(q)
  PROVE  /\ Head(q) \in Range(q) /\ Range(q) \in SUBSET Workload
         /\ Range(Tail(q)) = Range(q) \ {Head(q)} /\ IsInjective(Tail(q))
<1>1. PICK r \in Seq(Workload), x \in Workload : r = Tail(q) /\ x = Head(q)
  BY HeadTailProperties
<1>2. /\ Len(r) = Len(q) - 1 /\ x = q[1] /\ Len(q) \in Nat \ {0}
      /\ DOMAIN q = 1..Len(q) /\ DOMAIN r = 1..Len(r)
      /\ \A i \in 1..Len(r) : r[i] = q[i + 1]
  BY <1>1, HeadTailProperties
<1>3. \A i, j \in 1..Len(q) : q[i] = q[j] => i = j
  BY <1>2 DEF IsInjective
<1>4. x \in Range(q) /\ Range(q) \in SUBSET Workload
  BY <1>2 DEF Range
<1>5. ASSUME NEW y \in Range(r) PROVE y \in Range(q) \ {x}
  <2>1. PICK i \in 1..Len(r) : y = r[i]
    BY <1>2, <1>5 DEF Range
  <2>2. i + 1 \in 1..Len(q) /\ i + 1 # 1 /\ y = q[i + 1] /\ 1 \in 1..Len(q)
    BY <1>2, <2>1
  <2>3. q[i + 1] # q[1]
    BY <1>3, <2>2
  <2>4. QED
    BY <1>2, <2>2, <2>3 DEF Range
<1>6. ASSUME NEW y \in Range(q) \ {x} PROVE y \in Range(r)
  <2>1. PICK i \in 1..Len(q) : y = q[i]
    BY <1>2, <1>6 DEF Range
  <2>2. i - 1 \in 1..Len(r) /\ r[i - 1] = q[(i - 1) + 1] /\ (i - 1) + 1 = i
    BY <1>2, <2>1
  <2>3. QED
    BY <1>2, <2>1, <2>2 DEF Range
<1>7. IsInjective(r)
  <2>1. ASSUME NEW i \in 1..Len(r), NEW j \in 1..Len(r), r[i] = r[j] PROVE i = j
    <3>1. i + 1 \in 1..Len(q) /\ j + 1 \in 1..Len(q) /\ q[i + 1] = q[j + 1]
      BY <1>2, <2>1
    <3>2. i + 1 = j + 1
      BY <1>3, <3>1
    <3>3. QED
      BY <3>2
  <2>2. QED
    BY <1>2, <2>1 DEF IsInjective
<1>8. QED
  BY <1>1, <1>4, <1>5, <1>6, <1>7

\* The pods of one workload.
LEMMA CarriedSame ==
  ASSUME NEW t \in Template, NEW k \in Nat, NEW u
  PROVE  /\ [i \in 1..k |-> t] \in Seq(Template)
         /\ Carried({u}, [i \in 1..k |-> t]) = IF t = u THEN k ELSE 0
<1>1. PICK p \in Seq(Template) : p = [i \in 1..k |-> t]
  <2>1. [i \in 1..k |-> t] \in Seq(Template)
    OBVIOUS
  <2>2. QED
    BY <2>1
<1>2. DOMAIN p = 1..k /\ \A i \in 1..k : p[i] = t
  BY <1>1
<1>3. CASE t = u
  <2>1. {i \in DOMAIN p : p[i] \in {u}} = 1..k
    BY <1>2, <1>3
  <2>2. Cardinality(1..k) = k
    BY FS_Interval
  <2>3. QED
    BY <1>1, <1>3, <2>1, <2>2 DEF Carried
<1>4. CASE t # u
  <2>1. {i \in DOMAIN p : p[i] \in {u}} = {}
    BY <1>2, <1>4
  <2>2. QED
    BY <1>1, <1>4, <2>1, FS_EmptySet DEF Carried
<1>5. QED
  BY <1>3, <1>4

LEMMA CarriedNone ==
  ASSUME NEW u, NEW p \in Seq(Template), \A i \in DOMAIN p : p[i] # u
  PROVE  Carried({u}, p) = 0
<1>1. {i \in DOMAIN p : p[i] \in {u}} = {}
  OBVIOUS
<1>2. QED
  BY <1>1, FS_EmptySet DEF Carried

\* Where nothing is counted nothing is placed.
LEMMA NothingPlaced ==
  ASSUME NEW al \in [Node -> AllocType], NEW nodes \in SUBSET Node,
         \A n \in nodes : al[n].pod = 0, Counts(al), NEW t
  PROVE  Placed({t}, View(al), nodes) = 0
<1>1. PICK v \in [Node -> AllocType] : v = View(al)
  BY ViewType
<1>2. ASSUME NEW n \in nodes PROVE Carried({t}, v[n].pods) = 0
  <2>1. v[n].pods = <<>>
    BY <1>1, SinceNone, ViewType
  <2>2. <<>> \in Seq(Template) /\ \A i \in DOMAIN <<>> : <<>>[i] # t
    OBVIOUS
  <2>3. QED
    BY <2>1, <2>2, CarriedNone
<1>3. PICK f \in [nodes -> Int] : f = Carries({t}, v, nodes)
  BY PlacedType
<1>4. IsFiniteSet(nodes) /\ \A n \in nodes : f[n] = 0
  BY <1>2, <1>3, PlacedType DEF Carries
<1>5. f = [n \in nodes |-> f[n]]
  OBVIOUS
<1>6. SumOver(f, nodes) = 0 /\ SumOver(f, nodes) = Total([n \in nodes |-> f[n]])
  BY <1>4, SumOverZero, SumOverIs
<1>7. QED
  BY <1>1, <1>3, <1>5, <1>6 DEF Placed

--------------------------------------------------------------------------------
(* What a level has read is placed, waits in a call or in the queue, or a     *)
(* failure is noted.                                                         *)

\* The templates that replicated workloads use.
Plain(t) == \A w \in Workload : WorkloadSpec[w].template = t => WorkloadSpec[w].kind \in Replicated

PlacedHere(t) == Placed({t}, View(alloc), live)

Balance(t) == PlacedHere(t) + Carried({t}, pending) + Need(t, Range(queue)) = Need(t, resources)

\* What a level begins and ends with, and the shape of its queue and calls.
LevelShape ==
  /\ Counts(alloc)
  /\ Idle => pending = <<>>
  /\ phase \notin {"add", "verdict"} => Idle
  /\ phase \in {"enter", "collect"} => \A n \in live : alloc[n].pod = 0
  /\ phase = "add" => IsInjective(queue) /\ Range(queue) \subseteq resources /\ call # "drain"
  /\ phase = "add" /\ call = "addJob" => \A i \in DOMAIN pending : ~Plain(pending[i])

LevelBalance ==
  /\ phase = "add" /\ ~err => \A t \in Template : Plain(t) => Balance(t)
  /\ phase \in {"scan", "verdict"} /\ ~err => \A t \in Template : Plain(t) => PlacedHere(t) = Need(t, resources)

PlacedInv == LevelShape /\ LevelBalance

\* Only these matter.
LEMMA PlacedSame ==
  ASSUME PlacedInv, UNCHANGED <<order, alloc, phase, call, pending, queue, resources, err>>
  PROVE  PlacedInv'
BY DEF PlacedInv, LevelShape, LevelBalance, PlacedHere, Balance, Idle, live

\* Where nothing is placed there is nothing to balance.
LEMMA PlacedElsewhere ==
  ASSUME LevelShape', phase' \notin {"add", "scan", "verdict"}
  PROVE  PlacedInv'
BY DEF PlacedInv, LevelBalance

LEMMA FailureBooksNothing ==
  ASSUME NEW ord, NEW al, NEW t, NEW h,
         NEW out \in SchedulePodWithStrategy(ord, al, t, h), ~out.ok
  PROVE  out.alloc = al
<1>1. PICK p \in SortedByUtilization(ord, al) :
        \/ out = [ok |-> FALSE, order |-> p, alloc |-> al]
        \/ \E i \in DOMAIN p : out = [ok |-> TRUE, order |-> p, alloc |-> [al EXCEPT ![p[i]] = WithPod(@, t)]]
  BY DEF SchedulePodWithStrategy
<1>2. ~\E i \in DOMAIN p : out = [ok |-> TRUE, order |-> p, alloc |-> [al EXCEPT ![p[i]] = WithPod(@, t)]]
  OBVIOUS
<1>3. QED
  BY <1>1, <1>2

LEMMA SimulatePlaced ==
  ASSUME ServiceInv, PlacedInv, Simulate
  PROVE  PlacedInv'
<1>1. alloc' = [n \in Node |-> Empty] /\ order' = NodeOrder /\ phase' = "enter" /\ UNCHANGED <<call, pending>>
  BY DEF Simulate
<1>2. Idle
  BY DEF PlacedInv, LevelShape, Simulate
<1>3. Idle' /\ pending' = <<>>
  BY <1>1, <1>2 DEF PlacedInv, LevelShape, Idle
<1>4. \A n \in Node : alloc'[n].pod = 0 /\ alloc'[n].pod <= Len(alloc'[n].pods)
  BY <1>1 DEF Empty
<1>5. live' \subseteq Node
  BY <1>1, ServiceAssumption DEF live
<1>6. LevelShape'
  BY <1>1, <1>3, <1>4, <1>5 DEF LevelShape, Counts
<1>7. QED
  BY <1>1, <1>6, PlacedElsewhere

LEMMA EnterLevelPlaced ==
  ASSUME ServiceInv, PlacedInv, EnterLevel
  PROVE  PlacedInv'
<1>1. UNCHANGED <<order, alloc, call, pending>> /\ phase = "enter" /\ phase' \in {"idle", "collect"}
  BY DEF EnterLevel, Finish
<1>2. LevelShape'
  BY <1>1 DEF PlacedInv, LevelShape, Idle, live
<1>3. QED
  BY <1>1, <1>2, PlacedElsewhere

LEMMA CollectPlaced ==
  ASSUME ServiceInv, PlacedInv, Collect
  PROVE  PlacedInv'
<1>1. UNCHANGED <<order, alloc, call, pending, phase>> /\ phase = "collect"
  BY DEF Collect, schedVars
<1>2. LevelShape'
  BY <1>1 DEF PlacedInv, LevelShape, Idle, live
<1>3. QED
  BY <1>1, <1>2, PlacedElsewhere

\* Everything waits in the queue.
LEMMA SortPlaced ==
  ASSUME ServiceInv, PlacedInv, SortByPriority
  PROVE  PlacedInv'
<1>1. /\ UNCHANGED <<order, alloc, call, pending, err, resources>> /\ phase = "collect" /\ phase' = "add"
      /\ queue' \in SetToSeqs(resources)
  BY DEF SortByPriority, schedVars
<1>2. /\ alloc \in [Node -> AllocType] /\ live \in SUBSET Node /\ Counts(alloc) /\ call = "none" /\ pending = <<>>
      /\ resources \in SUBSET Workload /\ \A n \in live : alloc[n].pod = 0
  BY <1>1, LiveNodes DEF PlacedInv, LevelShape, Idle, ServiceInv, ServiceTypeOK, TypeOK
<1>3. IsInjective(queue') /\ Range(queue') = resources
  <2>1. PICK q : q = queue'
    OBVIOUS
  <2>2. q \in [1..Cardinality(resources) -> resources] /\ IsInjective(q)
    BY <1>1, <2>1 DEF SetToSeqs, IsInjective
  <2>3. IsFiniteSet(resources) /\ Cardinality(resources) \in Nat
    BY <1>2, ServiceAssumption, FS_Subset, FS_CardinalityType
  <2>4. DOMAIN q = 1..Cardinality(resources) /\ Range(q) \in SUBSET resources
    BY <2>2 DEF Range
  <2>5. q \in Injection(1..Cardinality(resources), Range(q)) /\ q \in Surjection(1..Cardinality(resources), Range(q))
    BY <2>2, <2>4 DEF Injection, Surjection, Range, IsInjective
  <2>6. ExistsBijection(1..Cardinality(resources), Range(q))
    BY <2>5 DEF ExistsBijection, Bijection
  <2>7. Cardinality(Range(q)) = Cardinality(resources)
    BY <2>3, <2>6, FS_CountingElements
  <2>8. Range(q) = resources
    BY <2>3, <2>4, <2>7, FS_Subset
  <2>9. QED
    BY <2>1, <2>2, <2>8
<1>4. LevelShape'
  <2>1. call' # "addJob" /\ call' # "drain" /\ pending' = <<>>
    BY <1>1, <1>2
  <2>2. Counts(alloc')
    BY <1>1, <1>2
  <2>3. QED
    BY <1>1, <1>3, <2>1, <2>2 DEF LevelShape
<1>5. ASSUME NEW t \in Template PROVE Balance(t)'
  <2>1. PlacedHere(t) = 0
    BY <1>2, NothingPlaced DEF PlacedHere
  <2>2. Carried({t}, pending') = 0
    <3>1. <<>> \in Seq(Template) /\ \A i \in DOMAIN <<>> : <<>>[i] # t
      OBVIOUS
    <3>2. QED
      BY <1>1, <1>2, <3>1, CarriedNone
  <2>3. Need(t, resources) \in Int
    BY <1>2, NeedType
  <2>4. PlacedHere(t)' = 0
    BY <1>1, <2>1 DEF PlacedHere, live
  <2>5. Need(t, Range(queue')) = Need(t, resources')
    BY <1>1, <1>3
  <2>6. QED
    BY <1>1, <2>2, <2>3, <2>4, <2>5 DEF Balance
<1>6. LevelBalance'
  BY <1>1, <1>5 DEF LevelBalance
<1>7. QED
  BY <1>4, <1>6 DEF PlacedInv

LEMMA AllAddedPlaced ==
  ASSUME ServiceInv, PlacedInv, AllAdded
  PROVE  PlacedInv'
<1>1. /\ UNCHANGED <<order, alloc, call, pending, err, resources, queue>> /\ phase = "add" /\ phase' = "scan"
      /\ queue = <<>> /\ Idle
  BY DEF AllAdded, schedVars
<1>2. alloc \in [Node -> AllocType] /\ live \in SUBSET Node /\ Counts(alloc) /\ pending = <<>> /\ resources \in SUBSET Workload
  BY <1>1, LiveNodes DEF PlacedInv, LevelShape, ServiceInv, ServiceTypeOK, TypeOK
<1>3. LevelShape'
  BY <1>1 DEF PlacedInv, LevelShape, Idle
<1>4. ASSUME NEW t \in Template, Balance(t) PROVE PlacedHere(t) = Need(t, resources)
  <2>1. Carried({t}, pending) = 0
    <3>1. <<>> \in Seq(Template) /\ \A i \in DOMAIN <<>> : <<>>[i] # t
      OBVIOUS
    <3>2. QED
      BY <1>2, <3>1, CarriedNone
  <2>2. Need(t, Range(queue)) = 0
    <3>1. OfTemplate(t, Range(queue)) = {} /\ {} \in SUBSET Workload
      BY <1>1 DEF OfTemplate, Range
    <3>2. PICK f \in [{} -> Int] : f = [w \in {} |-> WorkloadSpec[w].replicas] /\ ReplicasOf({}) = Total(f)
      BY ReplicasTotal
    <3>3. QED
      BY <3>1, <3>2, TotalEmpty DEF Need
  <2>3. PlacedHere(t) \in Int
    <3>1. View(alloc) \in [Node -> AllocType]
      BY <1>2, ViewType
    <3>2. QED
      BY <1>2, <3>1, PlacedType DEF PlacedHere
  <2>4. QED
    BY <1>4, <2>1, <2>2, <2>3 DEF Balance
<1>5. ASSUME NEW t \in Template, ~err, Plain(t) PROVE PlacedHere(t)' = Need(t, resources')
  <2>1. PlacedHere(t) = Need(t, resources)
    BY <1>1, <1>4, <1>5 DEF PlacedInv, LevelBalance
  <2>2. QED
    BY <1>1, <2>1 DEF PlacedHere, live
<1>6. LevelBalance'
  BY <1>1, <1>5 DEF LevelBalance
<1>7. QED
  BY <1>3, <1>6 DEF PlacedInv

\* Pods of other templates do not count.
LEMMA PlacedOthers ==
  ASSUME NEW u, NEW al \in [Node -> AllocType], NEW al2 \in [Node -> AllocType], Counts(al), Counts(al2),
         NEW nodes \in SUBSET Node, NEW t \in Template, t # u,
         \A n \in nodes : al2[n] = al[n] \/ al2[n] = WithPod(al[n], t)
  PROVE  Placed({u}, View(al2), nodes) = Placed({u}, View(al), nodes)
<1>1. PICK v \in [Node -> AllocType], v2 \in [Node -> AllocType] : v = View(al) /\ v2 = View(al2)
  BY ViewType
<1>2. ASSUME NEW n \in nodes PROVE Carried({u}, v2[n].pods) = Carried({u}, v[n].pods)
  <2>1. v[n].pods = Since(al[n]) /\ v2[n].pods = Since(al2[n]) /\ v[n].pods \in Seq(Template)
    <3>1. n \in Node
      OBVIOUS
    <3>2. v[n] \in AllocType
      BY <1>1, <3>1
    <3>3. QED
      BY <1>1, <3>1, <3>2, ViewType DEF AllocType
  <2>2. CASE al2[n] = al[n]
    BY <2>1, <2>2
  <2>3. CASE al2[n] = WithPod(al[n], t)
    <3>1. v2[n].pods = Append(v[n].pods, t)
      BY <2>1, <2>3, SinceOneMore DEF Counts
    <3>2. Carried({u}, v2[n].pods) = Carried({u}, v[n].pods) + Bit({u}, t)
      BY <2>1, <3>1, CarriedOneMore
    <3>3. Bit({u}, t) = 0 /\ Carried({u}, v[n].pods) \in Nat
      BY <2>1, CarriedType DEF Bit
    <3>4. QED
      BY <3>2, <3>3
  <2>4. QED
    BY <2>2, <2>3
<1>3. Carries({u}, v2, nodes) = Carries({u}, v, nodes)
  BY <1>2 DEF Carries
<1>4. QED
  BY <1>1, <1>3 DEF Placed

\* The numbers a balance is made of.
LEMMA BalanceType ==
  ASSUME ServiceTypeOK, Counts(alloc), phase = "add" => Range(queue) \subseteq resources, NEW t
  PROVE  /\ PlacedHere(t) \in Int /\ Carried({t}, pending) \in Int /\ Need(t, resources) \in Int
         /\ phase = "add" => Need(t, Range(queue)) \in Int
         /\ View(alloc) \in [Node -> AllocType] /\ alloc \in [Node -> AllocType]
         /\ live \in SUBSET Node /\ pending \in Seq(Template) /\ resources \in SUBSET Workload
<1>1. /\ TypeOK /\ alloc \in [Node -> AllocType] /\ pending \in Seq(Template) /\ resources \in SUBSET Workload
      /\ live \in SUBSET Node
  BY LiveNodes DEF ServiceTypeOK, TypeOK
<1>2. View(alloc) \in [Node -> AllocType]
  BY <1>1, ViewType
<1>3. PlacedHere(t) \in Int
  BY <1>1, <1>2, PlacedType DEF PlacedHere
<1>4. Carried({t}, pending) \in Int
  <2>1. Carried({t}, pending) \in Nat
    BY <1>1, CarriedType
  <2>2. QED
    BY <2>1
<1>5. Need(t, resources) \in Int
  BY <1>1, NeedType
<1>6. phase = "add" => Need(t, Range(queue)) \in Int
  <2>1. phase = "add" => Range(queue) \in SUBSET Workload
    BY <1>1
  <2>2. QED
    BY <2>1, NeedType
<1>7. QED
  BY <1>1, <1>2, <1>3, <1>4, <1>5, <1>6

\* The workload at the head of the queue moves on: to the call if it is replicated.
LEMMA AddFuncPlaced ==
  ASSUME ServiceInv, ServiceInv', PlacedInv, AddFunc
  PROVE  PlacedInv'
<1>1. /\ phase = "add" /\ phase' = "add" /\ queue \in Seq(Workload) /\ queue # <<>> /\ queue' = Tail(queue)
      /\ UNCHANGED <<resources, err>>
  BY DEF ServiceInv, ServiceTypeOK, AddFunc
<1>2. /\ Counts(alloc) /\ IsInjective(queue) /\ Range(queue) \subseteq resources /\ ServiceTypeOK /\ ServiceTypeOK'
      /\ Range(queue) \in SUBSET Workload /\ TypeOK
  BY <1>1 DEF PlacedInv, LevelShape, ServiceInv, ServiceTypeOK, Range
<1>3. PICK x \in Workload : /\ x = Head(queue) /\ x \in Range(queue) /\ Range(queue') = Range(queue) \ {x}
                            /\ IsInjective(queue')
  BY <1>1, <1>2, QueueRest
<1>4. PICK t \in Template, k \in Nat : t = WorkloadSpec[x].template /\ k = WorkloadSpec[x].replicas
  BY ServiceAssumption
<1>5. Idle /\ pending = <<>> /\ UNCHANGED order
  <2>1. Idle /\ UNCHANGED order
    BY <1>4 DEF AddFunc, AddDaemonSet, AddReplicas
  <2>2. QED
    BY <2>1 DEF PlacedInv, LevelShape
<1>6. alloc \in [Node -> AllocType] /\ alloc' \in [Node -> AllocType] /\ live \in SUBSET Node /\ live' = live
  BY <1>2, <1>5, LiveNodes DEF ServiceTypeOK, TypeOK, live
<1>7. CASE WorkloadSpec[x].kind = "daemonset"
  <2>1. AddDaemonSet(t)
    BY <1>3, <1>4, <1>7 DEF AddFunc
  <2>2. /\ UNCHANGED <<call, pending>>
        /\ \A n \in Node : alloc'[n] = alloc[n] \/ alloc'[n] = WithPod(alloc[n], t)
    BY <2>1 DEF AddDaemonSet
  <2>3. ASSUME NEW n \in Node PROVE alloc'[n].pod <= Len(alloc'[n].pods)
    <3>1. alloc[n] \in AllocType /\ alloc[n].pod <= Len(alloc[n].pods)
      BY <1>2, <1>6 DEF Counts
    <3>2. QED
      BY <2>2, <3>1, SinceOneMore
  <2>4. Counts(alloc')
    BY <2>3 DEF Counts
  <2>5. LevelShape'
    BY <1>1, <1>2, <1>3, <1>5, <2>2, <2>4 DEF LevelShape, Idle
  <2>6. ASSUME NEW u \in Template, Plain(u), Balance(u) PROVE Balance(u)'
    <3>1. t # u
      BY <1>4, <1>7, <2>6 DEF Plain, Replicated
    <3>2. PlacedHere(u)' = PlacedHere(u)
      <4>1. PICK al2 \in [Node -> AllocType] : al2 = alloc'
        BY <1>6
      <4>2. Placed({u}, View(al2), live) = Placed({u}, View(alloc), live)
        BY <1>2, <1>6, <2>2, <2>4, <3>1, <4>1, PlacedOthers
      <4>3. QED
        BY <1>6, <4>1, <4>2 DEF PlacedHere
    <3>3. Need(u, Range(queue')) = Need(u, Range(queue))
      <4>1. /\ Need(u, Range(queue)) = Need(u, Range(queue) \ {x}) + 0
            /\ Need(u, Range(queue) \ {x}) \in Int
        <5>1. Range(queue) \ {x} \in SUBSET Workload
          BY <1>2
        <5>2. QED
          BY <1>2, <1>3, <1>4, <3>1, <5>1, NeedRest, NeedType
      <4>2. QED
        BY <1>3, <4>1
    <3>4. QED
      BY <1>1, <2>2, <2>6, <3>2, <3>3 DEF Balance
  <2>7. LevelBalance'
    BY <1>1, <2>6 DEF PlacedInv, LevelBalance
  <2>8. QED
    BY <2>5, <2>7 DEF PlacedInv
<1>8. ASSUME NEW kind \in {"add", "addJob"}, NEW l \in Nat, AddReplicas(kind, t, l),
             kind = "addJob" => WorkloadSpec[x].kind = "job",
             kind = "add" => l = k
      PROVE  PlacedInv'
  <2>1. call' = kind /\ pending' = [i \in 1..l |-> t] /\ UNCHANGED alloc
    BY <1>8 DEF AddReplicas
  <2>2. LevelShape'
    <3>1. kind = "addJob" => ~Plain(t)
      BY <1>4, <1>8 DEF Plain, Replicated
    <3>2. kind = "addJob" => \A i \in DOMAIN pending' : ~Plain(pending'[i])
      BY <2>1, <3>1
    <3>3. QED
      BY <1>1, <1>2, <1>3, <2>1, <3>2 DEF LevelShape, Idle
  <2>3. ASSUME NEW u \in Template, Plain(u), Balance(u) PROVE Balance(u)'
    <3>1. PlacedHere(u)' = PlacedHere(u)
      BY <1>6, <2>1 DEF PlacedHere
    <3>2. Carried({u}, pending) = 0
      <4>1. <<>> \in Seq(Template) /\ \A i \in DOMAIN <<>> : <<>>[i] # u
        OBVIOUS
      <4>2. QED
        BY <1>5, <4>1, CarriedNone
    <3>3. Carried({u}, pending') = IF t = u THEN l ELSE 0
      BY <2>1, CarriedSame
    <3>4. Need(u, Range(queue)) = Need(u, Range(queue')) + (IF t = u THEN k ELSE 0)
      BY <1>2, <1>3, <1>4, NeedRest
    <3>5. t = u => kind = "add"
      BY <1>4, <1>8, <2>3 DEF Plain, Replicated
    <3>6. PlacedHere(u) \in Int /\ Need(u, Range(queue')) \in Int
      <4>1. Range(queue') \in SUBSET Workload
        BY <1>2, <1>3
      <4>2. QED
        BY <1>2, <4>1, BalanceType, NeedType
    <3>7. PlacedHere(u)' + Carried({u}, pending') + Need(u, Range(queue')) = Need(u, resources')
      <4>1. PlacedHere(u) + 0 + Need(u, Range(queue)) = Need(u, resources)
        BY <2>3, <3>2 DEF Balance
      <4>2. resources' = resources
        BY <1>1
      <4>3. CASE t = u
        BY <1>8, <3>1, <3>3, <3>4, <3>5, <3>6, <4>1, <4>2, <4>3
      <4>4. CASE t # u
        BY <3>1, <3>3, <3>4, <3>6, <4>1, <4>2, <4>4
      <4>5. QED
        BY <4>3, <4>4
    <3>8. QED
      BY <3>7 DEF Balance
  <2>4. LevelBalance'
    BY <1>1, <2>3 DEF PlacedInv, LevelBalance
  <2>5. QED
    BY <2>2, <2>4 DEF PlacedInv
<1>9. CASE WorkloadSpec[x].kind # "daemonset"
  <2>1. CASE WorkloadSpec[x].kind = "job"
    <3>1. AddReplicas("addJob", t, k)
      BY <1>3, <1>4, <2>1 DEF AddFunc
    <3>2. QED
      BY <1>8, <2>1, <3>1
  <2>2. CASE WorkloadSpec[x].kind = "pod"
    <3>1. AddReplicas("add", t, 1) /\ k = 1
      BY <1>3, <1>4, <2>2, WorkloadAssumption DEF AddFunc
    <3>2. QED
      BY <1>8, <2>2, <3>1
  <2>3. CASE WorkloadSpec[x].kind \notin {"daemonset", "job", "pod"}
    <3>1. AddReplicas("add", t, k)
      BY <1>3, <1>4, <2>3 DEF AddFunc
    <3>2. QED
      BY <1>8, <2>3, <3>1
  <2>4. QED
    BY <1>9, <2>1, <2>2, <2>3
<1>10. QED
  BY <1>7, <1>9

\* A pod is placed, the call is over, or the failure is noted.
LEMMA AddStepPlaced ==
  ASSUME ServiceInv, ServiceInv', PlacedInv, AddStep
  PROVE  PlacedInv'
<1>1. /\ phase = "add" /\ phase' = "add" /\ UNCHANGED <<resources, queue>> /\ call # "none" /\ SchedulerStep
      /\ err' = (err \/ (call' = "none" /\ result' = "failed"))
  BY DEF AddStep
<1>2. /\ Counts(alloc) /\ IsInjective(queue) /\ Range(queue) \subseteq resources /\ ServiceTypeOK /\ ServiceTypeOK'
      /\ call # "drain" /\ (call = "addJob" => \A i \in DOMAIN pending : ~Plain(pending[i]))
  BY <1>1 DEF PlacedInv, LevelShape, ServiceInv
<1>3. /\ alloc \in [Node -> AllocType] /\ live \in SUBSET Node /\ order \in Seq(Node) /\ pending \in Seq(Template)
      /\ err \in BOOLEAN
  BY <1>2, LiveNodes DEF ServiceTypeOK, TypeOK
<1>4. ~err' => ~err /\ ~(call' = "none" /\ result' = "failed")
  BY <1>1, <1>3, Zenon
<1>5. CASE AllPlaced
  <2>1. call' = "none" /\ pending' = <<>> /\ UNCHANGED <<order, alloc>> /\ pending = <<>>
    BY <1>5 DEF AllPlaced, Return
  <2>2. LevelShape'
    BY <1>1, <1>2, <2>1 DEF LevelShape, Idle
  <2>3. \A t \in Template : Balance(t) => Balance(t)'
    BY <1>1, <2>1 DEF Balance, PlacedHere, live
  <2>4. LevelBalance'
    BY <1>1, <1>4, <2>3 DEF PlacedInv, LevelBalance
  <2>5. QED
    BY <2>2, <2>4 DEF PlacedInv
<1>6. CASE PlaceReplica
  <2>1. PICK t \in Template : t = Head(pending)
    BY <1>3, <1>6, HeadTailProperties DEF PlaceReplica
  <2>2. pending # <<>>
    BY <1>6 DEF PlaceReplica
  <2>3. PICK out \in SchedulePodWithStrategy(order, alloc, t, headroom) :
          /\ order' = out.order /\ alloc' = out.alloc
          /\ IF out.ok
             THEN pending' = Tail(pending) /\ UNCHANGED <<call, target, temp, result>>
             ELSE Return(IF call = "addJob" THEN "ok" ELSE "failed")
    BY <1>6, <2>1 DEF PlaceReplica
  <2>4. live' = live
    BY <1>3, <2>3, ScheduleOutcome DEF live
  <2>5. CASE out.ok
    <3>0. PICK rest \in Seq(Template) : rest = Tail(pending)
      BY <1>3, <2>2, HeadTailProperties
    <3>1. PICK n \in Node : n \in live /\ alloc' = [alloc EXCEPT ![n] = WithPod(@, t)]
      <4>1. \E n \in Range(order) : out.alloc = [alloc EXCEPT ![n] = WithPod(@, t)]
        BY <1>3, <2>3, <2>5, SuccessBooks
      <4>2. QED
        BY <1>3, <2>3, <4>1 DEF live
    <3>2. PICK al \in [Node -> AllocType], nodes \in SUBSET Node : al = alloc /\ nodes = live
      BY <1>3, Zenon
    <3>9. PICK al2 : al2 = alloc' /\ Takes(al, al2, n, t)
      BY <3>1, <3>2 DEF Takes
    <3>10. Counts(al) /\ n \in nodes
      BY <1>2, <3>1, <3>2
    <3>11. al2 \in [Node -> AllocType] /\ Counts(al2) /\ Takes(View(al), View(al2), n, t)
      BY <2>1, <3>1, <3>2, <3>9, <3>10, ViewOneMore
    <3>12. PICK v \in [Node -> AllocType], v2 \in [Node -> AllocType] : v = View(al) /\ v2 = View(al2)
      BY <3>2, <3>10, <3>11, ViewType
    <3>3. UNCHANGED call /\ pending' = rest
      BY <2>3, <2>5, <3>0
    <3>4. \A i \in DOMAIN rest : i + 1 \in DOMAIN pending /\ rest[i] = pending[i + 1]
      BY <1>3, <2>2, <3>0, HeadTailProperties
    <3>5. LevelShape'
      <4>1. call' = "addJob" => \A i \in DOMAIN pending' : ~Plain(pending'[i])
        BY <1>2, <3>3, <3>4
      <4>2. QED
        BY <1>1, <1>2, <3>3, <3>9, <3>11, <4>1 DEF LevelShape, Idle
    <3>6. ASSUME NEW u \in Template, Balance(u) PROVE Balance(u)'
      <4>1. View(alloc) = v /\ View(alloc') = v2
        BY <3>2, <3>9, <3>12, Zenon
      <4>2. Placed({u}, v2, nodes) = Placed({u}, v, nodes) + Bit({u}, t)
        <5>1. Takes(v, v2, n, t)
          BY <3>11, <3>12
        <5>2. QED
          BY <2>1, <3>2, <3>10, <3>12, <5>1, TakesPlaced
      <4>3. Carried({u}, pending) = Carried({u}, rest) + Bit({u}, t)
        BY <1>3, <2>1, <2>2, <3>0, CarriedRest
      <4>4. Placed({u}, v, nodes) \in Int
        BY <3>2, <3>12, PlacedType
      <4>9. Carried({u}, rest) \in Nat
        BY <3>0, CarriedType
      <4>10. Bit({u}, t) \in Int
        BY DEF Bit
      <4>5. Placed({u}, v, nodes) + Carried({u}, pending) + Need(u, Range(queue)) = Need(u, resources)
        BY <3>2, <3>6, <4>1 DEF Balance, PlacedHere
      <4>6. Need(u, Range(queue)) \in Int
        BY <1>1, <1>2, BalanceType
      <4>7. Placed({u}, v2, nodes) + Carried({u}, rest) + Need(u, Range(queue)) = Need(u, resources)
        BY <4>2, <4>3, <4>4, <4>5, <4>6, <4>9, <4>10
      <4>8. QED
        BY <1>1, <2>4, <3>2, <3>3, <4>1, <4>7 DEF Balance, PlacedHere
    <3>7. LevelBalance'
      BY <1>1, <1>4, <3>6 DEF PlacedInv, LevelBalance
    <3>8. QED
      BY <3>5, <3>7 DEF PlacedInv
  <2>6. CASE ~out.ok
    <3>1. alloc' = alloc
      BY <2>3, <2>6, FailureBooksNothing
    <3>2. call' = "none" /\ pending' = <<>> /\ result' = IF call = "addJob" THEN "ok" ELSE "failed"
      BY <2>3, <2>6 DEF Return
    <3>3. LevelShape'
      BY <1>1, <1>2, <3>1, <3>2 DEF LevelShape, Idle
    <3>4. ASSUME NEW u \in Template, Plain(u), Balance(u), ~err' PROVE Balance(u)'
      <4>1. call = "addJob"
        BY <1>4, <3>2, <3>4
      <4>2. \A i \in DOMAIN pending : pending[i] # u
        BY <1>2, <3>4, <4>1
      <4>3. Carried({u}, pending) = 0
        BY <1>3, <4>2, CarriedNone
      <4>4. Carried({u}, pending') = 0
        <5>1. <<>> \in Seq(Template) /\ \A i \in DOMAIN <<>> : <<>>[i] # u
          OBVIOUS
        <5>2. QED
          BY <3>2, <5>1, CarriedNone
      <4>5. PlacedHere(u)' = PlacedHere(u)
        BY <2>4, <3>1 DEF PlacedHere
      <4>6. QED
        BY <1>1, <3>4, <4>3, <4>4, <4>5 DEF Balance
    <3>5. LevelBalance'
      BY <1>1, <1>4, <3>4 DEF PlacedInv, LevelBalance
    <3>6. QED
      BY <3>3, <3>5 DEF PlacedInv
  <2>7. QED
    BY <2>5, <2>6
<1>7. QED
  BY <1>1, <1>2, <1>5, <1>6 DEF SchedulerStep, DrainPod, Drained

\* A drain works on its copy.
LEMMA VerdictPlaced ==
  ASSUME ServiceInv, PlacedInv, TryRemove \/ DrainStep \/ Verdict \/ KeepRest
  PROVE  PlacedInv'
<1>1. /\ phase \in {"scan", "verdict"} /\ phase' \in {"scan", "verdict"} /\ UNCHANGED <<resources, err>>
      /\ phase' = "scan" => Idle'
  BY DEF TryRemove, DrainStep, Verdict, KeepRest, serviceVars, schedVars, PlacedInv, LevelShape, Idle
<1>2. UNCHANGED <<order, alloc>> /\ (Idle' => pending' = <<>>)
  <2>1. CASE TryRemove
    BY <2>1 DEF TryRemove, CanRemoveNode, Return, Idle
  <2>2. CASE DrainStep
    <3>1. call \notin {"add", "addJob"}
      BY <2>2 DEF DrainStep, ServiceInv, Progress
    <3>2. QED
      BY <2>2, <3>1 DEF DrainStep, SchedulerStep, PlaceReplica, AllPlaced, DrainPod, Drained, Return, Idle
  <2>3. CASE Verdict \/ KeepRest
    BY <2>3 DEF Verdict, KeepRest, schedVars, PlacedInv, LevelShape, Idle
  <2>4. QED
    BY <2>1, <2>2, <2>3
<1>3. LevelShape'
  BY <1>1, <1>2 DEF PlacedInv, LevelShape
<1>4. LevelBalance'
  BY <1>1, <1>2 DEF PlacedInv, LevelBalance, PlacedHere, live
<1>5. QED
  BY <1>3, <1>4 DEF PlacedInv

LEMMA EndScanPlaced ==
  ASSUME ServiceInv, ServiceInv', PlacedInv, EndScan
  PROVE  PlacedInv'
<1>1. phase' \in {"idle", "enter"} /\ phase = "scan" /\ UNCHANGED <<call, pending>>
  BY DEF EndScan, Finish
<1>2. CASE ~RemovedHere
  <2>1. UNCHANGED <<order, alloc>> /\ phase' = "idle"
    BY <1>2 DEF EndScan, Finish
  <2>2. LevelShape'
    BY <1>1, <2>1 DEF PlacedInv, LevelShape, Idle
  <2>3. QED
    BY <1>1, <2>2, PlacedElsewhere
<1>3. CASE RemovedHere
  <2>1. alloc' = [n \in Node |-> IF n \in Range(remaining)
                                 THEN [alloc[n] EXCEPT !.cpu = 0, !.mem = 0, !.pod = 0]
                                 ELSE Empty]
    BY <1>3 DEF EndScan
  <2>2. alloc \in [Node -> AllocType] /\ live' \in SUBSET Node
    BY LiveNodes DEF ServiceInv, ServiceTypeOK, TypeOK, live, Range
  <2>3. ASSUME NEW n \in Node PROVE alloc'[n].pod = 0 /\ Len(alloc'[n].pods) \in Nat
    <3>1. PICK a \in AllocType : a = alloc[n]
      BY <2>2
    <3>2. CASE n \in Range(remaining)
      <4>1. alloc'[n] = [a EXCEPT !.cpu = 0, !.mem = 0, !.pod = 0]
        BY <2>1, <3>1, <3>2
      <4>2. alloc'[n].pod = 0 /\ alloc'[n].pods = a.pods
        BY <4>1 DEF AllocType
      <4>3. QED
        BY <4>2 DEF AllocType
    <3>3. CASE n \notin Range(remaining)
      <4>1. alloc'[n] = Empty
        BY <2>1, <3>3
      <4>2. QED
        BY <4>1 DEF Empty
    <3>4. QED
      BY <3>2, <3>3
  <2>4. Counts(alloc')
    BY <2>3 DEF Counts
  <2>5. \A n \in live' : alloc'[n].pod = 0
    BY <2>2, <2>3
  <2>6. LevelShape'
    BY <1>1, <2>4, <2>5 DEF PlacedInv, LevelShape, Idle
  <2>7. QED
    BY <1>1, <2>6, PlacedElsewhere
<1>4. QED
  BY <1>2, <1>3

LEMMA InitPlaced ==
  ASSUME ServiceInit
  PROVE  PlacedInv
<1>1. /\ alloc = [n \in Node |-> Empty] /\ call = "none" /\ pending = <<>> /\ phase = "idle"
  BY DEF ServiceInit, SchedulerInit
<1>2. Counts(alloc)
  BY <1>1 DEF Counts, Empty
<1>3. QED
  BY <1>1, <1>2 DEF PlacedInv, LevelShape, LevelBalance, Idle

LEMMA PlacedStep ==
  ASSUME ServiceInv, ServiceInv', PlacedInv, [ServiceNext]_vars
  PROVE  PlacedInv'
<1>1. CASE SimulateStep
  BY <1>1, EnterLevelPlaced, CollectPlaced, SortPlaced, AddFuncPlaced, AddStepPlaced, AllAddedPlaced, VerdictPlaced,
     EndScanPlaced DEF SimulateStep
<1>2. CASE Simulate
  BY <1>2, SimulatePlaced
<1>3. CASE ChangeHeadroom \/ (\E w \in Workload : Register(w)) \/ UNCHANGED vars
  BY <1>3, PlacedSame DEF ChangeHeadroom, SetHeadroom, Register, vars, schedVars, serviceVars
<1>4. QED
  BY <1>1, <1>2, <1>3 DEF ServiceNext

\* The balance of the templates that replicated workloads use, at the end of a level.
LEMMA AskedIsPlaced ==
  ASSUME ServiceInv, PlacedInv
  PROVE  PlacedOrReported
<1> SUFFICES ASSUME phase = "scan", ~err, NEW t \in Template,
                    NEW asked, asked = {w \in resources : /\ WorkloadSpec[w].template = t
                                                          /\ WorkloadSpec[w].kind \in Replicated},
                    asked # {}
             PROVE  LevelCopies(t) = MapThenSumSet(LAMBDA w : WorkloadSpec[w].replicas, asked)
  BY Zenon DEF PlacedOrReported
<1>1. resources \in SUBSET Workload /\ TypeOK /\ Counts(alloc)
  BY DEF ServiceInv, ServiceTypeOK, PlacedInv, LevelShape
<1>2. PICK v \in Workload : WorkloadSpec[v].template = t /\ WorkloadSpec[v].kind \in Replicated
  BY <1>1
<1>3. Plain(t)
  BY <1>2, WorkloadAssumption DEF Plain
<1>4. asked = OfTemplate(t, resources)
  BY <1>1, <1>3 DEF Plain, OfTemplate
<1>5. PlacedHere(t) = ReplicasOf(asked)
  BY <1>3, <1>4 DEF PlacedInv, LevelBalance, Need
<1>6. LevelCopies(t) = PlacedHere(t)
  BY <1>1, LevelCopiesPlaced DEF PlacedHere
<1>7. QED
  BY <1>5, <1>6, Zenon DEF ReplicasOf

\* In every execution, at the end of a level at which no call reported a failure, exactly
\* the replicas the level has read are on the nodes, of every template that a deployment,
\* stateful set or pod uses, whatever is registered or changed meanwhile and whichever
\* pods of earlier levels are still listed (scheduling_service.go:76-168).
THEOREM ReplicasArePlacedOrReported ==
  ASSUME Node # {}
  PROVE  ServiceSpec => []PlacedOrReported
<1>1. ServiceInit => ServiceInv /\ PlacedInv
  BY InitService, InitPlaced
<1>2. ServiceInv /\ [ServiceNext]_vars => ServiceInv'
  BY ServiceStep
<1>3. ServiceInv /\ ServiceInv' /\ PlacedInv /\ [ServiceNext]_vars => PlacedInv'
  BY PlacedStep
<1>4. ServiceInv /\ PlacedInv => PlacedOrReported
  BY AskedIsPlaced
<1>5. QED
  BY <1>1, <1>2, <1>3, <1>4, PTL DEF ServiceSpec

--------------------------------------------------------------------------------
(* Pods that are placed can be arranged: every pod of a load takes the place of *)
(* a pod of its template.                                                    *)

\* The places of the pods of t: a node and a position among its pods.
Spots(t, v, nodes) == {s \in nodes \X Nat : s[2] \in DOMAIN v[s[1]].pods /\ v[s[1]].pods[s[2]] = t}

LEMMA SpotsCounted ==
  ASSUME NEW v \in [Node -> AllocType], NEW nodes \in SUBSET Node, NEW t
  PROVE  IsFiniteSet(Spots(t, v, nodes)) /\ Cardinality(Spots(t, v, nodes)) = Placed({t}, v, nodes)
<1> DEFINE G == {S \in SUBSET nodes : /\ IsFiniteSet(Spots(t, v, S))
                                      /\ Cardinality(Spots(t, v, S)) = Placed({t}, v, S)}
<1>1. ASSUME NEW S \in SUBSET nodes, \A U \in SUBSET S : U # S => U \in G PROVE S \in G
  <2>1. CASE S = {}
    <3>1. Spots(t, v, S) = {}
      BY <2>1 DEF Spots
    <3>2. PICK f \in [{} -> Int] : f = Carries({t}, v, S)
      <4>1. Carries({t}, v, S) \in [S -> Int]
        BY PlacedType
      <4>2. QED
        BY <2>1, <4>1
    <3>3. Placed({t}, v, S) = 0
      BY <3>2, TotalEmpty DEF Placed
    <3>4. QED
      BY <3>1, <3>3, FS_EmptySet
  <2>2. ASSUME NEW n \in S PROVE S \in G
    <3>1. PICK p \in Seq(Template) : p = v[n].pods
      BY DEF AllocType
    <3>2. PICK I : I = {i \in DOMAIN p : p[i] \in {t}}
      OBVIOUS
    <3>3. IsFiniteSet(I) /\ Cardinality(I) = Carried({t}, p) /\ I \subseteq Nat
      <4>1. PICK P : P = {t}
        OBVIOUS
      <4>2. I = {i \in DOMAIN p : p[i] \in P}
        BY <3>2, <4>1
      <4>3. IsFiniteSet(I)
        BY <3>1, <4>2, CarriedType
      <4>4. Cardinality(I) = Carried(P, p)
        BY <4>2, Zenon DEF Carried
      <4>5. I \subseteq Nat
        BY <3>1, <4>2
      <4>6. QED
        BY <4>1, <4>3, <4>4, <4>5
    <3>4. PICK R, Here : R = Spots(t, v, S \ {n}) /\ Here = {n} \X I
      OBVIOUS
    <3>5. IsFiniteSet(R) /\ Cardinality(R) = Placed({t}, v, S \ {n})
      BY <1>1, <3>4
    <3>6. IsFiniteSet(Here) /\ Cardinality(Here) = Cardinality(I)
      <4>1. IsFiniteSet({n}) /\ Cardinality({n}) = 1
        BY FS_Singleton
      <4>2. IsFiniteSet(Here) /\ Cardinality(Here) = Cardinality({n}) * Cardinality(I)
        BY <3>3, <3>4, <4>1, FS_Product
      <4>3. Cardinality(I) \in Nat
        BY <3>3, FS_CardinalityType
      <4>4. QED
        BY <4>1, <4>2, <4>3
    <3>7. Spots(t, v, S) = R \cup Here /\ R \cap Here = {}
      <4>1. ASSUME NEW s PROVE s \in Spots(t, v, S) <=> s \in R \cup Here
        BY <3>1, <3>2, <3>3, <3>4 DEF Spots
      <4>2. R \cap Here = {}
        BY <3>4 DEF Spots
      <4>3. QED
        BY <4>1, <4>2
    <3>8. IsFiniteSet(R \cup Here) /\ Cardinality(R \cup Here) = Cardinality(R) + Cardinality(Here)
      <4>1. /\ IsFiniteSet(R \cup Here)
            /\ Cardinality(R \cup Here) = Cardinality(R) + Cardinality(Here) - Cardinality(R \cap Here)
        BY <3>5, <3>6, FS_Union
      <4>2. Cardinality(R \cap Here) = 0
        BY <3>7, FS_EmptySet
      <4>3. Cardinality(R) \in Nat /\ Cardinality(Here) \in Nat
        BY <3>5, <3>6, FS_CardinalityType
      <4>4. QED
        BY <4>1, <4>2, <4>3
    <3>9. Placed({t}, v, S \ {n}) + Carried({t}, p) = Placed({t}, v, S)
      BY <3>1, PlacedWithout
    <3>10. QED
      BY <3>3, <3>5, <3>6, <3>7, <3>8, <3>9
  <2>3. QED
    BY <2>1, <2>2
<1>2. SUBSET nodes \subseteq G
  <2>1. IsFiniteSet(nodes)
    BY PlacedType
  <2> HIDE DEF G
  <2> QED
    BY <1>1, <2>1, SubsetInduction
<1>3. QED
  BY <1>2

\* Every pod of the load gets a place of its own.
Housed(u, pods, v, nodes) ==
  /\ DOMAIN u = pods
  /\ \A p \in pods : u[p] \in Spots(p[1], v, nodes)
  /\ \A p, q \in pods : u[p] = u[q] => p = q

LEMMA PodsHoused ==
  ASSUME NEW v \in [Node -> AllocType], NEW nodes \in SUBSET Node, NEW l \in [Template -> Nat],
         \A t \in Template : l[t] <= Placed({t}, v, nodes)
  PROVE  \E u : Housed(u, Abstract!Pods(l), v, nodes)
<1> DEFINE House(t) == CHOOSE f : f \in Bijection(1..Cardinality(Spots(t, v, nodes)), Spots(t, v, nodes))
<1>1. ASSUME NEW t \in Template
      PROVE  \E f : f \in Bijection(1..Cardinality(Spots(t, v, nodes)), Spots(t, v, nodes))
  BY SpotsCounted, FS_CardinalityType DEF ExistsBijection
<1>2. ASSUME NEW t \in Template
      PROVE  /\ \A i \in 1..l[t] : House(t)[i] \in Spots(t, v, nodes)
             /\ \A i, j \in 1..l[t] : House(t)[i] = House(t)[j] => i = j
  <2>1. PICK c, S : S = Spots(t, v, nodes) /\ c = Cardinality(S)
    OBVIOUS
  <2>2. PICK f : f = House(t)
    OBVIOUS
  <2>3. f \in Bijection(1..c, S)
    <3>1. House(t) \in Bijection(1..c, S)
      BY <1>1, <2>1, Zenon
    <3>2. QED
      BY <2>2, <3>1
  <2>4. l[t] <= c /\ l[t] \in Nat /\ c \in Nat
    BY <2>1, SpotsCounted, FS_CardinalityType
  <2>5. f \in [1..c -> S] /\ \A i, j \in 1..c : f[i] = f[j] => i = j
    <3>1. PICK D : D = 1..c
      OBVIOUS
    <3>2. f \in Injection(D, S)
      BY <2>3, <3>1 DEF Bijection
    <3>3. f \in [D -> S] /\ \A i, j \in D : f[i] = f[j] => i = j
      BY <3>2, Fun_InjectionProperties
    <3>4. QED
      BY <3>1, <3>3
  <2>6. \A i \in 1..l[t] : i \in 1..c
    BY <2>4
  <2>7. (\A i \in 1..l[t] : f[i] \in S) /\ (\A i, j \in 1..l[t] : f[i] = f[j] => i = j)
    BY <2>5, <2>6
  <2>8. QED
    BY <2>1, <2>2, <2>7, Zenon
<1>3. PICK pods : pods = Abstract!Pods(l)
  OBVIOUS
<1>4. \A p \in pods : p[1] \in Template /\ p[2] \in 1..l[p[1]] /\ p = <<p[1], p[2]>>
  BY <1>3 DEF Abstract!Pods
<1>5. PICK u : u = [p \in pods |-> House(p[1])[p[2]]]
  OBVIOUS
<1> HIDE DEF House
<1>6. DOMAIN u = pods /\ \A p \in pods : u[p] = House(p[1])[p[2]]
  BY <1>5
<1>7. \A p \in pods : u[p] \in Spots(p[1], v, nodes)
  BY <1>2, <1>4, <1>6
<1>8. ASSUME NEW p \in pods, NEW q \in pods, u[p] = u[q] PROVE p = q
  <2>1. p[1] = q[1]
    BY <1>7, <1>8 DEF Spots
  <2>2. House(p[1])[p[2]] = House(p[1])[q[2]]
    BY <1>6, <1>8, <2>1
  <2>3. p[2] = q[2]
    BY <1>2, <1>4, <2>1, <2>2
  <2>4. QED
    BY <1>4, <2>1, <2>3
<1>9. QED
  BY <1>3, <1>6, <1>7, <1>8 DEF Housed

\* The largest headroom factor there is: what the abstract cluster works with.
Most == Max(HeadroomPct)

\* There are finitely many factors, and one that is not negative.
Percentages == IsFiniteSet(HeadroomPct) /\ \E h \in HeadroomPct : h >= 0

LEMMA MostIs ==
  ASSUME Percentages
  PROVE  Most \in Nat /\ \A h \in HeadroomPct : h \in Int /\ h <= Most
<1>1. HeadroomPct \subseteq Int /\ HeadroomPct # {} /\ IsFiniteSet(HeadroomPct)
  BY SchedulerAssumption DEF Percentages
<1>2. Most \in HeadroomPct /\ \A h \in HeadroomPct : h <= Most
  BY <1>1, LargestOf, Zenon DEF Most
<1>3. PICK h \in HeadroomPct : h >= 0
  BY DEF Percentages
<1>4. QED
  BY <1>1, <1>2, <1>3

\* What a node counts is within that factor.
WithinMost(a, n) ==
  /\ 100 * a.cpu <= NodeSpec[n].vcores * Most
  /\ 100 * a.mem <= NodeSpec[n].memory * Most
  /\ a.pod <= PodLimit(n, Most)

\* The requests of some pods of a load.
LoadRequest(ps, resource) == MapThenSumSet(LAMBDA p : GetPodResourceRequest(p[1], resource), ps)
Asked(ps, resource)       == [p \in ps |-> GetPodResourceRequest(p[1], resource)]

LEMMA LoadRequestTotal ==
  ASSUME NEW ps, IsFiniteSet(ps), \A p \in ps : p[1] \in Template, NEW resource \in {"cpu", "mem"}
  PROVE  /\ Asked(ps, resource) \in [ps -> Int]
         /\ LoadRequest(ps, resource) = Total(Asked(ps, resource))
<1>1. PICK f : f = Asked(ps, resource)
  OBVIOUS
<1>2. f \in [ps -> Int]
  BY <1>1, TemplateAssumption DEF Asked, CpuRequest, MemRequest
<1>3. \A s \in SUBSET ps : s # {} => f[CHOOSE x \in s : TRUE] = GetPodResourceRequest((CHOOSE x \in s : TRUE)[1], resource)
  <2>1. \A s \in SUBSET ps : s # {} => (CHOOSE x \in s : TRUE) \in ps
    OBVIOUS
  <2>2. QED
    BY <1>1, <2>1 DEF Asked
<1> DEFINE Rec(h) == h = [s \in SUBSET ps |-> IF s = {} THEN 0
                            ELSE GetPodResourceRequest((CHOOSE x \in s : TRUE)[1], resource)
                                   + h[s \ {CHOOSE x \in s : TRUE}]]
<1>4. Rec(CHOOSE h : Rec(h))
  <2>1. PICK h : IsIteration(h, f, ps)
    BY <1>2, IterationIsTotal
  <2>2. Rec(h)
    BY <1>3, <2>1 DEF IsIteration
  <2>3. QED
    BY <2>2, Zenon
<1>5. LoadRequest(ps, resource) = (CHOOSE h : Rec(h))[ps]
  BY Zenon DEF LoadRequest, MapThenSumSet, MapThenFoldSet
<1>6. PICK h : Rec(h) /\ LoadRequest(ps, resource) = h[ps]
  BY <1>4, <1>5
<1>7. IsIteration(h, f, ps)
  BY <1>3, <1>6 DEF IsIteration
<1>8. h[ps] = Total(f)
  BY <1>2, <1>7, IterationSums
<1>9. QED
  BY <1>1, <1>2, <1>6, <1>8

\* Those housed on n.
HousedOn(u, pods, n) == {p \in pods : u[p][1] = n}

\* The pods of a load that are housed on n fit on n.
LEMMA HousedFit ==
  ASSUME Percentages, NEW v \in [Node -> AllocType], NEW n \in Node, NEW pods, NEW u, NEW nodes,
         Housed(u, pods, v, nodes), \A p \in pods : p[1] \in Template,
         Accounted(v[n]), Admitted(v[n], n), WithinMost(v[n], n),
         NEW ps, ps = HousedOn(u, pods, n)
  PROVE  /\ \A p \in ps : Admits(n, p[1])
         /\ 100 * LoadRequest(ps, "cpu") <= NodeSpec[n].vcores * Most
         /\ 100 * LoadRequest(ps, "mem") <= NodeSpec[n].memory * Most
         /\ Cardinality(ps) <= PodLimit(n, Most)
<1>1. PICK a \in AllocType : a = v[n]
  OBVIOUS
<1>2. PICK s \in Seq(Template) : s = a.pods
  BY DEF AllocType
<1>3. ASSUME NEW p \in ps PROVE u[p][1] = n /\ u[p][2] \in DOMAIN s /\ s[u[p][2]] = p[1] /\ p \in pods
  BY <1>1, <1>2 DEF Housed, Spots, HousedOn
<1>4. PICK w : w = [p \in ps |-> u[p][2]]
  OBVIOUS
<1>5. w \in Injection(ps, DOMAIN s)
  <2>1. w \in [ps -> DOMAIN s]
    BY <1>3, <1>4
  <2>2. ASSUME NEW p \in ps, NEW q \in ps, w[p] = w[q] PROVE p = q
    <3>1. u[p][1] = u[q][1] /\ u[p][2] = u[q][2] /\ p \in pods /\ q \in pods
      BY <1>3, <1>4, <2>2
    <3>2. u[p] \in nodes \X Nat /\ u[q] \in nodes \X Nat
      BY <3>1 DEF Housed, Spots
    <3>3. u[p] = u[q]
      BY <3>1, <3>2
    <3>4. QED
      BY <3>1, <3>3 DEF Housed
  <2>3. QED
    BY <2>1, <2>2, Fun_IsInj
<1>6. IsFiniteSet(DOMAIN s) /\ Cardinality(DOMAIN s) = Len(s)
  <2>1. PICK k \in Nat : k = Len(s) /\ DOMAIN s = 1..k
    OBVIOUS
  <2>2. IsFiniteSet(1..k) /\ Cardinality(1..k) = k
    BY FS_Interval
  <2>3. QED
    BY <2>1, <2>2
<1>7. IsFiniteSet(ps) /\ Cardinality(ps) <= Cardinality(DOMAIN s)
  BY <1>5, <1>6, FS_Injection
<1>8. ASSUME NEW resource \in {"cpu", "mem"}
      PROVE  /\ LoadRequest(ps, resource) \in Int /\ RequestedBy(s, resource) \in Int
             /\ LoadRequest(ps, resource) <= RequestedBy(s, resource)
  <2>1. PICK D : D = DOMAIN s
    OBVIOUS
  <2>2. PICK f, h : f = Asked(ps, resource) /\ h = Requests(s, resource)
    OBVIOUS
  <2>3. f \in [ps -> Int] /\ LoadRequest(ps, resource) = Total(f)
    BY <1>3, <1>7, <2>2, LoadRequestTotal
  <2>4. RequestedBy(s, resource) = Total(h) /\ h \in [D -> Int]
    BY <2>1, <2>2, RequestedByTotal
  <2>5. h \in [D -> Nat]
    BY <2>1, <2>2, TemplateAssumption DEF Requests, CpuRequest, MemRequest
  <2>6. \A p \in ps : f[p] <= h[w[p]]
    <3>1. ASSUME NEW p \in ps PROVE f[p] = h[w[p]] /\ f[p] \in Int
      BY <1>3, <1>4, <2>2, <2>3 DEF Asked, Requests
    <3>2. QED
      BY <3>1
  <2>7. w \in Injection(ps, D) /\ IsFiniteSet(D)
    BY <1>5, <1>6, <2>1
  <2>8. Total(f) <= Total(h)
    BY <2>3, <2>5, <2>6, <2>7, InjectedTotal
  <2>9. Total(f) \in Int /\ Total(h) \in Int
    BY <1>7, <2>3, <2>4, <2>7, TotalType
  <2>10. QED
    BY <2>3, <2>4, <2>8, <2>9
<1>9. \A p \in ps : Admits(n, p[1])
  BY <1>1, <1>2, <1>3 DEF Admitted
<1>10. a.cpu = RequestedBy(s, "cpu") /\ a.mem = RequestedBy(s, "mem") /\ a.pod = Len(s)
  BY <1>1, <1>2 DEF Accounted
<1>11. /\ 100 * a.cpu <= NodeSpec[n].vcores * Most
       /\ 100 * a.mem <= NodeSpec[n].memory * Most
       /\ a.pod <= PodLimit(n, Most)
  BY <1>1 DEF WithinMost
<1>12. PICK x, y, r : /\ x = NodeSpec[n].vcores * Most /\ y = NodeSpec[n].memory * Most
                      /\ r = PodLimit(n, Most)
  OBVIOUS
<1>13. x \in Int /\ y \in Int /\ r \in Int
  BY <1>12, NodeAssumption, MostIs DEF PodLimit
<1>14. 100 * LoadRequest(ps, "cpu") <= x
  BY <1>8, <1>10, <1>11, <1>12, <1>13
<1>15. 100 * LoadRequest(ps, "mem") <= y
  BY <1>8, <1>10, <1>11, <1>12, <1>13
<1>16. Cardinality(ps) <= r
  <2>1. Cardinality(ps) \in Nat /\ Len(s) \in Nat
    BY <1>7, FS_CardinalityType
  <2>2. QED
    BY <1>6, <1>7, <1>10, <1>11, <1>12, <1>13, <2>1
<1>17. QED
  BY <1>9, <1>12, <1>14, <1>15, <1>16

\* The scheduler's rules are those of the abstract cluster.
LEMMA SameRules ==
  ASSUME NEW ps, NEW n
  PROVE  Abstract!Fits(ps, n) <=>
           /\ \A p \in ps : Admits(n, p[1])
           /\ 100 * LoadRequest(ps, "cpu") <= NodeSpec[n].vcores * Most
           /\ 100 * LoadRequest(ps, "mem") <= NodeSpec[n].memory * Most
           /\ Cardinality(ps) <= PodLimit(n, Most)
<1>1. \A p : Abstract!Admits(n, p[1]) <=> Admits(n, p[1])
  BY Zenon DEF Abstract!Admits, Admits, Abstract!Tolerates, Tolerates, Abstract!TaintTolerated, TaintTolerated,
     Abstract!SatisfiesNodeAffinity, SatisfiesNodeAffinity, Abstract!MatchNodeSelectorRequirement,
     MatchNodeSelectorRequirement, Abstract!HasLabelKey, HasLabelKey, Abstract!LabelsOf, LabelsOf,
     Abstract!MatchesNodeSelector, MatchesNodeSelector
<1>2. \A k : Abstract!PodLimit(n, k) = PodLimit(n, k)
  BY Zenon DEF Abstract!PodLimit, PodLimit
<1>3. MapThenSumSet(LAMBDA p : Abstract!CpuRequest(p[1]), ps) = LoadRequest(ps, "cpu")
  BY Zenon DEF Abstract!CpuRequest, Abstract!GetPodResourceRequest, LoadRequest, GetPodResourceRequest,
     MapThenSumSet, MapThenFoldSet, Abstract!MapThenSumSet, Abstract!MapThenFoldSet, Max, Abstract!Max, Range,
     Abstract!Range
<1>4. MapThenSumSet(LAMBDA p : Abstract!MemRequest(p[1]), ps) = LoadRequest(ps, "mem")
  BY Zenon DEF Abstract!MemRequest, Abstract!GetPodResourceRequest, LoadRequest, GetPodResourceRequest,
     MapThenSumSet, MapThenFoldSet, Abstract!MapThenSumSet, Abstract!MapThenFoldSet, Max, Abstract!Max, Range,
     Abstract!Range
<1>5. PICK H : H = [f \in Factors |-> Most]
  OBVIOUS
<1>6. H.cpu = Most /\ H.mem = Most /\ H.pod = Most
  BY <1>5 DEF Factors
<1>7. Abstract!Cardinality(ps) = Cardinality(ps)
  BY Zenon DEF Abstract!Cardinality, Cardinality
<1>8. Abstract!Fits(ps, n) <=>
        /\ \A p \in ps : Abstract!Admits(n, p[1])
        /\ 100 * MapThenSumSet(LAMBDA p : Abstract!CpuRequest(p[1]), ps) <= NodeSpec[n].vcores * H.cpu
        /\ 100 * MapThenSumSet(LAMBDA p : Abstract!MemRequest(p[1]), ps) <= NodeSpec[n].memory * H.mem
        /\ Cardinality(ps) <= Abstract!PodLimit(n, H.pod)
  BY <1>5, <1>7, Zenon DEF Abstract!Fits, Most, MapThenSumSet, MapThenFoldSet, Abstract!MapThenSumSet,
     Abstract!MapThenFoldSet
<1>9. QED
  BY <1>1, <1>2, <1>3, <1>4, <1>6, <1>8, Zenon

\* More headroom is more room.
LEMMA Scaled ==
  ASSUME NEW x \in Nat, NEW k \in Nat, NEW h \in Int, NEW m \in Nat, h <= m, 100 * x <= k * h
  PROVE  100 * x <= k * m
<1>1. k * h <= k * m
  <2>1. PICK d \in Nat : m = h + d
    <3>1. m - h \in Nat /\ m = h + (m - h)
      OBVIOUS
    <3>2. QED
      BY <3>1
  <2>2. k * m = k * h + k * d /\ k * d \in Nat /\ k * h \in Int
    BY <2>1
  <2>3. QED
    BY <2>2
<1>2. k * h \in Int /\ k * m \in Nat
  OBVIOUS
<1>3. QED
  BY <1>1, <1>2

LEMMA LimitGrows ==
  ASSUME NEW x \in Nat, NEW n, NodeSpec[n].maxPods \in Nat, NEW h \in Int, NEW m \in Nat, h <= m, x <= PodLimit(n, h)
  PROVE  x <= PodLimit(n, m)
<1>1. PICK p, q : p = NodeSpec[n].maxPods * h /\ q = NodeSpec[n].maxPods * m
  OBVIOUS
<1>2. p \in Int /\ q \in Nat
  BY <1>1
<1>3. x <= p \div 100
  BY <1>1 DEF PodLimit
<1>4. 100 * x <= p
  BY <1>2, <1>3
<1>5. 100 * x <= q
  BY <1>1, <1>4, Scaled
<1>6. x <= q \div 100
  BY <1>2, <1>5
<1>7. QED
  BY <1>1, <1>6 DEF PodLimit

\* What a node counts at a level is what its pods of that level request, within the
\* headroom, and all that is on it is admitted.
LevelSoundOn(a, n) ==
  /\ a.cpu = RequestedBy(Since(a), "cpu") /\ a.mem = RequestedBy(Since(a), "mem")
  /\ Admitted(a, n) /\ WithinMost(a, n)

LevelSound(al) == \A n \in Node : LevelSoundOn(al[n], n)

LEMMA ViewSound ==
  ASSUME NEW al \in [Node -> AllocType], Counts(al), NEW n \in Node, LevelSoundOn(al[n], n)
  PROVE  Admitted(View(al)[n], n) /\ Accounted(View(al)[n]) /\ WithinMost(View(al)[n], n)
<1>1. PICK a \in AllocType : a = al[n]
  OBVIOUS
<1>2. a.pod <= Len(a.pods)
  BY <1>1 DEF Counts
<1>3. PICK v : v = View(al)[n]
  OBVIOUS
<1>4. v.pods = Since(a) /\ v.cpu = a.cpu /\ v.mem = a.mem /\ v.pod = a.pod
  BY <1>1, <1>3, ViewType
<1>5. PICK s \in Seq(Template) : s = Since(a) /\ Len(s) = a.pod
  BY <1>2, SinceType
<1>6. Admitted(v, n)
  <2>1. \A i \in 1..a.pod : \E j \in DOMAIN a.pods : s[i] = a.pods[j]
    BY <1>2, <1>5, SinceType
  <2>2. DOMAIN s = 1..a.pod
    BY <1>5
  <2>3. QED
    BY <1>1, <1>4, <1>5, <2>1, <2>2 DEF LevelSoundOn, Admitted
<1>7. WithinMost(v, n)
  BY <1>1, <1>4 DEF LevelSoundOn, WithinMost
<1>8. Accounted(v)
  BY <1>1, <1>4, <1>5 DEF LevelSoundOn, Accounted
<1>9. QED
  BY <1>3, <1>6, <1>7, <1>8

\* Where as many pods of each template are placed as the load asks for, the load
\* can be arranged.
LEMMA PlacedIsPackable ==
  ASSUME Percentages, NEW al \in [Node -> AllocType], Counts(al), LevelSound(al),
         NEW nodes \in SUBSET Node, NEW l \in [Template -> Nat],
         \A t \in Template : l[t] <= Placed({t}, View(al), nodes)
  PROVE  Abstract!Packable(l, nodes)
<1>1. PICK v \in [Node -> AllocType] : v = View(al)
  BY ViewType
<1>2. PICK pods : pods = Abstract!Pods(l)
  OBVIOUS
<1>3. PICK u : Housed(u, pods, v, nodes)
  <2>1. \A t \in Template : l[t] <= Placed({t}, v, nodes)
    BY <1>1
  <2>2. QED
    BY <1>2, <2>1, PodsHoused
<1>4. \A p \in pods : p[1] \in Template
  BY <1>2 DEF Abstract!Pods
<1>5. PICK at : at = [p \in pods |-> u[p][1]]
  OBVIOUS
<1>6. at \in [pods -> nodes]
  BY <1>3, <1>5 DEF Housed, Spots
<1>7. ASSUME NEW n \in nodes PROVE Abstract!Fits({p \in pods : at[p] = n}, n)
  <2>1. PICK ps : ps = HousedOn(u, pods, n)
    OBVIOUS
  <2>2. ps = {p \in pods : at[p] = n}
    BY <1>5, <2>1 DEF HousedOn
  <2>3. n \in Node /\ Admitted(v[n], n) /\ Accounted(v[n]) /\ WithinMost(v[n], n)
    BY <1>1, ViewSound DEF LevelSound
  <2>4. /\ \A p \in ps : Admits(n, p[1])
        /\ 100 * LoadRequest(ps, "cpu") <= NodeSpec[n].vcores * Most
        /\ 100 * LoadRequest(ps, "mem") <= NodeSpec[n].memory * Most
        /\ Cardinality(ps) <= PodLimit(n, Most)
    BY <1>1, <1>3, <1>4, <2>1, <2>3, HousedFit
  <2>5. Abstract!Fits(ps, n)
    BY <2>4, SameRules, Zenon
  <2>6. QED
    BY <2>2, <2>5
<1>8. QED
  BY <1>2, <1>6, <1>7 DEF Abstract!Packable

--------------------------------------------------------------------------------
(* Every level's allocations are sound.                                      *)

\* A node stays sound when it takes a pod that can be scheduled on it.
LEMMA BookedSound ==
  ASSUME Percentages, NEW a \in AllocType, a.pod <= Len(a.pods), NEW n \in Node, LevelSoundOn(a, n),
         NEW t \in Template, NEW h \in [Factors -> HeadroomPct], NEW L, CanScheduleOnNode(t, n, a, h, L),
         NEW b, b = WithPod(a, t)
  PROVE  b \in AllocType /\ b.pod <= Len(b.pods) /\ LevelSoundOn(b, n)
<1>1. b \in AllocType /\ b.pod <= Len(b.pods) /\ Since(b) = Append(Since(a), t)
  BY SinceOneMore
<1>2. /\ b.cpu = a.cpu + CpuRequest(t) /\ b.mem = a.mem + MemRequest(t)
      /\ b.pod = a.pod + 1 /\ b.pods = Append(a.pods, t)
  BY DEF WithPod
<1>3. HasEnoughResources(t, n, a, h) /\ Admits(n, t)
  BY DEF CanScheduleOnNode
<1>4. Admitted(b, n)
  <2>1. \A i \in DOMAIN b.pods :
          \/ i = Len(a.pods) + 1 /\ b.pods[i] = t
          \/ i \in DOMAIN a.pods /\ i <= Len(a.pods) /\ b.pods[i] = a.pods[i]
    <3>1. a.pods \in Seq(Template)
      BY DEF AllocType
    <3>2. QED
      BY <1>2, <3>1, OneMorePod
  <2>2. QED
    BY <1>3, <2>1 DEF LevelSoundOn, Admitted
<1>5. WithinMost(b, n)
  <2>1. PICK hc, hm, hp : hc = h.cpu /\ hm = h.mem /\ hp = h.pod
    OBVIOUS
  <2>2. hc \in HeadroomPct /\ hm \in HeadroomPct /\ hp \in HeadroomPct
    BY <2>1 DEF Factors
  <2>3. PICK m \in Nat : m = Most
    BY MostIs
  <2>4. hc \in Int /\ hm \in Int /\ hp \in Int /\ hc <= m /\ hm <= m /\ hp <= m
    BY <2>2, <2>3, MostIs
  <2>5. /\ 100 * b.cpu <= NodeSpec[n].vcores * hc
        /\ 100 * b.mem <= NodeSpec[n].memory * hm
        /\ b.pod <= PodLimit(n, hp)
    BY <1>2, <1>3, <2>1 DEF HasEnoughResources
  <2>6. b \in AllocType /\ NodeSpec[n].vcores \in Nat /\ NodeSpec[n].memory \in Nat /\ NodeSpec[n].maxPods \in Nat
    BY <1>1, NodeAssumption
  <2>7. 100 * b.cpu <= NodeSpec[n].vcores * m
    BY <2>4, <2>5, <2>6, Scaled DEF AllocType
  <2>8. 100 * b.mem <= NodeSpec[n].memory * m
    BY <2>4, <2>5, <2>6, Scaled DEF AllocType
  <2>9. b.pod <= PodLimit(n, m)
    BY <2>4, <2>5, <2>6, LimitGrows DEF AllocType
  <2>10. QED
    BY <2>3, <2>7, <2>8, <2>9 DEF WithinMost
<1>6. b.cpu = RequestedBy(Since(b), "cpu") /\ b.mem = RequestedBy(Since(b), "mem")
  <2>1. PICK s \in Seq(Template) : s = Since(a)
    BY SinceType
  <2>2. a.cpu = RequestedBy(s, "cpu") /\ a.mem = RequestedBy(s, "mem")
    BY <2>1 DEF LevelSoundOn
  <2>3. RequestedBy(Append(s, t), "cpu") = RequestedBy(s, "cpu") + CpuRequest(t)
    BY RequestedByOneMore DEF CpuRequest
  <2>4. RequestedBy(Append(s, t), "mem") = RequestedBy(s, "mem") + MemRequest(t)
    BY RequestedByOneMore DEF MemRequest
  <2>5. QED
    BY <1>1, <1>2, <2>1, <2>2, <2>3, <2>4
<1>7. QED
  BY <1>1, <1>4, <1>5, <1>6 DEF LevelSoundOn

\* A node whose counters are zero is sound.
LEMMA ResetSound ==
  ASSUME Percentages, NEW b \in AllocType, NEW n \in Node, Admitted(b, n),
         b.cpu = 0, b.mem = 0, b.pod = 0
  PROVE  LevelSoundOn(b, n)
<1>1. Since(b) = <<>>
  BY SinceNone
<1>2. RequestedBy(<<>>, "cpu") = 0 /\ RequestedBy(<<>>, "mem") = 0
  BY RequestedByNone
<1>3. WithinMost(b, n)
  <2>1. PICK m \in Nat : m = Most
    BY MostIs
  <2>2. PICK x \in Nat, y \in Nat, z \in Nat : x = NodeSpec[n].vcores /\ y = NodeSpec[n].memory /\ z = NodeSpec[n].maxPods
    BY NodeAssumption
  <2>3. x * m \in Nat /\ y * m \in Nat /\ z * m \in Nat
    OBVIOUS
  <2>4. 0 <= (z * m) \div 100
    BY <2>3
  <2>5. QED
    BY <2>1, <2>2, <2>3, <2>4 DEF WithinMost, PodLimit
<1>4. QED
  BY <1>1, <1>2, <1>3 DEF LevelSoundOn

LEMMA EmptyLevelSound ==
  ASSUME Percentages
  PROVE  /\ [n \in Node |-> Empty] \in [Node -> AllocType]
         /\ Counts([n \in Node |-> Empty]) /\ LevelSound([n \in Node |-> Empty])
<1>1. ASSUME NEW n \in Node PROVE LevelSoundOn(Empty, n) /\ Empty \in AllocType /\ Empty.pod <= Len(Empty.pods)
  <2>1. Empty \in AllocType /\ Admitted(Empty, n)
    BY EmptySound DEF SoundOn
  <2>2. Empty.cpu = 0 /\ Empty.mem = 0 /\ Empty.pod = 0 /\ Empty.pod <= Len(Empty.pods)
    BY DEF Empty
  <2>3. QED
    BY <2>1, <2>2, ResetSound
<1>2. QED
  BY <1>1 DEF Counts, LevelSound

\* Booking a pod on one of the nodes keeps them all sound.
LEMMA TakesSound ==
  ASSUME Percentages, NEW al \in [Node -> AllocType], Counts(al), LevelSound(al),
         NEW n \in Node, NEW t \in Template, NEW al2, Takes(al, al2, n, t),
         NEW h \in [Factors -> HeadroomPct], NEW L, CanScheduleOnNode(t, n, al[n], h, L)
  PROVE  al2 \in [Node -> AllocType] /\ Counts(al2) /\ LevelSound(al2)
<1>1. al2 \in [Node -> AllocType] /\ Counts(al2)
  BY ViewOneMore
<1>2. PICK a \in AllocType, b \in AllocType : a = al[n] /\ b = WithPod(a, t)
  BY WithPodType
<1>3. a.pod <= Len(a.pods) /\ LevelSoundOn(a, n) /\ CanScheduleOnNode(t, n, a, h, L)
  BY <1>2 DEF Counts, LevelSound
<1>4. LevelSoundOn(b, n)
  BY <1>2, <1>3, BookedSound
<1>5. al2[n] = b /\ \A m \in Node \ {n} : al2[m] = al[m]
  BY <1>2 DEF Takes
<1>6. QED
  BY <1>1, <1>4, <1>5 DEF LevelSound

--------------------------------------------------------------------------------
(* The inductive invariant of the refinement: what a level has placed is sound *)
(* in the scheduler and in the copy of a drain; the copy covers the load but for *)
(* what is still to be moved; after a successful drain the load can be arranged *)
(* without the node.                                                         *)

Kept     == Node \ Range(removed)
HereLoad == [t \in Template |-> PlacedHere(t)]

LevelsSound == LevelSound(alloc) /\ LevelSound(temp.alloc) /\ Counts(temp.alloc)

KeptLive == phase \in {"scan", "verdict"} /\ ~RemovedHere => live = Kept

CopyCovers ==
  phase = "verdict" /\ call = "drain" =>
    /\ Range(temp.order) = live \ {Candidate}
    /\ \A t \in Template :
         PlacedHere(t) <= Placed({t}, View(temp.alloc), live \ {Candidate}) + Carried({t}, pending)

Arranged ==
  phase = "verdict" /\ Idle /\ result = "ok" => Abstract!Packable(HereLoad, live \ {Candidate})

LevelInv == LevelsSound /\ KeptLive /\ CopyCovers /\ Arranged

\* Neither a drain nor its verdict.
LEMMA LevelElsewhere ==
  ASSUME LevelsSound', phase' \notin {"scan", "verdict"}
  PROVE  LevelInv'
BY DEF LevelInv, KeptLive, CopyCovers, Arranged

LEMMA ReturnLevel ==
  ASSUME Percentages, NEW r, Return(r), LevelSound(alloc')
  PROVE  LevelsSound'
<1>1. temp'.alloc = [n \in Node |-> Empty]
  BY DEF Return, NoTemp
<1>2. QED
  BY <1>1, EmptyLevelSound DEF LevelsSound

\* Whatever schedulePodWithStrategy does to sound nodes, they stay sound; a success
\* books the pod on one of them.
LEMMA OutcomeLevel ==
  ASSUME Percentages, NEW ord \in Seq(Node), NEW al \in [Node -> AllocType], Counts(al), LevelSound(al),
         NEW t \in Template, NEW h \in [Factors -> HeadroomPct],
         NEW out \in SchedulePodWithStrategy(ord, al, t, h)
  PROVE  /\ out.alloc \in [Node -> AllocType] /\ Counts(out.alloc) /\ LevelSound(out.alloc)
         /\ Range(out.order) = Range(ord)
         /\ out.ok => \E n \in Range(ord) : n \in Node /\ Takes(al, out.alloc, n, t)
<1>1. /\ Range(out.order) = Range(ord)
      /\ \/ out.alloc = al
         \/ \E n \in Range(ord) : /\ n \in Node
                                  /\ CanScheduleOnNode(t, n, al[n], h, Range(ord))
                                  /\ out.alloc = [al EXCEPT ![n] = WithPod(@, t)]
  BY ScheduleOutcome
<1>2. ASSUME NEW n \in Node, CanScheduleOnNode(t, n, al[n], h, Range(ord)),
             out.alloc = [al EXCEPT ![n] = WithPod(@, t)]
      PROVE  out.alloc \in [Node -> AllocType] /\ Counts(out.alloc) /\ LevelSound(out.alloc)
  <2>1. PICK al2, L : al2 = out.alloc /\ L = Range(ord)
    OBVIOUS
  <2>2. Takes(al, al2, n, t) /\ CanScheduleOnNode(t, n, al[n], h, L)
    BY <1>2, <2>1 DEF Takes
  <2>3. al2 \in [Node -> AllocType] /\ Counts(al2) /\ LevelSound(al2)
    BY <2>2, TakesSound
  <2>4. QED
    BY <2>1, <2>3
<1>3. out.ok => \E n \in Range(ord) : out.alloc = [al EXCEPT ![n] = WithPod(@, t)]
  BY SuccessBooks
<1>4. Range(ord) \subseteq Node
  BY DEF Range
<1>5. out.ok => \E n \in Range(ord) : n \in Node /\ Takes(al, out.alloc, n, t)
  BY <1>3, <1>4 DEF Takes
<1>6. QED
  BY <1>1, <1>2, <1>5

LEMMA AddFuncLevel ==
  ASSUME Percentages, ServiceInv, PlacedInv, LevelInv, AddFunc
  PROVE  LevelInv'
<1>1. /\ alloc \in [Node -> AllocType] /\ headroom \in [Factors -> HeadroomPct] /\ Counts(alloc)
      /\ Head(queue) \in Workload /\ phase' = "add"
  BY DEF ServiceInv, ServiceTypeOK, TypeOK, PlacedInv, LevelShape, AddFunc
<1>2. PICK t \in Template : t = WorkloadSpec[Head(queue)].template
  BY <1>1, ServiceAssumption
<1>3. AddDaemonSet(t) \/ UNCHANGED <<alloc, temp>>
  BY <1>2 DEF AddFunc, AddReplicas
<1>4. CASE AddDaemonSet(t)
  <2>1. ASSUME NEW n \in Node PROVE LevelSoundOn(alloc'[n], n)
    <3>1. PICK a \in AllocType : a = alloc[n]
      BY <1>1
    <3>8. PICK L : L = live
      OBVIOUS
    <3>2. a.pod <= Len(a.pods) /\ LevelSoundOn(a, n)
      BY <1>1, <3>1 DEF Counts, LevelInv, LevelsSound, LevelSound
    <3>3. \/ alloc'[n] = a
          \/ alloc'[n] = WithPod(a, t) /\ CanScheduleOnNode(t, n, a, headroom, L)
      BY <1>4, <3>1, <3>8 DEF AddDaemonSet
    <3>4. PICK b, h : b = WithPod(a, t) /\ h = headroom
      OBVIOUS
    <3>5. h \in [Factors -> HeadroomPct]
      BY <1>1, <3>4
    <3>6. CanScheduleOnNode(t, n, a, h, L) => LevelSoundOn(b, n)
      BY <3>1, <3>2, <3>4, <3>5, BookedSound
    <3>7. QED
      BY <3>2, <3>3, <3>4, <3>6
  <2>2. LevelSound(alloc') /\ temp' = temp
    BY <1>4, <2>1 DEF LevelSound, AddDaemonSet
  <2>3. LevelsSound'
    BY <2>2 DEF LevelInv, LevelsSound
  <2>4. QED
    BY <1>1, <2>3, LevelElsewhere
<1>5. CASE UNCHANGED <<alloc, temp>>
  <2>1. LevelsSound'
    BY <1>5 DEF LevelInv, LevelsSound
  <2>2. QED
    BY <1>1, <2>1, LevelElsewhere
<1>6. QED
  BY <1>3, <1>4, <1>5

LEMMA AddStepLevel ==
  ASSUME Percentages, ServiceInv, PlacedInv, LevelInv, AddStep
  PROVE  LevelInv'
<1>1. /\ phase = "add" /\ phase' = "add" /\ call # "drain" /\ Counts(alloc) /\ LevelSound(alloc)
      /\ order \in Seq(Node) /\ alloc \in [Node -> AllocType] /\ headroom \in [Factors -> HeadroomPct]
      /\ pending \in Seq(Template)
  BY DEF ServiceInv, ServiceTypeOK, TypeOK, PlacedInv, LevelShape, AddStep, LevelInv, LevelsSound
<1>2. CASE AllPlaced
  BY <1>1, <1>2, ReturnLevel, LevelElsewhere DEF AllPlaced
<1>3. CASE PlaceReplica
  <2>1. PICK t \in Template : t = Head(pending)
    BY <1>1, <1>3, HeadTailProperties DEF PlaceReplica
  <2>2. PICK out \in SchedulePodWithStrategy(order, alloc, t, headroom) :
          /\ alloc' = out.alloc
          /\ UNCHANGED temp \/ \E r : Return(r)
    BY <1>3, <2>1 DEF PlaceReplica
  <2>3. LevelSound(alloc')
    BY <1>1, <2>2, OutcomeLevel
  <2>4. LevelsSound'
    <3>1. CASE UNCHANGED temp
      BY <2>3, <3>1 DEF LevelInv, LevelsSound
    <3>2. CASE \E r : Return(r)
      BY <2>3, <3>2, ReturnLevel
    <3>3. QED
      BY <2>2, <3>1, <3>2
  <2>5. QED
    BY <1>1, <2>4, LevelElsewhere
<1>4. QED
  BY <1>1, <1>2, <1>3 DEF AddStep, SchedulerStep, DrainPod, Drained

\* The pods that count are among the pods.
LEMMA CarriedSince ==
  ASSUME NEW a \in AllocType, a.pod <= Len(a.pods), NEW P
  PROVE  Carried(P, Since(a)) <= Carried(P, a.pods) /\ Carried(P, Since(a)) \in Nat /\ Carried(P, a.pods) \in Nat
<1>1. PICK s \in Seq(Template), p \in Seq(Template), k \in Nat, l \in Nat :
        s = Since(a) /\ p = a.pods /\ k = a.pod /\ l = Len(p)
  BY SinceType DEF AllocType
<1>2. /\ Len(s) = k /\ k <= l /\ DOMAIN s = 1..k /\ DOMAIN p = 1..l
      /\ \A i \in 1..k : s[i] = p[l - k + i] /\ l - k + i \in 1..l
  BY <1>1, SinceType
<1>3. PICK S, T : S = {i \in DOMAIN s : s[i] \in P} /\ T = {i \in DOMAIN p : p[i] \in P}
  OBVIOUS
<1>4. PICK w : w = [i \in S |-> l - k + i]
  OBVIOUS
<1>5. w \in Injection(S, T)
  <2>1. w \in [S -> T]
    BY <1>2, <1>3, <1>4
  <2>2. ASSUME NEW i \in S, NEW j \in S, w[i] = w[j] PROVE i = j
    <3>1. i \in Int /\ j \in Int /\ l - k + i = l - k + j
      BY <1>2, <1>3, <1>4, <2>2
    <3>2. QED
      BY <1>1, <3>1
  <2>3. QED
    BY <2>1, <2>2, Fun_IsInj
<1>6. IsFiniteSet(T) /\ Carried(P, p) = Cardinality(T) /\ Carried(P, s) = Cardinality(S)
  BY <1>3, CarriedType DEF Carried
<1>7. Cardinality(S) <= Cardinality(T)
  BY <1>5, <1>6, FS_Injection
<1>8. Carried(P, s) \in Nat /\ Carried(P, p) \in Nat
  BY CarriedType
<1>9. QED
  BY <1>1, <1>6, <1>7, <1>8

\* What is placed is a number of pods.
LEMMA PlacedNat ==
  ASSUME NEW v \in [Node -> AllocType], NEW nodes \in SUBSET Node, NEW t
  PROVE  Placed({t}, v, nodes) \in Nat
BY SpotsCounted, FS_CardinalityType

LEMMA HereLoadType ==
  ASSUME ServiceInv, PlacedInv
  PROVE  HereLoad \in [Template -> Nat] /\ \A t \in Template : HereLoad[t] = PlacedHere(t)
<1>1. alloc \in [Node -> AllocType] /\ Counts(alloc) /\ live \in SUBSET Node
  BY LiveNodes DEF ServiceInv, ServiceTypeOK, TypeOK, PlacedInv, LevelShape
<1>2. PICK v \in [Node -> AllocType], nodes \in SUBSET Node : v = View(alloc) /\ nodes = live
  BY <1>1, ViewType
<1>3. \A t \in Template : PlacedHere(t) \in Nat
  BY <1>2, PlacedNat DEF PlacedHere
<1>4. QED
  BY <1>3, Zenon DEF HereLoad

\* Where a node and its copy are left out the load can be arranged on sound nodes that
\* cover it.
LEMMA CoveredIsPackable ==
  ASSUME Percentages, ServiceInv, PlacedInv, NEW al \in [Node -> AllocType], Counts(al), LevelSound(al),
         NEW n \in Node, \A t \in Template : PlacedHere(t) <= Placed({t}, View(al), live \ {n})
  PROVE  Abstract!Packable(HereLoad, live \ {n})
<1>1. PICK l \in [Template -> Nat] : l = HereLoad /\ \A t \in Template : l[t] = PlacedHere(t)
  BY HereLoadType
<1>2. PICK nodes \in SUBSET Node : nodes = live \ {n}
  BY LiveNodes DEF ServiceInv, ServiceTypeOK
<1>3. \A t \in Template : l[t] <= Placed({t}, View(al), nodes)
  BY <1>1, <1>2
<1>4. Abstract!Packable(l, nodes)
  BY <1>3, PlacedIsPackable
<1>5. QED
  BY <1>1, <1>2, <1>4

\* Of the pods placed on the node that is left out at most those it lists are missing.
LEMMA LeftOut ==
  ASSUME ServiceInv, PlacedInv, NEW n \in live, NEW t \in Template
  PROVE  PlacedHere(t) <= Placed({t}, View(alloc), live \ {n}) + Carried({t}, alloc[n].pods)
<1>1. alloc \in [Node -> AllocType] /\ Counts(alloc) /\ live \in SUBSET Node
  BY LiveNodes DEF ServiceInv, ServiceTypeOK, TypeOK, PlacedInv, LevelShape
<1>2. PICK v \in [Node -> AllocType], nodes \in SUBSET Node : v = View(alloc) /\ nodes = live
  BY <1>1, ViewType
<1>3. PICK a \in AllocType : a = alloc[n] /\ a.pod <= Len(a.pods)
  BY <1>1 DEF Counts
<1>4. v[n].pods = Since(a)
  BY <1>1, <1>2, <1>3, ViewType
<1>5. PICK P : P = {t}
  OBVIOUS
<1>6. Placed(P, v, nodes \ {n}) + Carried(P, v[n].pods) = Placed(P, v, nodes)
  BY <1>2, PlacedWithout
<1>7. Carried(P, Since(a)) <= Carried(P, a.pods) /\ Carried(P, Since(a)) \in Nat /\ Carried(P, a.pods) \in Nat
  BY <1>3, CarriedSince
<1>8. Placed(P, v, nodes \ {n}) \in Int
  <2>1. nodes \ {n} \in SUBSET Node
    OBVIOUS
  <2>2. QED
    BY <2>1, PlacedType
<1>9. Placed(P, v, nodes) <= Placed(P, v, nodes \ {n}) + Carried(P, a.pods)
  BY <1>4, <1>6, <1>7, <1>8
<1>10. QED
  BY <1>2, <1>3, <1>5, <1>9 DEF PlacedHere

LEMMA TryRemoveLevel ==
  ASSUME Percentages, ServiceInv, PlacedInv, LevelInv, TryRemove
  PROVE  LevelInv'
<1>1. /\ phase = "scan" /\ phase' = "verdict" /\ ~RemovedHere
      /\ UNCHANGED <<order, alloc, removed, scanned, remaining>>
      /\ order \in Seq(Node) /\ scanned \in Nat /\ scanned < Len(order)
      /\ alloc \in [Node -> AllocType] /\ Counts(alloc) /\ LevelSound(alloc) /\ TypeOK /\ Once(order)
  BY DEF ServiceInv, ServiceTypeOK, TypeOK, Parted, PlacedInv, LevelShape, LevelInv, LevelsSound, TryRemove,
     CanRemoveNode
<1>2. PICK n \in Node : n = Candidate
  BY <1>1 DEF Candidate
<1>3. Candidate' = n /\ live' = live /\ n \in live
  BY <1>1, <1>2 DEF Candidate, live, Range
<1>4. KeptLive'
  BY <1>1, <1>3 DEF LevelInv, KeptLive, RemovedHere, Kept
<1>5. HereLoad' = HereLoad /\ \A t \in Template : PlacedHere(t)' = PlacedHere(t)
  BY <1>1, <1>3 DEF HereLoad, PlacedHere
<1>6. CanRemoveNode(n)
  BY <1>2 DEF TryRemove
<1>7. CASE alloc[n].pods = <<>> /\ Return("ok")
  <2>1. \A t \in Template : PlacedHere(t) <= Placed({t}, View(alloc), live \ {n})
    <3>1. ASSUME NEW t \in Template PROVE PlacedHere(t) <= Placed({t}, View(alloc), live \ {n})
      <4>1. Carried({t}, alloc[n].pods) = 0
        <5>1. <<>> \in Seq(Template) /\ \A i \in DOMAIN <<>> : <<>>[i] # t
          OBVIOUS
        <5>2. QED
          BY <1>7, <5>1, CarriedNone
      <4>2. PlacedHere(t) <= Placed({t}, View(alloc), live \ {n}) + Carried({t}, alloc[n].pods)
        BY <1>3, LeftOut
      <4>3. Placed({t}, View(alloc), live \ {n}) \in Int
        <5>1. PICK v \in [Node -> AllocType], nodes \in SUBSET Node : v = View(alloc) /\ nodes = live \ {n}
          BY <1>1, ViewType, LiveNodes
        <5>2. QED
          BY <5>1, PlacedType
      <4>4. QED
        BY <4>1, <4>2, <4>3
    <3>2. QED
      BY <3>1
  <2>2. Abstract!Packable(HereLoad, live \ {n})
    BY <1>1, <2>1, CoveredIsPackable
  <2>3. Arranged' /\ CopyCovers'
    BY <1>3, <1>5, <1>7, <2>2 DEF Arranged, CopyCovers, Return
  <2>4. LevelsSound'
    BY <1>1, <1>7, ReturnLevel
  <2>5. QED
    BY <1>4, <2>3, <2>4 DEF LevelInv
<1>8. CASE /\ call' = "drain" /\ target' = {n}
           /\ pending' = alloc[n].pods
           /\ temp' = [order |-> Without(n), alloc |-> alloc]
           /\ UNCHANGED result
  <2>1. temp'.alloc = alloc /\ Range(temp'.order) = live \ {n}
    BY <1>1, <1>3, <1>8, WithoutIt DEF Once, NodesOnce, live
  <2>2. LevelsSound'
    BY <1>1, <2>1 DEF LevelsSound
  <2>3. \A t \in Template : PlacedHere(t) <= Placed({t}, View(alloc), live \ {n}) + Carried({t}, alloc[n].pods)
    BY <1>3, LeftOut
  <2>4. CopyCovers'
    BY <1>3, <1>5, <1>8, <2>1, <2>3 DEF CopyCovers
  <2>5. Arranged'
    BY <1>8 DEF Arranged, Idle
  <2>6. QED
    BY <1>4, <2>2, <2>4, <2>5 DEF LevelInv
<1>9. QED
  BY <1>3, <1>6, <1>7, <1>8 DEF CanRemoveNode

LEMMA DrainStepLevel ==
  ASSUME Percentages, ServiceInv, PlacedInv, LevelInv, DrainStep
  PROVE  LevelInv'
<1>1. /\ phase = "verdict" /\ phase' = "verdict" /\ call = "drain"
      /\ UNCHANGED <<removed, scanned, remaining>>
      /\ order \in Seq(Node) /\ scanned \in Nat /\ scanned < Len(order)
      /\ pending \in Seq(Template) /\ headroom \in [Factors -> HeadroomPct] /\ TypeOK
      /\ DrainPod \/ Drained
  BY DEF ServiceInv, ServiceTypeOK, TypeOK, Parted, Progress, DrainStep, serviceVars, SchedulerStep, PlaceReplica,
     AllPlaced
<1>2. UNCHANGED <<order, alloc>>
  BY <1>1 DEF DrainPod, Drained
<1>3. PICK n \in Node : n = Candidate /\ Candidate' = n /\ live' = live
  BY <1>1, <1>2 DEF Candidate, live
<1>4. KeptLive'
  BY <1>1, <1>3 DEF LevelInv, KeptLive, RemovedHere, Kept
<1>5. HereLoad' = HereLoad /\ \A t \in Template : PlacedHere(t)' = PlacedHere(t)
  BY <1>2, <1>3 DEF HereLoad, PlacedHere
<1>6. PICK al \in [Node -> AllocType], ord \in Seq(Node) : al = temp.alloc /\ ord = temp.order
  BY <1>1 DEF TypeOK
<1>7. /\ Counts(al) /\ LevelSound(al) /\ Range(ord) = live \ {n} /\ LevelSound(alloc)
      /\ \A t \in Template : PlacedHere(t) <= Placed({t}, View(al), live \ {n}) + Carried({t}, pending)
  BY <1>1, <1>3, <1>6 DEF LevelInv, LevelsSound, CopyCovers
<1>8. PICK nodes \in SUBSET Node, v \in [Node -> AllocType] : nodes = live \ {n} /\ v = View(al)
  BY <1>1, <1>7, LiveNodes, ViewType
<1>9. CASE Return("failed")
  <2>1. LevelsSound'
    BY <1>2, <1>7, <1>9, ReturnLevel
  <2>2. CopyCovers' /\ Arranged'
    BY <1>9 DEF CopyCovers, Arranged, Return
  <2>3. QED
    BY <1>4, <2>1, <2>2 DEF LevelInv
<1>10. CASE Drained
  <2>1. Return("ok") /\ pending = <<>>
    BY <1>10 DEF Drained
  <2>2. \A t \in Template : PlacedHere(t) <= Placed({t}, View(al), live \ {n})
    <3>1. ASSUME NEW t \in Template PROVE PlacedHere(t) <= Placed({t}, v, nodes)
      <4>1. Carried({t}, pending) = 0
        <5>1. <<>> \in Seq(Template) /\ \A i \in DOMAIN <<>> : <<>>[i] # t
          OBVIOUS
        <5>2. QED
          BY <2>1, <5>1, CarriedNone
      <4>2. Placed({t}, v, nodes) \in Int
        BY PlacedType
      <4>3. PlacedHere(t) <= Placed({t}, v, nodes) + Carried({t}, pending)
        BY <1>7, <1>8
      <4>4. QED
        BY <4>1, <4>2, <4>3
    <3>2. QED
      BY <1>8, <3>1
  <2>3. Abstract!Packable(HereLoad, live \ {n})
    BY <1>7, <2>2, CoveredIsPackable
  <2>4. CopyCovers' /\ Arranged'
    BY <1>3, <1>5, <2>1, <2>3 DEF CopyCovers, Arranged, Return
  <2>5. LevelsSound'
    BY <1>2, <1>7, <2>1, ReturnLevel
  <2>6. QED
    BY <1>4, <2>4, <2>5 DEF LevelInv
<1>11. CASE DrainPod /\ ~Return("failed")
  <2>1. pending # <<>>
    BY <1>11 DEF DrainPod
  <2>2. PICK t \in Template, rest \in Seq(Template) : t = Head(pending) /\ rest = Tail(pending)
    BY <1>1, <2>1, HeadTailProperties
  <2>3. PICK out \in SchedulePodWithStrategy(ord, al, t, headroom) :
          /\ out.ok /\ temp' = [order |-> out.order, alloc |-> out.alloc]
          /\ pending' = rest /\ UNCHANGED <<call, target, result>>
    BY <1>6, <1>11, <2>2 DEF DrainPod
  <2>4. PICK h \in [Factors -> HeadroomPct] : h = headroom
    BY <1>1
  <2>5. /\ out.alloc \in [Node -> AllocType] /\ Counts(out.alloc) /\ LevelSound(out.alloc)
        /\ Range(out.order) = Range(ord)
        /\ \E m \in Range(ord) : m \in Node /\ Takes(al, out.alloc, m, t)
    BY <1>7, <2>3, <2>4, OutcomeLevel
  <2>6. PICK al2 \in [Node -> AllocType] : al2 = out.alloc /\ Counts(al2) /\ LevelSound(al2)
    BY <2>5
  <2>7. PICK m \in Node : m \in nodes /\ Takes(al, al2, m, t)
    BY <1>7, <1>8, <2>5, <2>6
  <2>8. Takes(View(al), View(al2), m, t)
    BY <1>7, <2>7, ViewOneMore
  <2>9. PICK v2 \in [Node -> AllocType] : v2 = View(al2)
    BY <2>6, ViewType
  <2>10. temp'.alloc = al2 /\ Range(temp'.order) = live \ {n}
    BY <1>7, <2>3, <2>5, <2>6
  <2>11. LevelsSound'
    BY <1>2, <1>7, <2>6, <2>10 DEF LevelsSound
  <2>12. ASSUME NEW u \in Template PROVE PlacedHere(u) <= Placed({u}, v2, nodes) + Carried({u}, rest)
    <3>1. Placed({u}, v2, nodes) = Placed({u}, v, nodes) + Bit({u}, t)
      <4>1. Takes(v, v2, m, t)
        BY <1>8, <2>8, <2>9
      <4>2. QED
        BY <2>7, <4>1, TakesPlaced
    <3>2. Carried({u}, pending) = Carried({u}, rest) + Bit({u}, t)
      BY <1>1, <2>1, <2>2, CarriedRest
    <3>3. Placed({u}, v, nodes) \in Int
      BY PlacedType
    <3>4. Carried({u}, rest) \in Nat
      BY CarriedType
    <3>5. Bit({u}, t) \in Int
      BY DEF Bit
    <3>6. PlacedHere(u) <= Placed({u}, v, nodes) + Carried({u}, pending)
      BY <1>7, <1>8
    <3>7. QED
      BY <3>1, <3>2, <3>3, <3>4, <3>5, <3>6
  <2>13. CopyCovers'
    BY <1>3, <1>5, <1>8, <2>3, <2>9, <2>10, <2>12 DEF CopyCovers
  <2>14. Arranged'
    BY <1>1, <2>3 DEF Arranged, Idle
  <2>15. QED
    BY <1>4, <2>11, <2>13, <2>14 DEF LevelInv
<1>12. QED
  BY <1>1, <1>9, <1>10, <1>11

\* After the verdict a node may be gone; if it is not, those kept are those of the level.
LEMMA VerdictLevel ==
  ASSUME ServiceInv, LevelInv, Verdict \/ KeepRest
  PROVE  LevelInv'
<1>1. /\ UNCHANGED <<order, alloc, temp>> /\ phase' = "scan" /\ live' = live /\ phase \in {"scan", "verdict"}
      /\ scanned \in Nat /\ scanned' = scanned + 1 /\ remaining \in Seq(Node) /\ Len(remaining) \in Nat
      /\ order \in Seq(Node) /\ scanned < Len(order)
  BY DEF Verdict, KeepRest, schedVars, live, ServiceInv, ServiceTypeOK, TypeOK, Parted, Progress
<1>2. Candidate \in Node
  BY <1>1 DEF Candidate
<1>3. LevelsSound'
  BY <1>1 DEF LevelInv, LevelsSound
<1>4. KeptLive'
  <2>1. CASE UNCHANGED remaining
    <3>1. Len(remaining) = scanned
      BY <2>1, <1>1 DEF Verdict, KeepRest, Keep, ServiceInv, Progress
    <3>2. RemovedHere'
      BY <1>1, <2>1, <3>1 DEF RemovedHere
    <3>3. QED
      BY <3>2 DEF KeptLive
  <2>2. CASE remaining' = Append(remaining, Candidate) /\ UNCHANGED removed
    <3>1. Len(remaining') = Len(remaining) + 1
      BY <1>1, <1>2, <2>2
    <3>2. RemovedHere' <=> RemovedHere
      BY <1>1, <3>1 DEF RemovedHere
    <3>3. QED
      BY <1>1, <2>2, <3>2 DEF LevelInv, KeptLive, Kept
  <2>3. QED
    BY <2>1, <2>2 DEF Verdict, KeepRest, Keep
<1>5. CopyCovers' /\ Arranged'
  BY <1>1 DEF CopyCovers, Arranged
<1>6. QED
  BY <1>3, <1>4, <1>5 DEF LevelInv

\* What a level leaves behind counts nothing.
LEMMA EndScanLevel ==
  ASSUME Percentages, ServiceInv, LevelInv, EndScan
  PROVE  LevelInv'
<1>1. phase' \in {"idle", "enter"} /\ UNCHANGED temp
  BY DEF EndScan, Finish
<1>2. LevelSound(alloc')
  <2>1. CASE ~RemovedHere
    BY <2>1 DEF EndScan, LevelInv, LevelsSound
  <2>2. CASE RemovedHere
    <3>1. alloc' = [n \in Node |-> IF n \in Range(remaining)
                                   THEN [alloc[n] EXCEPT !.cpu = 0, !.mem = 0, !.pod = 0]
                                   ELSE Empty]
      BY <2>2 DEF EndScan
    <3>2. ASSUME NEW n \in Node PROVE LevelSoundOn(alloc'[n], n)
      <4>1. PICK a \in AllocType : a = alloc[n]
        BY DEF ServiceInv, ServiceTypeOK, TypeOK
      <4>2. Admitted(a, n)
        BY <4>1 DEF LevelInv, LevelsSound, LevelSound, LevelSoundOn
      <4>3. CASE n \in Range(remaining)
        <5>1. PICK b : b = [a EXCEPT !.cpu = 0, !.mem = 0, !.pod = 0]
          OBVIOUS
        <5>2. b \in AllocType /\ b.cpu = 0 /\ b.mem = 0 /\ b.pod = 0 /\ b.pods = a.pods
          BY <5>1 DEF AllocType
        <5>3. LevelSoundOn(b, n)
          BY <4>2, <5>2, ResetSound DEF Admitted
        <5>4. QED
          BY <3>1, <4>1, <4>3, <5>1, <5>3
      <4>4. CASE n \notin Range(remaining)
        <5>1. alloc'[n] = Empty
          BY <3>1, <4>4
        <5>2. LevelSoundOn(Empty, n)
          <6>1. LevelSound([m \in Node |-> Empty])
            BY EmptyLevelSound
          <6>2. [m \in Node |-> Empty][n] = Empty
            OBVIOUS
          <6>3. QED
            BY <6>1, <6>2 DEF LevelSound
        <5>3. QED
          BY <5>1, <5>2
      <4>5. QED
        BY <4>3, <4>4
    <3>3. QED
      BY <3>2 DEF LevelSound
  <2>3. QED
    BY <2>1, <2>2
<1>3. LevelsSound'
  BY <1>1, <1>2 DEF LevelInv, LevelsSound
<1>4. QED
  BY <1>1, <1>3, LevelElsewhere

LEMMA SimulateLevel ==
  ASSUME Percentages, LevelInv, Simulate
  PROVE  LevelInv'
<1>1. alloc' = [n \in Node |-> Empty] /\ phase' = "enter" /\ UNCHANGED temp
  BY DEF Simulate
<1>2. LevelsSound'
  BY <1>1, EmptyLevelSound DEF LevelInv, LevelsSound
<1>3. QED
  BY <1>1, <1>2, LevelElsewhere

LEMMA BeforeScanLevel ==
  ASSUME LevelInv, EnterLevel \/ Collect \/ SortByPriority
  PROVE  LevelInv'
<1>1. UNCHANGED <<alloc, temp>> /\ phase' \notin {"scan", "verdict"}
  BY DEF EnterLevel, Collect, SortByPriority, Finish, schedVars
<1>2. LevelsSound'
  BY <1>1 DEF LevelInv, LevelsSound
<1>3. QED
  BY <1>1, <1>2, LevelElsewhere

\* The loop begins with the nodes that are kept.
LEMMA AllAddedLevel ==
  ASSUME ServiceInv, LevelInv, AllAdded
  PROVE  LevelInv'
<1>1. UNCHANGED <<order, alloc, temp, removed>> /\ phase' = "scan" /\ live' = live
  BY DEF AllAdded, schedVars, live
<1>2. scanned = 0 /\ remaining = <<>> /\ Parted /\ order \in Seq(Node)
  BY DEF AllAdded, ServiceInv, ServiceTypeOK, TypeOK, Progress
<1>3. Ahead = live /\ Range(remaining) = {}
  BY <1>2, BeyondAll, NothingOnce DEF Ahead, live
<1>4. live = Node \ Range(removed)
  BY <1>2, <1>3 DEF Parted
<1>5. KeptLive'
  BY <1>1, <1>4 DEF KeptLive, Kept
<1>6. LevelsSound'
  BY <1>1 DEF LevelInv, LevelsSound
<1>7. QED
  BY <1>1, <1>5, <1>6 DEF LevelInv, CopyCovers, Arranged

LEMMA SameLevel ==
  ASSUME LevelInv, UNCHANGED <<order, alloc, call, pending, temp, result, phase, scanned, remaining, removed>>
  PROVE  LevelInv'
<1>1. HereLoad' = HereLoad /\ (\A t \in Template : PlacedHere(t)' = PlacedHere(t)) /\ live' = live /\ Candidate' = Candidate
  BY DEF HereLoad, PlacedHere, live, Candidate
<1>2. LevelsSound' /\ KeptLive'
  BY <1>1 DEF LevelInv, LevelsSound, KeptLive, RemovedHere, Kept
<1>3. CopyCovers'
  BY <1>1 DEF LevelInv, CopyCovers
<1>4. Arranged'
  BY <1>1 DEF LevelInv, Arranged, Idle
<1>5. QED
  BY <1>2, <1>3, <1>4 DEF LevelInv

LEMMA InitLevel ==
  ASSUME Percentages, ServiceInit
  PROVE  LevelInv
<1>1. alloc = [n \in Node |-> Empty] /\ temp.alloc = [n \in Node |-> Empty] /\ phase = "idle"
  BY DEF ServiceInit, SchedulerInit, NoTemp
<1>2. LevelsSound
  BY <1>1, EmptyLevelSound DEF LevelsSound
<1>3. QED
  BY <1>1, <1>2 DEF LevelInv, KeptLive, CopyCovers, Arranged

LEMMA LevelStep ==
  ASSUME Percentages, ServiceInv, PlacedInv, LevelInv, [ServiceNext]_vars
  PROVE  LevelInv'
<1>1. CASE SimulateStep
  BY <1>1, BeforeScanLevel, AddFuncLevel, AddStepLevel, AllAddedLevel, TryRemoveLevel, DrainStepLevel, VerdictLevel,
     EndScanLevel DEF SimulateStep
<1>2. CASE Simulate
  BY <1>2, SimulateLevel
<1>3. CASE ChangeHeadroom \/ (\E w \in Workload : Register(w)) \/ UNCHANGED vars
  BY <1>3, SameLevel DEF ChangeHeadroom, SetHeadroom, Register, vars, schedVars, serviceVars
<1>4. QED
  BY <1>1, <1>2, <1>3 DEF ServiceNext

--------------------------------------------------------------------------------
(* The refinement, step by step.                                             *)

Load == [t \in Template |-> LevelCopies(t)]

LoadTyped == Load = HereLoad /\ Load \in [Template -> Nat]

LEMMA LoadPlaced ==
  ASSUME ServiceInv, PlacedInv
  PROVE  LoadTyped
<1>1. TypeOK /\ Counts(alloc)
  BY DEF ServiceInv, ServiceTypeOK, PlacedInv, LevelShape
<1>2. \A t \in Template : LevelCopies(t) = PlacedHere(t)
  BY <1>1, LevelCopiesPlaced DEF PlacedHere
<1>3. Load = HereLoad
  BY <1>2, Zenon DEF Load, HereLoad
<1>4. QED
  BY <1>3, HereLoadType DEF LoadTyped

\* The steps of the abstract specification, said of what stands for its variables.
LEMMA AsReload ==
  ASSUME LoadTyped', Kept' = Kept \/ Kept' = Node, UNCHANGED answer
  PROVE  Abstract!Next
<1>1. Kept' \in {Kept, Node} /\ Load' \in [Template -> Nat]
  BY DEF LoadTyped
<1>2. QED
  BY <1>1, Zenon DEF Abstract!Next, Abstract!Reload, Kept, Load

LEMMA AsRemove ==
  ASSUME NEW n \in Kept, Kept # {n}, Abstract!Packable(Load, Kept \ {n}), Kept' = Kept \ {n},
         Load' = Load, UNCHANGED answer
  PROVE  Abstract!Next
<1>1. Abstract!Remove(n)
  BY Zenon DEF Abstract!Remove, Kept, Load
<1>2. QED
  BY <1>1, Zenon DEF Abstract!Next, Kept

LEMMA AsReport ==
  ASSUME Range(answer') = Node \ Kept, Len(answer') = Cardinality(Node \ Kept), Kept' = Kept, Load' = Load
  PROVE  Abstract!Next
<1>1. Abstract!Range(answer') = Range(answer') /\ Abstract!Cardinality(Node \ Kept) = Cardinality(Node \ Kept)
  BY Zenon DEF Abstract!Range, Range, Abstract!Cardinality, Cardinality, Abstract!IsFiniteSet, IsFiniteSet
<1>2. Abstract!Report
  BY <1>1, Zenon DEF Abstract!Report, Kept, Load
<1>3. QED
  BY <1>2, Zenon DEF Abstract!Next

LEMMA AsStutter ==
  ASSUME Kept' = Kept, Load' = Load, UNCHANGED answer
  PROVE  UNCHANGED Abstract!vars
BY Zenon DEF Abstract!vars, Kept, Load

\* What is placed changes with the nodes of the scheduler only.
LEMMA SameLoad ==
  ASSUME LoadTyped, LoadTyped', UNCHANGED <<order, alloc>>
  PROVE  Load' = Load
<1>1. live' = live
  BY DEF live
<1>2. \A t \in Template : PlacedHere(t)' = PlacedHere(t)
  BY <1>1 DEF PlacedHere
<1>3. HereLoad' = HereLoad
  BY <1>2 DEF HereLoad
<1>4. QED
  BY <1>3 DEF LoadTyped

\* A simulation that ends reports what it removed.
LEMMA FinishReports ==
  ASSUME ServiceInv, LoadTyped, LoadTyped', phase # "idle", Finish, UNCHANGED <<order, alloc, removed>>
  PROVE  Abstract!Next
<1>1. removed \in Seq(Node) /\ Once(removed) /\ answer' = removed
  BY DEF ServiceInv, ServiceTypeOK, Parted, Finish
<1>2. Node \ Kept = Range(removed)
  BY <1>1, RangeFinite DEF Kept
<1>3. Range(answer') = Node \ Kept /\ Len(answer') = Cardinality(Node \ Kept)
  BY <1>1, <1>2 DEF Once
<1>4. Kept' = Kept /\ Load' = Load
  BY SameLoad DEF Kept
<1>5. QED
  BY <1>3, <1>4, AsReport

\* A verdict that removes a node finds the load arranged without it.
LEMMA VerdictRemoves ==
  ASSUME ServiceInv, LevelInv, LoadTyped, LoadTyped', Verdict, result = "ok"
  PROVE  Abstract!Next
<1>1. /\ phase = "verdict" /\ Idle /\ removed' = Append(removed, Candidate)
      /\ UNCHANGED <<order, alloc, answer>>
  BY DEF Verdict, schedVars
<1>2. /\ scanned \in Nat /\ scanned < Len(order) /\ Len(remaining) = scanned /\ Len(order) >= 2
      /\ order \in Seq(Node) /\ Once(order) /\ removed \in Seq(Node) /\ Parted
  BY <1>1 DEF ServiceInv, ServiceTypeOK, TypeOK, Parted, Progress
<1>3. PICK n \in Node : n = Candidate
  BY <1>2 DEF Candidate
<1>4. live = Kept
  BY <1>1, <1>2 DEF LevelInv, KeptLive, RemovedHere
<1>5. n \in Kept /\ Kept # {n}
  <2>1. n \in Range(order)
    BY <1>2, <1>3 DEF Candidate, Range
  <2>2. Cardinality(Range(order)) >= 2
    BY <1>2 DEF Once
  <2>3. Cardinality({n}) = 1
    BY FS_Singleton
  <2>4. QED
    BY <1>4, <2>1, <2>2, <2>3 DEF live
<1>6. Abstract!Packable(Load, Kept \ {n})
  <2>1. Abstract!Packable(HereLoad, live \ {n})
    BY <1>1, <1>3 DEF LevelInv, Arranged
  <2>2. QED
    BY <1>4, <2>1 DEF LoadTyped
<1>7. Kept' = Kept \ {n}
  <2>1. n \notin Range(removed)
    BY <1>5 DEF Kept
  <2>2. Range(Append(removed, n)) = Range(removed) \cup {n}
    BY <1>2, <2>1, OnceAppend DEF Parted
  <2>3. QED
    BY <1>1, <1>3, <2>2 DEF Kept
<1>8. Load' = Load
  BY <1>1, SameLoad
<1>9. QED
  BY <1>1, <1>5, <1>6, <1>7, <1>8, AsRemove

LEMMA RefineStep ==
  ASSUME ServiceInv, LevelInv, LoadTyped, LoadTyped', [ServiceNext]_vars
  PROVE  [Abstract!Next]_(Abstract!vars)
<1>1. CASE Simulate
  <2>1. Kept' = Node /\ UNCHANGED answer
    BY <1>1, NothingOnce DEF Simulate, Kept
  <2>2. QED
    BY <2>1, AsReload
<1>2. CASE AddFunc \/ AddStep
  BY <1>2, AsReload DEF AddFunc, AddStep, Kept
<1>3. CASE EndScan /\ RemovedHere
  BY <1>3, AsReload DEF EndScan, Kept
<1>4. CASE EndScan /\ ~RemovedHere
  BY <1>4, FinishReports DEF EndScan
<1>5. CASE EnterLevel /\ Len(order) <= 1
  BY <1>5, FinishReports DEF EnterLevel
<1>6. CASE Verdict /\ result = "ok"
  BY <1>6, VerdictRemoves
<1>7. CASE UNCHANGED <<order, alloc, removed, answer>>
  <2>1. Kept' = Kept /\ Load' = Load /\ UNCHANGED answer
    BY <1>7, SameLoad DEF Kept
  <2>2. QED
    BY <2>1, AsStutter
<1>8. CASE EnterLevel /\ ~(Len(order) <= 1)
  BY <1>7, <1>8 DEF EnterLevel
<1>9. CASE Verdict /\ result # "ok"
  BY <1>7, <1>9 DEF Verdict, Keep, schedVars
<1>10. CASE Collect \/ SortByPriority \/ AllAdded \/ TryRemove \/ KeepRest
  BY <1>7, <1>10 DEF Collect, SortByPriority, AllAdded, TryRemove, CanRemoveNode, KeepRest, Keep, schedVars
<1>11. CASE DrainStep
  <2>1. call = "drain"
    BY <1>11 DEF DrainStep, ServiceInv, Progress
  <2>2. UNCHANGED <<order, alloc>>
    BY <1>11, <2>1 DEF DrainStep, SchedulerStep, PlaceReplica, AllPlaced, DrainPod, Drained
  <2>3. QED
    BY <1>7, <1>11, <2>2 DEF DrainStep, serviceVars
<1>12. CASE ChangeHeadroom \/ (\E w \in Workload : Register(w)) \/ UNCHANGED vars
  BY <1>7, <1>12 DEF ChangeHeadroom, SetHeadroom, Register, vars, schedVars, serviceVars
<1>13. QED
  BY <1>1, <1>2, <1>3, <1>4, <1>5, <1>6, <1>8, <1>9, <1>10, <1>11, <1>12 DEF ServiceNext, SimulateStep

LEMMA RefineInit ==
  ASSUME ServiceInit, PlacedInv, LoadTyped
  PROVE  Abstract!Init
<1>1. alloc = [n \in Node |-> Empty] /\ removed = <<>> /\ answer = <<>>
  BY DEF ServiceInit, SchedulerInit
<1>2. Kept = Node
  BY <1>1, NothingOnce DEF Kept
<1>3. PICK al, nodes : al = alloc /\ nodes = live
  OBVIOUS
<1>4. al \in [Node -> AllocType] /\ Counts(al) /\ (\A n \in Node : al[n].pod = 0) /\ nodes \in SUBSET Node
  BY <1>1, <1>3, ServiceAssumption DEF Empty, AllocType, Counts, ServiceInit, live
<1>5. \A t \in Template : Placed({t}, View(al), nodes) = 0
  BY <1>4, NothingPlaced
<1>6. HereLoad = [t \in Template |-> 0]
  BY <1>3, <1>5, Zenon DEF HereLoad, PlacedHere
<1>7. QED
  BY <1>1, <1>2, <1>6, Zenon DEF LoadTyped, Abstract!Init, Abstract!NoLoad, Kept, Load

\* In every execution the service implements NodeRemoval: a node is taken away only when the
\* pods placed at its level can be arranged on the nodes that are left, within the largest
\* factors there are, never the last one, and the answer names exactly the nodes taken away;
\* whichever order the placement chose and whatever was registered or changed meanwhile
\* (scheduling_service.go:62-236, scheduling_simulation.go:207-250).
THEOREM ServiceImplementsNodeRemoval ==
  ASSUME Node # {}, IsFiniteSet(HeadroomPct), \E h \in HeadroomPct : h >= 0
  PROVE  ServiceSpec => ImplementsNodeRemoval
<1>1. Percentages
  BY DEF Percentages
<1>2. ServiceInit => ServiceInv /\ PlacedInv /\ LevelInv
  BY <1>1, InitService, InitPlaced, InitLevel
<1>3. ServiceInv /\ [ServiceNext]_vars => ServiceInv'
  BY ServiceStep
<1>4. ServiceInv /\ ServiceInv' /\ PlacedInv /\ [ServiceNext]_vars => PlacedInv'
  BY PlacedStep
<1>5. ServiceInv /\ PlacedInv /\ LevelInv /\ [ServiceNext]_vars => LevelInv'
  BY <1>1, LevelStep
<1>6. ServiceInv /\ PlacedInv => LoadTyped
  BY LoadPlaced
<1>7. ServiceInit /\ PlacedInv /\ LoadTyped => Abstract!Init
  BY RefineInit
<1>8. ServiceInv /\ LevelInv /\ LoadTyped /\ LoadTyped' /\ [ServiceNext]_vars => [Abstract!Next]_(Abstract!vars)
  BY RefineStep
<1>9. ServiceSpec => Abstract!Init /\ [][Abstract!Next]_(Abstract!vars)
  BY <1>2, <1>3, <1>4, <1>5, <1>6, <1>7, <1>8, PTL DEF ServiceSpec
<1>10. ImplementsNodeRemoval <=> Abstract!Init /\ [][Abstract!Next]_(Abstract!vars)
  BY Zenon DEF ImplementsNodeRemoval, Abstract!Spec
<1>11. QED
  BY <1>9, <1>10

================================================================================
