------------------------- MODULE WorkloadPipelineProofs -------------------------
(***************************************************************************)
(* For every number of workers, kinds, namespaces, workloads, retries and  *)
(* re-evaluations: the work on an item is one chain of jobs, handed on     *)
(* from the listing of its namespace to its optimization and, later, from  *)
(* a re-evaluation to the next optimization.  The proofs follow it:        *)
(* IInv, that the chain is in one hand; Items, that therefore the copy a   *)
(* job works on is the stored item, and that whatever overlaps an item     *)
(* that is not settled has a job that goes on with it; from both, that     *)
(* the processors implement ItemLifecycle; Loading, that no more than      *)
(* LazyLoad items are loaded unasked; that results have metrics; InOrder,  *)
(* that an agent's reports are shown from the front.                       *)
(***************************************************************************)
EXTENDS WorkloadPipeline, SequenceTheorems, FiniteSetTheorems, TLAPS

ListSteps == {"namespaces", "list", "report"}
ItemSteps == {"pods", "metrics", "optimize"}

\* Job j is going to deal with item i.
Concerns(j, i) ==
  \/ j.step = "namespaces" /\ \E ns \in Namespace \ {"kube-system"} : i \in Range(Listing[j.kind][ns])
  \/ j.step = "list" /\ i \in Range(Listing[j.kind][j.of])
  \/ j.step = "report" /\ i \in Range(Report[j.kind])
  \/ j.step \in ItemSteps /\ j.of = i

\* Worker w deals with item i, or is going to.
Begun(w) == work[w].stage \notin {"free", "call"}
Attends(w, i) ==
  \/ work[w].stage = "call" /\ Concerns(work[w].job, i)
  \/ Begun(w) /\ Lists(w) /\ i \in Range(work[w].rest)
  \/ Begun(w) /\ ~Lists(w) /\ work[w].job.of = i

\* Of these, the items that are not listed yet.
Foretold(j, i) == j.step \in ListSteps /\ Concerns(j, i)
Foreseen(w, i) ==
  \/ work[w].stage = "call" /\ Foretold(work[w].job, i)
  \/ Begun(w) /\ Lists(w) /\ i \in Range(Tail(work[w].rest))

Injective(s) == \A a, b \in 1..Len(s) : s[a] = s[b] => a = b

\* The stages of a job, and what is left of a listing.
StagesOf(w) ==
  /\ work[w].stage \in {"count", "store"} => work[w].job.step = "list"
  /\ work[w].stage = "report" => work[w].job.step = "report"
  /\ work[w].stage \in {"publish", "record"} => work[w].job.step # "namespaces"
  /\ work[w].rest = <<>> <=> (~Begun(w) \/ ~Lists(w))
  /\ Injective(work[w].rest)
  /\ \A i \in Id : Begun(w) /\ Lists(w) /\ i \in Range(work[w].rest) => KindOf(i) = work[w].job.kind
Stages == \A w \in Worker : StagesOf(w)

\* The work on item i is in one hand: one waiting job, one worker or the re-evaluation.
OneHand(i) ==
  /\ \A j \in Job : queue[j] > 0 /\ Concerns(j, i) => queue[j] = 1
  /\ \A j, k \in Job : queue[j] > 0 /\ Concerns(j, i) /\ queue[k] > 0 /\ Concerns(k, i) => j = k
  /\ \A v, w \in Worker : Attends(v, i) /\ Attends(w, i) => v = w
  /\ \A w \in Worker, j \in Job : ~(Attends(w, i) /\ queue[j] > 0 /\ Concerns(j, i))
  /\ reeval.stage # "none" /\ reeval.id = i =>
       /\ \A w \in Worker : ~Attends(w, i)
       /\ \A j \in Job : ~(queue[j] > 0 /\ Concerns(j, i))

\* Nobody sees an item before its listing has reached it.
Unseen(i) ==
  published[i].listed =>
    /\ \A w \in Worker : ~Foreseen(w, i)
    /\ \A j \in Job : ~(queue[j] > 0 /\ Foretold(j, i))

Chains == \A i \in Id \ raced : OneHand(i) /\ Unseen(i)

IInv == TypeOK /\ Stages /\ Chains

--------------------------------------------------------------------------------
(* Jobs and tasks.                                                           *)

\* What a job is, by its step.
LEMMA JobFields ==
  ASSUME NEW j \in Job
  PROVE  /\ j = [step |-> j.step, kind |-> j.kind, of |-> j.of, tries |-> j.tries]
         /\ j.tries \in 0..MaxRetry
         /\ \/ j.step \in {"namespaces", "report"} /\ j.kind \in Kind /\ j.of = "cluster" /\ j.tries = 0
            \/ j.step = "list" /\ j.kind \in Kind /\ j.of \in Namespace /\ j.tries = 0
            \/ j.step \in ItemSteps /\ j.of \in Id /\ j.kind = KindOf(j.of)
BY PipelineAssumption DEF Job, ItemSteps

\* The jobs that are pushed are jobs.
LEMMA JobOfItem ==
  ASSUME NEW i \in Id, NEW step \in ItemSteps, NEW n \in 0..MaxRetry
  PROVE  [step |-> step, kind |-> KindOf(i), of |-> i, tries |-> n] \in Job
BY PipelineAssumption DEF Job, ItemSteps

LEMMA JobPushed ==
  ASSUME NEW i \in Id, NEW step \in ItemSteps
  PROVE  ItemJob(step, i) \in Job
<1>1. 0 \in 0..MaxRetry
  BY PipelineAssumption
<1>2. QED
  BY <1>1, JobOfItem DEF ItemJob, NewJob

LEMMA JobOfListing ==
  ASSUME NEW k \in Kind
  PROVE  /\ \A step \in {"namespaces", "report"} : NewJob(step, k, "cluster") \in Job
         /\ \A ns \in Namespace : NewJob("list", k, ns) \in Job
BY DEF Job, NewJob

\* An item has a kind, and none is named like a namespace.
LEMMA KindOfItem ==
  ASSUME NEW i \in Id
  PROVE  /\ KindOf(i) \in Kind /\ \E ns \in Namespace : i \in Range(Listing[KindOf(i)][ns])
         /\ i # "cluster" /\ i \notin Namespace
<1>1. PICK k \in Kind, ns \in Namespace : i \in Range(Listing[k][ns])
  BY DEF Id
<1>2. KindOf(i) \in Kind /\ \E ms \in Namespace : i \in Range(Listing[KindOf(i)][ms])
  BY <1>1 DEF KindOf
<1>3. i # "cluster" /\ i \notin Namespace
  BY IdsAreUnique
<1>4. QED
  BY <1>2, <1>3

LEMMA Listed ==
  /\ \A k \in Kind, ns \in Namespace : Range(Listing[k][ns]) \subseteq Id /\ Listing[k][ns] \in Seq(Id)
  /\ \A k \in Kind : Range(Report[k]) \subseteq Id /\ Report[k] \in Seq(Id)
<1>1. ASSUME NEW k \in Kind PROVE Range(Report[k]) \subseteq Id
  <2>1. Report[k] \in Seq(Id)
    BY PipelineAssumption
  <2>2. QED
    BY <2>1, RangeOfSeq
<1>2. ASSUME NEW k \in Kind, NEW ns \in Namespace PROVE Range(Listing[k][ns]) \subseteq Id
  BY DEF Id
<1>3. QED
  BY <1>1, <1>2, PipelineAssumption

\* A listing has an item once, and no other listing has it.
LEMMA ListedOnce ==
  /\ \A k \in Kind, ns \in Namespace : Injective(Listing[k][ns])
  /\ \A k \in Kind : Injective(Report[k])
  /\ \A k, l \in Kind, ns, ms \in Namespace : \A i \in Range(Listing[k][ns]) :
       i \in Range(Listing[l][ms]) => k = l /\ ns = ms
  /\ \A k, l \in Kind : \A i \in Range(Report[k]) : i \in Range(Report[l]) => k = l
<1>1. \A k \in Kind, ns \in Namespace : DOMAIN Listing[k][ns] = 1..Len(Listing[k][ns])
  BY PipelineAssumption, LenProperties
<1>2. \A k \in Kind : DOMAIN Report[k] = 1..Len(Report[k])
  BY PipelineAssumption, LenProperties
<1>3. \A k \in Kind, ns \in Namespace : Injective(Listing[k][ns])
  BY <1>1, IdsAreUnique DEF Injective
<1>4. \A k \in Kind : Injective(Report[k])
  BY <1>2, IdsAreUnique DEF Injective
<1>5. \A k, l \in Kind, ns, ms \in Namespace : \A i \in Range(Listing[k][ns]) :
       i \in Range(Listing[l][ms]) => k = l /\ ns = ms
  BY IdsAreUnique DEF Range
<1>6. \A k, l \in Kind : \A i \in Range(Report[k]) : i \in Range(Report[l]) => k = l
  BY IdsAreUnique DEF Range
<1>7. QED
  BY <1>3, <1>4, <1>5, <1>6

\* A listing is of one kind.
LEMMA ListedKind ==
  /\ \A k \in Kind, ns \in Namespace : \A i \in Range(Listing[k][ns]) : KindOf(i) = k
  /\ \A k \in Kind : \A i \in Range(Report[k]) : KindOf(i) = k
<1>1. ASSUME NEW k \in Kind, NEW ns \in Namespace, NEW i \in Range(Listing[k][ns]) PROVE KindOf(i) = k
  <2>1. i \in Id
    BY Listed
  <2>2. PICK ms \in Namespace : i \in Range(Listing[KindOf(i)][ms])
    BY <2>1, KindOfItem
  <2>3. KindOf(i) \in Kind
    BY <2>1, KindOfItem
  <2>4. QED
    BY <2>2, <2>3, ListedOnce
<1>2. QED
  BY <1>1, IdsAreUnique

\* What is left of a listing, and what is left after its first item.
LEMMA RestOfListing ==
  ASSUME NEW s \in Seq(Id), Injective(s)
  PROVE  /\ Range(s) \subseteq Id
         /\ s # <<>> => /\ Head(s) \in Id /\ Head(s) \in Range(s)
                        /\ Tail(s) \in Seq(Id) /\ Injective(Tail(s))
                        /\ Range(Tail(s)) \subseteq Range(s) /\ Head(s) \notin Range(Tail(s))
                        /\ \A i \in Range(s) : i # Head(s) => i \in Range(Tail(s))
<1>1. Range(s) \subseteq Id
  BY RangeOfSeq
<1>2. Len(s) \in Nat /\ DOMAIN s = 1..Len(s) /\ \A a \in 1..Len(s) : s[a] \in Range(s)
  BY LenProperties DEF Range
<1>3. ASSUME s # <<>>
      PROVE  /\ Head(s) \in Id /\ Head(s) \in Range(s)
             /\ Tail(s) \in Seq(Id) /\ Injective(Tail(s))
             /\ Range(Tail(s)) \subseteq Range(s) /\ Head(s) \notin Range(Tail(s))
             /\ \A i \in Range(s) : i # Head(s) => i \in Range(Tail(s))
  <2>1. /\ Head(s) = s[1] /\ Head(s) \in Id /\ Len(s) >= 1
        /\ Tail(s) \in Seq(Id) /\ Len(Tail(s)) = Len(s) - 1
        /\ \A a \in 1..Len(Tail(s)) : Tail(s)[a] = s[a + 1]
    BY <1>2, <1>3, HeadTailProperties, EmptySeq, LenProperties
  <2>2. DOMAIN Tail(s) = 1..Len(Tail(s))
    BY <2>1, LenProperties
  <2>3. \A i \in Range(Tail(s)) : \E a \in 1..Len(Tail(s)) : i = s[a + 1]
    BY <2>1, <2>2 DEF Range
  <2>4. \A a \in 2..Len(s) : s[a] \in Range(Tail(s))
    <3> SUFFICES ASSUME NEW a \in 2..Len(s) PROVE s[a] \in Range(Tail(s))
      OBVIOUS
    <3>1. a - 1 \in 1..Len(Tail(s)) /\ (a - 1) + 1 = a
      BY <1>2, <2>1
    <3>2. s[a] = Tail(s)[a - 1]
      BY <2>1, <3>1
    <3>3. QED
      BY <2>2, <3>1, <3>2 DEF Range
  <2>5. Injective(Tail(s))
    BY <1>2, <2>1 DEF Injective
  <2>6. Range(Tail(s)) \subseteq Range(s)
    BY <1>2, <2>1, <2>3
  <2>7. Head(s) \notin Range(Tail(s))
    BY <1>2, <2>1, <2>3 DEF Injective
  <2>8. \A i \in Range(s) : \E a \in 1..Len(s) : i = s[a]
    BY <1>2 DEF Range
  <2>9. \A i \in Range(s) : i # Head(s) => i \in Range(Tail(s))
    BY <1>2, <2>1, <2>4, <2>8
  <2>10. QED
    BY <1>2, <2>1, <2>5, <2>6, <2>7, <2>9
<1>4. QED
  BY <1>1, <1>3

--------------------------------------------------------------------------------
(* A worker hands its work on.                                               *)

\* What worker w deals with it goes on with, drops, or hands on in the jobs it pushes.
HandsOn(w) ==
  /\ \A v \in Worker \ {w} : work'[v] = work[v]
  /\ \A i \in Id : Attends(w, i)' => Attends(w, i)
  /\ \A i \in Id : Foreseen(w, i)' => Foreseen(w, i)
  /\ \E jobs \in SUBSET Job :
       /\ queue' = Pushed(jobs)
       /\ \A i \in Id, j \in jobs : Concerns(j, i) => Attends(w, i) /\ ~Attends(w, i)'
       /\ \A i \in Id, j, k \in jobs : Concerns(j, i) /\ Concerns(k, i) => j = k
       /\ \A i \in Id, j \in jobs : Foretold(j, i) => Foreseen(w, i)
  /\ UNCHANGED <<reeval, raced>>

\* Only what the worker is at may be published.
PublishesOwn(w) ==
  \A i \in Id : published'[i].listed =>
    published[i].listed \/ (Attends(w, i) /\ ~Foreseen(w, i))

\* What is foreseen is attended to.
LEMMA ForeseenAttended ==
  ASSUME TypeOK, Stages, NEW w \in Worker, NEW i \in Id, Foreseen(w, i)
  PROVE  Attends(w, i)
<1>1. CASE work[w].stage = "call" /\ Foretold(work[w].job, i)
  BY <1>1 DEF Attends, Foretold
<1>2. CASE Begun(w) /\ Lists(w) /\ i \in Range(Tail(work[w].rest))
  <2>1. work[w].rest \in Seq(Id) /\ Injective(work[w].rest) /\ work[w].rest # <<>>
    BY <1>2 DEF TypeOK, Task, Stages, StagesOf
  <2>2. i \in Range(work[w].rest)
    BY <1>2, <2>1, RestOfListing
  <2>3. QED
    BY <1>2, <2>2 DEF Attends
<1>3. QED
  BY <1>1, <1>2 DEF Foreseen

\* Whether another worker deals with an item depends on that worker only.
LEMMA OthersAttend ==
  ASSUME NEW v \in Worker, work'[v] = work[v], NEW i \in Id
  PROVE  (Attends(v, i)' <=> Attends(v, i)) /\ (Foreseen(v, i)' <=> Foreseen(v, i))
BY DEF Attends, Foreseen, Begun, Lists

LEMMA HandOn ==
  ASSUME IInv, NEW w \in Worker, HandsOn(w), PublishesOwn(w)
  PROVE  Chains'
<1> SUFFICES ASSUME NEW i \in Id \ raced' PROVE OneHand(i)' /\ Unseen(i)'
  BY DEF Chains
<1>1. i \in Id \ raced /\ OneHand(i) /\ Unseen(i)
  BY DEF HandsOn, IInv, Chains
<1>2. \A v \in Worker \ {w} : (Attends(v, i)' <=> Attends(v, i)) /\ (Foreseen(v, i)' <=> Foreseen(v, i))
  BY OthersAttend DEF HandsOn
<1>3. (Attends(w, i)' => Attends(w, i)) /\ (Foreseen(w, i)' => Foreseen(w, i))
  BY DEF HandsOn
<1>4. PICK jobs \in SUBSET Job :
        /\ queue' = Pushed(jobs)
        /\ \A j \in jobs : Concerns(j, i) => Attends(w, i) /\ ~Attends(w, i)'
        /\ \A j, k \in jobs : Concerns(j, i) /\ Concerns(k, i) => j = k
        /\ \A j \in jobs : Foretold(j, i) => Foreseen(w, i)
  BY DEF HandsOn
<1>5. queue \in [Job -> Nat]
  BY DEF IInv, TypeOK
<1>6. \A j \in Job : queue'[j] = (IF j \in jobs THEN queue[j] + 1 ELSE queue[j])
  BY <1>4, <1>5 DEF Pushed
<1>7. \A j \in Job : Concerns(j, i) /\ j \in jobs => queue'[j] = 1 /\ (\A k \in Job : Concerns(k, i) => queue[k] = 0)
  BY <1>1, <1>4, <1>5, <1>6 DEF OneHand
<1>8. \A j \in Job : j \notin jobs => queue'[j] = queue[j]
  BY <1>6
<1>9. reeval' = reeval
  BY DEF HandsOn
<1>10. OneHand(i)'
  <2>1. \A j \in Job : queue'[j] > 0 /\ Concerns(j, i) => queue'[j] = 1
    BY <1>1, <1>7, <1>8 DEF OneHand
  <2>2. \A j, k \in Job : queue'[j] > 0 /\ Concerns(j, i) /\ queue'[k] > 0 /\ Concerns(k, i) => j = k
    BY <1>1, <1>4, <1>7, <1>8 DEF OneHand
  <2>3. \A v, u \in Worker : Attends(v, i)' /\ Attends(u, i)' => v = u
    BY <1>1, <1>2, <1>3 DEF OneHand
  <2>4. \A v \in Worker : Attends(v, i)' => Attends(v, i)
    BY <1>2, <1>3
  <2>5. ASSUME NEW v \in Worker, NEW j \in Job, Attends(v, i)', queue'[j] > 0, Concerns(j, i) PROVE FALSE
    <3>1. CASE j \in jobs
      <4>1. Attends(w, i) /\ ~Attends(w, i)'
        BY <2>5, <3>1, <1>4
      <4>2. QED
        BY <4>1, <2>4, <2>5, <1>1 DEF OneHand
    <3>2. CASE j \notin jobs
      BY <3>2, <2>4, <2>5, <1>1, <1>8 DEF OneHand
    <3>3. QED
      BY <3>1, <3>2
  <2>6. reeval.stage # "none" /\ reeval.id = i =>
          (\A v \in Worker : ~Attends(v, i)') /\ \A j \in Job : ~(queue'[j] > 0 /\ Concerns(j, i))
    BY <1>1, <1>4, <1>8, <2>4 DEF OneHand
  <2>7. QED
    BY <2>1, <2>2, <2>3, <2>5, <2>6, <1>9 DEF OneHand
<1>11. Unseen(i)'
  <2> SUFFICES ASSUME published'[i].listed
               PROVE  /\ \A v \in Worker : ~Foreseen(v, i)'
                      /\ \A j \in Job : ~(queue'[j] > 0 /\ Foretold(j, i))
    BY DEF Unseen
  <2>1. published[i].listed \/ (Attends(w, i) /\ ~Foreseen(w, i))
    BY DEF PublishesOwn
  <2>2. CASE published[i].listed
    BY <1>1, <1>2, <1>3, <1>4, <1>8, <2>2 DEF Unseen
  <2>3. CASE Attends(w, i) /\ ~Foreseen(w, i)
    <3>1. \A v \in Worker : Foreseen(v, i) => Attends(v, i)
      BY ForeseenAttended DEF IInv
    <3>2. \A v \in Worker : ~Foreseen(v, i)'
      BY <1>1, <1>2, <1>3, <2>3, <3>1 DEF OneHand
    <3>3. ASSUME NEW j \in Job, queue'[j] > 0, Foretold(j, i) PROVE FALSE
      <4>1. CASE j \in jobs
        BY <4>1, <3>3, <1>4, <2>3
      <4>2. CASE j \notin jobs
        BY <4>2, <3>3, <1>1, <1>8, <2>3 DEF OneHand, Foretold
      <4>3. QED
        BY <4>1, <4>2
    <3>4. QED
      BY <3>2, <3>3
  <2>4. QED
    BY <2>1, <2>2, <2>3
<1>12. QED
  BY <1>10, <1>11

\* A step that pushes nothing and publishes nothing.
LEMMA CarryOn ==
  ASSUME IInv, NEW w \in Worker, \A v \in Worker \ {w} : work'[v] = work[v],
         \A i \in Id : (Attends(w, i)' => Attends(w, i)) /\ (Foreseen(w, i)' => Foreseen(w, i)),
         UNCHANGED <<published, queue, reeval, raced>>
  PROVE  Chains'
<1>1. queue' = Pushed({})
  BY DEF IInv, TypeOK, Pushed
<1>2. HandsOn(w) /\ PublishesOwn(w)
  BY <1>1 DEF HandsOn, PublishesOwn
<1>3. QED
  BY <1>2, HandOn

\* Once a job is pushed, the queue is still a queue.
LEMMA PushedType ==
  ASSUME TypeOK, NEW jobs
  PROVE  Pushed(jobs) \in [Job -> Nat]
BY DEF TypeOK, Pushed

LEMMA FreeTask ==
  /\ Free \in Task /\ Free.stage = "free" /\ Free.rest = <<>>
  /\ NoItem \in Item /\ NoResult \in Result
<1>1. NoItem \in Item /\ NoResult \in Result
  BY PipelineAssumption DEF NoItem, Item, NoResult, Result, Measure
<1>2. NewJob("namespaces", CHOOSE k \in Kind : TRUE, "cluster") \in Job
  BY JobOfListing, PipelineAssumption
<1>3. <<>> \in Seq(Id)
  BY EmptySeq
<1>4. QED
  BY <1>1, <1>2, <1>3 DEF Free, Task

\* The item a worker is at.
LEMMA AtItem ==
  ASSUME TypeOK, Stages, NEW w \in Worker,
         Begun(w) \/ (work[w].stage = "call" /\ work[w].job.step \in ItemSteps)
  PROVE  /\ IdOf(w) \in Id /\ Attends(w, IdOf(w)) /\ ~Foreseen(w, IdOf(w))
         /\ work[w].job.step \in {"list", "report"} \cup ItemSteps
         /\ KindOf(IdOf(w)) = work[w].job.kind
<1>1. work[w] \in Task /\ work[w].job \in Job /\ work[w].rest \in Seq(Id)
  BY DEF TypeOK, Task
<1>2. work[w].job.step # "namespaces"
  BY <1>1 DEF Stages, StagesOf, Begun, Task, ItemSteps
<1>3. CASE Lists(w)
  <2>1. Begun(w)
    BY <1>3 DEF Lists, ItemSteps
  <2>2. work[w].rest # <<>> /\ Injective(work[w].rest)
    BY <1>3, <2>1 DEF Stages, StagesOf
  <2>3. /\ Head(work[w].rest) \in Id /\ Head(work[w].rest) \in Range(work[w].rest)
        /\ Head(work[w].rest) \notin Range(Tail(work[w].rest))
    BY <1>1, <2>2, RestOfListing
  <2>4. KindOf(IdOf(w)) = work[w].job.kind
    BY <1>3, <2>1, <2>3 DEF IdOf, Stages, StagesOf
  <2>5. QED
    BY <1>3, <2>1, <2>3, <2>4 DEF IdOf, Attends, Foreseen, Begun, Lists
<1>4. CASE ~Lists(w)
  <2>1. work[w].job.step \in ItemSteps /\ work[w].job.of \in Id /\ work[w].job.kind = KindOf(work[w].job.of)
    BY <1>1, <1>2, <1>4, JobFields DEF Lists
  <2>2. QED
    BY <1>4, <2>1 DEF IdOf, Attends, Foreseen, Concerns, Foretold, Begun, Lists, ItemSteps, ListSteps
<1>5. QED
  BY <1>3, <1>4

\* A worker that goes on with the same job deals with the same items.
LEMMA SameItems ==
  ASSUME TypeOK, Stages, NEW w \in Worker, NEW i \in Id,
         Begun(w) \/ (work[w].stage = "call" /\ work[w].job.step \in ItemSteps),
         Begun(w)', work'[w].job = work[w].job, work'[w].rest = work[w].rest
  PROVE  (Attends(w, i)' <=> Attends(w, i)) /\ (Foreseen(w, i)' <=> Foreseen(w, i))
<1>1. CASE Begun(w)
  BY <1>1 DEF Attends, Foreseen, Begun, Lists
<1>2. CASE work[w].stage = "call" /\ work[w].job.step \in ItemSteps
  BY <1>2 DEF Attends, Foreseen, Begun, Lists, Concerns, Foretold, ItemSteps, ListSteps
<1>3. QED
  BY <1>1, <1>2

\* A worker that becomes free drops what it dealt with.
LEMMA Freed ==
  ASSUME TypeOK, Stages, NEW w \in Worker, work' = [work EXCEPT ![w] = Free]
  PROVE  /\ work' \in [Worker -> Task] /\ work'[w] = Free
         /\ \A v \in Worker \ {w} : work'[v] = work[v]
         /\ \A i \in Id : ~Attends(w, i)' /\ ~Foreseen(w, i)'
         /\ Stages'
<1>1. work \in [Worker -> Task]
  BY DEF TypeOK
<1>2. /\ work' \in [Worker -> Task] /\ work'[w] = Free
      /\ \A v \in Worker \ {w} : work'[v] = work[v]
  BY <1>1, FreeTask
<1>3. work'[w].stage = "free" /\ work'[w].rest = <<>> /\ Len(work'[w].rest) = 0
  BY <1>2, FreeTask, EmptySeq
<1>4. \A i \in Id : ~Attends(w, i)' /\ ~Foreseen(w, i)'
  BY <1>3 DEF Attends, Foreseen, Begun
<1>5. Stages'
  BY <1>2, <1>3 DEF Stages, StagesOf, Begun, Lists, Injective
<1>6. QED
  BY <1>2, <1>4, <1>5

\* A listing goes on with its next item; other jobs are done.
LEMMA Advanced ==
  ASSUME TypeOK, Stages, NEW w \in Worker, Begun(w), work' = [work EXCEPT ![w] = NextTask(w)]
  PROVE  /\ work' \in [Worker -> Task]
         /\ \A v \in Worker \ {w} : work'[v] = work[v]
         /\ \A i \in Id : Attends(w, i)' => Attends(w, i) /\ i # IdOf(w)
         /\ \A i \in Id : Foreseen(w, i)' => Foreseen(w, i)
         /\ Stages'
<1>1. work[w] \in Task /\ work \in [Worker -> Task] /\ work[w].rest \in Seq(Id)
  BY DEF TypeOK, Task
<1>2. CASE ~(Lists(w) /\ Tail(work[w].rest) # <<>>)
  <2>1. work' = [work EXCEPT ![w] = Free]
    BY <1>2 DEF NextTask
  <2>2. QED
    BY <2>1, Freed
<1>3. CASE Lists(w) /\ Tail(work[w].rest) # <<>>
  <2>1. PICK s \in {"count", "report"} : s = (IF work[w].job.step = "list" THEN "count" ELSE "report")
    OBVIOUS
  <2>2. work[w].rest # <<>> /\ Injective(work[w].rest)
    BY <1>3 DEF Stages, StagesOf
  <2>3. PICK r \in Seq(Id) :
          /\ r = Tail(work[w].rest) /\ r # <<>> /\ Injective(r) /\ Range(r) \subseteq Range(work[w].rest)
          /\ Head(work[w].rest) \notin Range(r)
          /\ Range(Tail(r)) \subseteq Range(r)
    <3>1. /\ Tail(work[w].rest) \in Seq(Id) /\ Injective(Tail(work[w].rest))
          /\ Range(Tail(work[w].rest)) \subseteq Range(work[w].rest)
          /\ Head(work[w].rest) \notin Range(Tail(work[w].rest))
      BY <1>1, <2>2, RestOfListing
    <3>2. Range(Tail(Tail(work[w].rest))) \subseteq Range(Tail(work[w].rest))
      BY <1>3, <3>1, RestOfListing
    <3>3. QED
      BY <1>3, <3>1, <3>2
  <2>4. NextTask(w) = [work[w] EXCEPT !.stage = s, !.rest = r]
    BY <1>3, <2>1, <2>3 DEF NextTask
  <2>5. [work[w] EXCEPT !.stage = s, !.rest = r] \in Task
    BY <1>1 DEF Task
  <2>6. PICK t \in Task : t = [work[w] EXCEPT !.stage = s, !.rest = r] /\ t.stage = s /\ t.rest = r /\ t.job = work[w].job
    BY <1>1, <2>5 DEF Task
  <2>7. work' = [work EXCEPT ![w] = t]
    BY <2>4, <2>6
  <2>8. /\ work' \in [Worker -> Task] /\ work'[w] = t
        /\ \A v \in Worker \ {w} : work'[v] = work[v]
    BY <1>1, <2>7
  <2>9. /\ work'[w].stage = s /\ work'[w].rest = r /\ work'[w].job = work[w].job
    BY <2>6, <2>8
  <2>10. \A i \in Id : Attends(w, i)' => Attends(w, i) /\ i # IdOf(w)
    BY <1>3, <2>3, <2>9 DEF Attends, IdOf, Begun, Lists
  <2>11. \A i \in Id : Foreseen(w, i)' => Foreseen(w, i)
    BY <1>3, <2>3, <2>9 DEF Foreseen, Begun, Lists
  <2>12. Stages'
    <3>1. ASSUME NEW v \in Worker \ {w} PROVE StagesOf(v)'
      BY <2>8 DEF Stages, StagesOf, Begun, Lists
    <3>2. \A i \in Id : i \in Range(r) => KindOf(i) = work[w].job.kind
      BY <1>3, <2>3 DEF Stages, StagesOf
    <3>3. Begun(w)' /\ Lists(w)'
      BY <1>3, <2>1, <2>9 DEF Begun, Lists
    <3>4. StagesOf(w)'
      BY <1>3, <2>1, <2>3, <2>9, <3>2, <3>3 DEF StagesOf, Lists
    <3>5. QED
      BY <3>1, <3>4 DEF Stages
  <2>13. QED
    BY <2>8, <2>10, <2>11, <2>12
<1>4. QED
  BY <1>2, <1>3

--------------------------------------------------------------------------------
(* Every step keeps the invariant.                                           *)

\* The step stores the new version of the item its worker is at.
LEMMA StoreStep ==
  ASSUME IInv, NEW w \in Worker, NEW item \in Item, Store(w, item),
         Begun(w) \/ (work[w].stage = "call" /\ work[w].job.step \in ItemSteps),
         UNCHANGED <<counter, published, summary, queue, reeval, asked, prefs, exhausted, raced>>
  PROVE  IInv'
<1> USE DEF IInv
<1>1. work[w] \in Task /\ work \in [Worker -> Task] /\ items \in [Id -> Item] /\ IdOf(w) \in Id
  BY AtItem DEF TypeOK
<1>2. PICK x \in [Worker -> Task] : x = [work EXCEPT ![w].stage = "publish"]
  <2>1. [work[w] EXCEPT !.stage = "publish"] \in Task
    BY <1>1 DEF Task
  <2>2. QED
    BY <1>1, <2>1
<1>3. /\ x[w] = [work[w] EXCEPT !.stage = "publish"]
      /\ \A v \in Worker \ {w} : x[v] = work[v]
  BY <1>1, <1>2
<1>4. x[w] \in Task /\ x[w].stage = "publish" /\ x[w].job = work[w].job /\ x[w].rest = work[w].rest
  BY <1>1, <1>2, <1>3 DEF Task
<1>5. work' = [x EXCEPT ![w].item = item]
  BY <1>1, <1>2 DEF Store
<1>6. [x[w] EXCEPT !.item = item] \in Task
  BY <1>4 DEF Task
<1>7. work' \in [Worker -> Task]
  BY <1>2, <1>5, <1>6
<1>8. work'[w] = [x[w] EXCEPT !.item = item] /\ \A v \in Worker \ {w} : work'[v] = work[v]
  BY <1>2, <1>3, <1>5
<1>9. work'[w].stage = "publish" /\ work'[w].job = work[w].job /\ work'[w].rest = work[w].rest
  BY <1>4, <1>8 DEF Task
<1>10. Begun(w)'
  BY <1>9 DEF Begun
<1>11. TypeOK'
  BY <1>1, <1>7 DEF TypeOK, Store
<1>12. \A i \in Id : (Attends(w, i)' <=> Attends(w, i)) /\ (Foreseen(w, i)' <=> Foreseen(w, i))
  BY <1>9, <1>10, SameItems
<1>13. Chains'
  BY <1>8, <1>12, CarryOn
<1>14. Stages'
  <2>1. work[w].job.step # "namespaces"
    BY AtItem DEF ItemSteps
  <2>2. work[w].rest = <<>> <=> ~Lists(w)
    BY DEF Stages, StagesOf, Lists, Begun, ItemSteps
  <2>3. Injective(work'[w].rest)
    BY <1>9 DEF Stages, StagesOf
  <2>4. ASSUME NEW v \in Worker \ {w} PROVE StagesOf(v)'
    BY <1>8 DEF Stages, StagesOf, Begun, Lists
  <2>5. Lists(w) => Begun(w)
    BY DEF Lists, ItemSteps
  <2>6. \A i \in Id : Lists(w) /\ i \in Range(work[w].rest) => KindOf(i) = work[w].job.kind
    BY <2>5 DEF Stages, StagesOf
  <2>7. StagesOf(w)'
    BY <1>9, <2>1, <2>2, <2>3, <2>6 DEF StagesOf, Begun, Lists
  <2>8. QED
    BY <2>4, <2>7 DEF Stages
<1>15. QED
  BY <1>11, <1>13, <1>14

LEMMA TakeStep == ASSUME IInv, NEW w \in Worker, Take(w) PROVE IInv'
<1> USE DEF IInv
<1>1. PICK j \in Job :
        /\ queue[j] > 0
        /\ queue' = [queue EXCEPT ![j] = @ - 1]
        /\ work' = [work EXCEPT ![w] = [Free EXCEPT !.stage = "call", !.job = j,
                                         !.item = IF j.of \in Id THEN items[j.of] ELSE NoItem]]
  BY DEF Take
<1>2. PICK item \in Item : item = IF j.of \in Id THEN items[j.of] ELSE NoItem
  BY FreeTask DEF TypeOK
<1>3. PICK t \in Task : /\ t = [Free EXCEPT !.stage = "call", !.job = j, !.item = item]
                        /\ t.stage = "call" /\ t.job = j /\ t.rest = <<>> /\ t.item = item
  <2>1. Free \in Task /\ Free.rest = <<>>
    BY FreeTask
  <2>2. [Free EXCEPT !.stage = "call", !.job = j, !.item = item] \in Task
    BY <2>1 DEF Task
  <2>3. [Free EXCEPT !.stage = "call", !.job = j, !.item = item].rest = <<>>
    BY <2>1 DEF Task
  <2>4. QED
    BY <2>1, <2>2, <2>3 DEF Task
<1>4. /\ work' \in [Worker -> Task] /\ work'[w] = t
      /\ \A v \in Worker \ {w} : work'[v] = work[v]
  BY <1>1, <1>2, <1>3 DEF TypeOK
<1>5. /\ work'[w].stage = "call" /\ work'[w].job = j /\ work'[w].rest = <<>> /\ Len(work'[w].rest) = 0
      /\ work[w].stage = "free"
  BY <1>3, <1>4, EmptySeq DEF Take
<1>6. /\ queue' \in [Job -> Nat] /\ queue'[j] = queue[j] - 1
      /\ \A k \in Job \ {j} : queue'[k] = queue[k]
  BY <1>1 DEF TypeOK
<1>7. UNCHANGED <<items, counter, published, summary, reeval, asked, prefs, exhausted, raced>>
  BY DEF Take
<1>8. TypeOK'
  BY <1>4, <1>6, <1>7 DEF TypeOK
<1>9. Stages'
  BY <1>4, <1>5 DEF Stages, StagesOf, Begun, Lists, Injective
<1>10. Chains'
  <2> SUFFICES ASSUME NEW i \in Id \ raced PROVE OneHand(i)' /\ Unseen(i)'
    BY <1>7 DEF Chains
  <2>1. OneHand(i) /\ Unseen(i) /\ queue \in [Job -> Nat]
    BY DEF Chains, TypeOK
  <2>2. \A v \in Worker \ {w} : (Attends(v, i)' <=> Attends(v, i)) /\ (Foreseen(v, i)' <=> Foreseen(v, i))
    BY <1>4, OthersAttend
  <2>3. (Attends(w, i)' <=> Concerns(j, i)) /\ (Foreseen(w, i)' <=> Foretold(j, i))
    BY <1>5 DEF Attends, Foreseen, Begun
  <2>4. Concerns(j, i) => queue[j] = 1 /\ queue'[j] = 0
    BY <1>1, <1>6, <2>1 DEF OneHand
  <2>5. \A k \in Job : queue'[k] > 0 => queue[k] > 0
    BY <1>1, <1>6, <2>1
  <2>6. OneHand(i)'
    <3>1. \A k \in Job : queue'[k] > 0 /\ Concerns(k, i) => queue'[k] = 1
      BY <1>6, <2>1, <2>4, <2>5 DEF OneHand
    <3>2. \A k, l \in Job : queue'[k] > 0 /\ Concerns(k, i) /\ queue'[l] > 0 /\ Concerns(l, i) => k = l
      BY <2>1, <2>5 DEF OneHand
    <3>3. \A v, u \in Worker : Attends(v, i)' /\ Attends(u, i)' => v = u
      BY <1>1, <2>1, <2>2, <2>3 DEF OneHand
    <3>4. \A v \in Worker, k \in Job : ~(Attends(v, i)' /\ queue'[k] > 0 /\ Concerns(k, i))
      BY <1>1, <1>6, <2>1, <2>2, <2>3, <2>4, <2>5 DEF OneHand
    <3>5. reeval.stage # "none" /\ reeval.id = i =>
            (\A v \in Worker : ~Attends(v, i)') /\ \A k \in Job : ~(queue'[k] > 0 /\ Concerns(k, i))
      BY <1>1, <2>1, <2>2, <2>3, <2>5 DEF OneHand
    <3>6. QED
      BY <3>1, <3>2, <3>3, <3>4, <3>5, <1>7 DEF OneHand
  <2>7. Unseen(i)'
    BY <1>1, <1>7, <2>1, <2>2, <2>3, <2>5 DEF Unseen
  <2>8. QED
    BY <2>6, <2>7
<1>11. QED
  BY <1>8, <1>9, <1>10

LEMMA FailStep == ASSUME IInv, NEW w \in Worker, Fail(w) PROVE IInv'
<1> USE DEF IInv
<1>1. /\ work[w].stage = "call" /\ work' = [work EXCEPT ![w] = Free]
      /\ UNCHANGED <<items, counter, published, summary, reeval, asked, prefs, raced>>
  BY DEF Fail
<1>2. /\ work' \in [Worker -> Task] /\ \A v \in Worker \ {w} : work'[v] = work[v]
      /\ \A i \in Id : ~Attends(w, i)' /\ ~Foreseen(w, i)'
      /\ Stages'
  BY <1>1, Freed
<1>3. PICK j \in Job : j = work[w].job
  BY DEF TypeOK, Task
<1>4. CASE j.tries < Retries(j.step)
  <2>1. PICK k \in Job : /\ k = [j EXCEPT !.tries = @ + 1]
                         /\ k.step = j.step /\ k.kind = j.kind /\ k.of = j.of
    <3>1. j.step \in {"metrics", "optimize"} /\ j.tries < MaxRetry /\ j.tries \in 0..MaxRetry
      BY <1>4, JobFields DEF Retries
    <3>2. /\ j = [step |-> j.step, kind |-> j.kind, of |-> j.of, tries |-> j.tries]
          /\ j.of \in Id /\ j.kind = KindOf(j.of)
      BY <3>1, JobFields DEF ItemSteps
    <3>3. [j EXCEPT !.tries = @ + 1] = [step |-> j.step, kind |-> KindOf(j.of), of |-> j.of, tries |-> j.tries + 1]
      BY <3>2
    <3>4. j.tries + 1 \in 0..MaxRetry /\ j.step \in ItemSteps
      BY <3>1, PipelineAssumption DEF ItemSteps
    <3>5. [j EXCEPT !.tries = @ + 1] \in Job
      BY <3>2, <3>3, <3>4, JobOfItem
    <3>6. QED
      BY <3>2, <3>3, <3>5
  <2>2. queue' = Pushed({k}) /\ exhausted' = exhausted
    BY <1>3, <1>4, <2>1 DEF Fail
  <2>3. \A i \in Id : (Concerns(k, i) => Attends(w, i)) /\ (Foretold(k, i) => Foreseen(w, i))
    BY <1>1, <1>3, <2>1 DEF Concerns, Foretold, Attends, Foreseen
  <2>4. HandsOn(w) /\ PublishesOwn(w)
    BY <1>1, <1>2, <2>2, <2>3 DEF HandsOn, PublishesOwn
  <2>5. TypeOK'
    BY <1>1, <1>2, <2>2, PushedType DEF TypeOK
  <2>6. QED
    BY <1>2, <2>4, <2>5, HandOn
<1>5. CASE ~(j.tries < Retries(j.step))
  <2>1. queue' = queue /\ exhausted' = exhausted \cup ({j.of} \cap Id)
    BY <1>3, <1>5 DEF Fail
  <2>2. TypeOK'
    BY <1>1, <1>2, <2>1 DEF TypeOK
  <2>3. QED
    BY <1>1, <1>2, <2>1, <2>2, CarryOn
<1>6. QED
  BY <1>4, <1>5

\* A step that ends in Free and pushes nothing, or gives up the item of its job.
LEMMA EndStep ==
  ASSUME IInv, NEW w \in Worker, work' = [work EXCEPT ![w] = Free],
         exhausted' \in SUBSET Id,
         UNCHANGED <<items, counter, published, summary, queue, reeval, asked, prefs, raced>>
  PROVE  IInv'
<1> USE DEF IInv
<1>1. /\ work' \in [Worker -> Task] /\ \A v \in Worker \ {w} : work'[v] = work[v]
      /\ \A i \in Id : ~Attends(w, i)' /\ ~Foreseen(w, i)'
      /\ Stages'
  BY Freed
<1>2. TypeOK'
  BY <1>1 DEF TypeOK
<1>3. Chains'
  BY <1>1, CarryOn
<1>4. QED
  BY <1>1, <1>2, <1>3

\* A step that goes on to the next item of the listing.
LEMMA AdvanceStep ==
  ASSUME IInv, NEW w \in Worker, Begun(w), work' = [work EXCEPT ![w] = NextTask(w)],
         UNCHANGED <<items, counter, published, summary, queue, reeval, asked, prefs, exhausted, raced>>
  PROVE  IInv'
<1> USE DEF IInv
<1>1. /\ work' \in [Worker -> Task] /\ \A v \in Worker \ {w} : work'[v] = work[v]
      /\ \A i \in Id : (Attends(w, i)' => Attends(w, i)) /\ (Foreseen(w, i)' => Foreseen(w, i))
      /\ Stages'
  BY Advanced
<1>2. TypeOK'
  BY <1>1 DEF TypeOK
<1>3. Chains'
  BY <1>1, CarryOn
<1>4. QED
  BY <1>1, <1>2, <1>3

\* The namespaces arrive: the work on an item goes on in the job that lists its namespace.
LEMMA ListAllNamespacesStep == ASSUME IInv, NEW w \in Worker, ListAllNamespaces(w) PROVE IInv'
<1> USE DEF IInv
<1>1. /\ work[w].stage = "call" /\ work[w].job.step = "namespaces" /\ work' = [work EXCEPT ![w] = Free]
      /\ UNCHANGED <<items, counter, published, summary, reeval, asked, prefs, exhausted, raced>>
  BY DEF ListAllNamespaces, Running
<1>2. /\ work' \in [Worker -> Task] /\ \A v \in Worker \ {w} : work'[v] = work[v]
      /\ \A i \in Id : ~Attends(w, i)' /\ ~Foreseen(w, i)'
      /\ Stages'
  BY <1>1, Freed
<1>3. PICK k \in Kind : k = work[w].job.kind
  BY <1>1, JobFields DEF TypeOK, Task, ItemSteps
<1> DEFINE jobs == {NewJob("list", k, ns) : ns \in Namespace \ {"kube-system"}}
<1>4. queue' = Pushed(jobs) /\ jobs \subseteq Job
  BY <1>3, JobOfListing DEF ListAllNamespaces
<1>5. ASSUME NEW j \in jobs
      PROVE  \E ns \in Namespace \ {"kube-system"} : j = NewJob("list", k, ns) /\ j.step = "list" /\ j.kind = k /\ j.of = ns
  BY DEF NewJob
<1>6. ASSUME NEW i \in Id, NEW j \in jobs, Concerns(j, i)
      PROVE  /\ Attends(w, i) /\ Foreseen(w, i)
             /\ j.kind = k /\ j.of \in Namespace /\ i \in Range(Listing[k][j.of]) /\ j = NewJob("list", k, j.of)
  <2>1. PICK ns \in Namespace \ {"kube-system"} : j = NewJob("list", k, ns) /\ j.step = "list" /\ j.kind = k /\ j.of = ns
    BY <1>5
  <2>2. i \in Range(Listing[k][ns])
    BY <1>6, <2>1 DEF Concerns, ItemSteps
  <2>3. Concerns(work[w].job, i) /\ work[w].job.step \in ListSteps
    BY <1>1, <1>3, <2>2 DEF Concerns, ListSteps
  <2>4. QED
    BY <1>1, <2>1, <2>2, <2>3 DEF Attends, Foreseen, Foretold
<1>7. ASSUME NEW i \in Id, NEW j \in jobs, NEW l \in jobs, Concerns(j, i), Concerns(l, i) PROVE j = l
  <2>1. /\ j.of \in Namespace /\ i \in Range(Listing[k][j.of]) /\ j = NewJob("list", k, j.of)
        /\ l.of \in Namespace /\ i \in Range(Listing[k][l.of]) /\ l = NewJob("list", k, l.of)
    BY <1>6, <1>7
  <2>2. j.of = l.of
    BY <2>1, ListedOnce
  <2>3. QED
    BY <2>1, <2>2
<1>8. HandsOn(w) /\ PublishesOwn(w)
  <2> HIDE DEF jobs
  <2>1. \A i \in Id, j \in jobs : Concerns(j, i) => Attends(w, i) /\ ~Attends(w, i)'
    BY <1>2, <1>6
  <2>2. \A i \in Id, j, l \in jobs : Concerns(j, i) /\ Concerns(l, i) => j = l
    BY <1>7
  <2>3. \A i \in Id, j \in jobs : Foretold(j, i) => Foreseen(w, i)
    BY <1>6 DEF Foretold
  <2>4. QED
    BY <1>1, <1>2, <1>4, <2>1, <2>2, <2>3 DEF HandsOn, PublishesOwn
<1>9. TypeOK'
  BY <1>1, <1>2, <1>4, PushedType DEF TypeOK
<1>10. QED
  BY <1>2, <1>8, <1>9, HandOn

\* A listing or a report arrives.
LEMMA ArriveStep ==
  ASSUME IInv, NEW w \in Worker, work[w].stage = "call",
         NEW list \in Seq(Id), Injective(list), \A i \in Range(list) : Foreseen(w, i) /\ Attends(w, i) /\ KindOf(i) = work[w].job.kind,
         NEW s \in {"count", "report"}, Lists(w), s = "count" <=> work[w].job.step = "list",
         work' = [work EXCEPT ![w] = IF list = <<>> THEN Free ELSE [@ EXCEPT !.stage = s, !.rest = list]],
         UNCHANGED <<items, counter, published, summary, queue, reeval, asked, prefs, exhausted, raced>>
  PROVE  IInv'
<1> USE DEF IInv
<1>1. CASE list = <<>>
  BY <1>1, EndStep DEF TypeOK
<1>2. CASE list # <<>>
  <2>1. work[w] \in Task /\ work \in [Worker -> Task]
    BY DEF TypeOK
  <2>2. [work[w] EXCEPT !.stage = s, !.rest = list] \in Task
    BY <2>1 DEF Task
  <2>3. PICK t \in Task : /\ t = [work[w] EXCEPT !.stage = s, !.rest = list]
                          /\ t.stage = s /\ t.rest = list /\ t.job = work[w].job
    BY <2>1, <2>2 DEF Task
  <2>4. /\ work' \in [Worker -> Task] /\ work'[w] = t /\ \A v \in Worker \ {w} : work'[v] = work[v]
    BY <1>2, <2>1, <2>3
  <2>5. work'[w].stage = s /\ work'[w].rest = list /\ work'[w].job = work[w].job
    BY <2>3, <2>4
  <2>6. Range(Tail(list)) \subseteq Range(list)
    BY <1>2, RestOfListing
  <2>7. \A i \in Id : (Attends(w, i)' => Attends(w, i)) /\ (Foreseen(w, i)' => Foreseen(w, i))
    BY <2>5, <2>6 DEF Attends, Foreseen, Begun, Lists
  <2>8. Chains'
    BY <2>4, <2>7, CarryOn
  <2>9. Stages'
    BY <1>2, <2>4, <2>5 DEF Stages, StagesOf, Begun, Lists
  <2>10. QED
    BY <2>4, <2>8, <2>9 DEF TypeOK
<1>3. QED
  BY <1>1, <1>2

LEMMA ListWorkloadsStep == ASSUME IInv, NEW w \in Worker, ListWorkloads(w) PROVE IInv'
<1> USE DEF IInv
<1>1. /\ work[w].stage = "call" /\ work[w].job.step = "list"
      /\ UNCHANGED <<items, counter, published, summary, queue, reeval, asked, prefs, exhausted, raced>>
  BY DEF ListWorkloads, Running
<1>2. work[w].job.kind \in Kind /\ work[w].job.of \in Namespace
  BY <1>1, JobFields DEF TypeOK, Task, ItemSteps
<1>3. PICK list \in Seq(Id) : /\ list = Listing[work[w].job.kind][work[w].job.of] /\ Injective(list)
                              /\ Range(list) \subseteq Id
  BY <1>2, Listed, ListedOnce
<1>4. \A i \in Range(list) : Foreseen(w, i) /\ Attends(w, i) /\ KindOf(i) = work[w].job.kind
  BY <1>1, <1>2, <1>3, ListedKind DEF Foreseen, Attends, Foretold, Concerns, ListSteps
<1>5. work' = [work EXCEPT ![w] = IF list = <<>> THEN Free ELSE [@ EXCEPT !.stage = "count", !.rest = list]]
  BY <1>3 DEF ListWorkloads
<1>6. Lists(w)
  BY <1>1 DEF Lists
<1>7. QED
  BY <1>1, <1>3, <1>4, <1>5, <1>6, ArriveStep

LEMMA DownloadReportStep == ASSUME IInv, NEW w \in Worker, DownloadReport(w) PROVE IInv'
<1> USE DEF IInv
<1>1. /\ work[w].stage = "call" /\ work[w].job.step = "report"
      /\ UNCHANGED <<items, counter, published, summary, queue, reeval, asked, prefs, exhausted, raced>>
  BY DEF DownloadReport, Running
<1>2. work[w].job.kind \in Kind
  BY <1>1, JobFields DEF TypeOK, Task, ItemSteps
<1>3. PICK list \in Seq(Id) : /\ list = Report[work[w].job.kind] /\ Injective(list)
                              /\ Range(list) \subseteq Id
  BY <1>2, Listed, ListedOnce
<1>4. \A i \in Range(list) : Foreseen(w, i) /\ Attends(w, i) /\ KindOf(i) = work[w].job.kind
  BY <1>1, <1>2, <1>3, ListedKind DEF Foreseen, Attends, Foretold, Concerns, ListSteps
<1>5. work' = [work EXCEPT ![w] = IF list = <<>> THEN Free ELSE [@ EXCEPT !.stage = "report", !.rest = list]]
  BY <1>3 DEF DownloadReport
<1>6. Lists(w)
  BY <1>1 DEF Lists
<1>7. QED
  BY <1>1, <1>3, <1>4, <1>5, <1>6, ArriveStep

LEMMA PassOverStep == ASSUME IInv, NEW w \in Worker, PassOver(w) PROVE IInv'
BY AdvanceStep DEF PassOver, Begun

LEMMA CountItemStep == ASSUME IInv, NEW w \in Worker, CountItem(w) PROVE IInv'
<1> USE DEF IInv
<1>1. work[w] \in Task /\ work \in [Worker -> Task] /\ work[w].stage = "count"
  BY DEF TypeOK, CountItem
<1>2. [work[w] EXCEPT !.stage = "store"] \in Task
  BY <1>1 DEF Task
<1>3. PICK t \in Task : /\ t = [work[w] EXCEPT !.stage = "store"]
                        /\ t.stage = "store" /\ t.rest = work[w].rest /\ t.job = work[w].job
  BY <1>1, <1>2 DEF Task
<1>4. /\ work' \in [Worker -> Task] /\ work'[w] = t /\ \A v \in Worker \ {w} : work'[v] = work[v]
  BY <1>1, <1>3 DEF CountItem
<1>5. work'[w].stage = "store" /\ work'[w].rest = work[w].rest /\ work'[w].job = work[w].job
  BY <1>3, <1>4
<1>6. Begun(w) /\ Begun(w)'
  BY <1>1, <1>5 DEF Begun
<1>7. \A i \in Id : (Attends(w, i)' <=> Attends(w, i)) /\ (Foreseen(w, i)' <=> Foreseen(w, i))
  BY <1>5, <1>6, SameItems
<1>8. Chains'
  BY <1>4, <1>7, CarryOn DEF CountItem
<1>9. Stages'
  <2>1. ASSUME NEW v \in Worker \ {w} PROVE StagesOf(v)'
    BY <1>4 DEF Stages, StagesOf, Begun, Lists
  <2>2. StagesOf(w)'
    BY <1>1, <1>5, <1>6 DEF Stages, StagesOf, Begun, Lists
  <2>3. QED
    BY <2>1, <2>2 DEF Stages
<1>10. TypeOK'
  BY <1>4 DEF TypeOK, CountItem
<1>11. QED
  BY <1>8, <1>9, <1>10

\* The items that the steps store.
LEMMA NewItem ==
  ASSUME TypeOK, NEW kind, NEW lazy \in BOOLEAN, NEW unavailable \in BOOLEAN
  PROVE  [NoItem EXCEPT !.listed = TRUE, !.loading = ~lazy, !.lazy = lazy,
                        !.prefs = Preferences(kind), !.skipped = unavailable] \in Item
<1>1. NoItem \in Item /\ Preferences(kind) \in Preference
  BY FreeTask, PipelineAssumption DEF Preferences
<1>2. QED
  BY <1>1 DEF Item

LEMMA StoreItemStep ==
  ASSUME IInv, NEW w \in Worker, NEW kind, NEW unavailable \in BOOLEAN, StoreItem(w, kind, unavailable)
  PROVE  IInv'
<1>1. Begun(w)
  BY DEF StoreItem, Begun
<1> PICK lazy \in BOOLEAN : lazy = (counter > LazyLoad)
  <2>1. (counter > LazyLoad) \in BOOLEAN
    BY PipelineAssumption DEF IInv, TypeOK
  <2>2. QED
    BY <2>1, Zenon
<1>2. PICK item \in Item :
        item = [NoItem EXCEPT !.listed = TRUE, !.loading = ~lazy, !.lazy = lazy,
                              !.prefs = Preferences(kind), !.skipped = unavailable]
  BY NewItem DEF IInv
<1>3. Store(w, item) /\ UNCHANGED <<counter, published, summary, queue, reeval, asked, prefs, exhausted, raced>>
  BY <1>2 DEF StoreItem
<1>4. QED
  BY <1>1, <1>3, StoreStep

\* The steps of an item's own jobs write its item back.
LEMMA LocalItem ==
  ASSUME TypeOK, NEW w \in Worker
  PROVE  /\ work[w].item \in Item
         /\ [work[w].item EXCEPT !.lazy = FALSE, !.skipped = @ \/ IdOf(w) \in Elsewhere] \in Item
         /\ \A m \in Measure : [work[w].item EXCEPT !.metrics = m, !.lazy = FALSE] \in Item
         /\ [work[w].item EXCEPT !.loading = FALSE, !.skipped = FALSE,
               !.result = [ready |-> TRUE, prefs |-> work[w].item.prefs, metrics |-> work[w].item.metrics]] \in Item
<1>1. PICK item \in Item : item = work[w].item
  BY DEF TypeOK, Task
<1>2. [item EXCEPT !.lazy = FALSE, !.skipped = @ \/ IdOf(w) \in Elsewhere] \in Item
  BY DEF Item
<1>3. \A m \in Measure : [item EXCEPT !.metrics = m, !.lazy = FALSE] \in Item
  BY DEF Item
<1>4. PICK r \in Result : r = [ready |-> TRUE, prefs |-> item.prefs, metrics |-> item.metrics]
  BY DEF Item, Result
<1>5. [item EXCEPT !.loading = FALSE, !.skipped = FALSE, !.result = r] \in Item
  BY DEF Item
<1>6. QED
  BY <1>1, <1>2, <1>3, <1>4, <1>5

LEMMA ListPodsStep == ASSUME IInv, NEW w \in Worker, NEW kind, ListPods(w, kind) PROVE IInv'
BY LocalItem, StoreStep DEF ListPods, At, Running, ItemSteps, IInv

\* Whatever Prometheus had, the metrics have been asked for.
LEMMA MetricsStored ==
  ASSUME NEW w \in Worker, NEW kind, GetMetrics(w, kind)
  PROVE  \E m \in Measure \ {"none"} : Store(w, [work[w].item EXCEPT !.metrics = m, !.lazy = FALSE])
<1>1. PICK reply \in {"empty", "points"} :
        Store(w, [work[w].item EXCEPT !.metrics = Filled(kind, work[w].item.metrics, reply), !.lazy = FALSE])
  BY DEF GetMetrics
<1>2. Filled(kind, work[w].item.metrics, reply) \in Measure \ {"none"}
  BY DEF Filled, Measure
<1>3. QED
  BY <1>1, <1>2

LEMMA GetMetricsStep == ASSUME IInv, NEW w \in Worker, NEW kind, GetMetrics(w, kind) PROVE IInv'
<1>1. PICK m \in Measure : Store(w, [work[w].item EXCEPT !.metrics = m, !.lazy = FALSE])
  BY MetricsStored
<1>2. [work[w].item EXCEPT !.metrics = m, !.lazy = FALSE] \in Item
  BY LocalItem DEF IInv
<1>3. QED
  BY <1>1, <1>2, StoreStep DEF GetMetrics, At, Running, ItemSteps

LEMMA OptimizeStep == ASSUME IInv, NEW w \in Worker, NEW kind, Optimize(w, kind) PROVE IInv'
BY LocalItem, StoreStep DEF Optimize, At, Running, ItemSteps, IInv

LEMMA OptimizeJobPanicsStep == ASSUME IInv, NEW w \in Worker, OptimizeJobPanics(w) PROVE IInv'
<1>1. IdOf(w) \in Id
  BY AtItem DEF IInv, OptimizeJobPanics, At, Running, ItemSteps
<1>2. exhausted' \in SUBSET Id
  BY <1>1 DEF IInv, TypeOK, OptimizeJobPanics
<1>3. QED
  BY <1>2, EndStep DEF OptimizeJobPanics

\* What the agent reports of an item.
LEMMA ItemOfReport ==
  ASSUME NEW i \in Id
  PROVE  Unavailable(i) \in BOOLEAN /\ ReportedItem(i) \in Item
<1>1. KindOf(i) \in {"deployment", "statefulset", "daemonset", "job", "pod"}
  BY KindOfItem, PipelineAssumption
<1>2. Unavailable(i) \in BOOLEAN
  BY <1>1 DEF Unavailable, NoReplicas, NotScheduled, NeverRan, NotRunning
<1>3. PICK r \in Result : r = IF Unavailable(i) THEN NoResult
                              ELSE [ready |-> TRUE, prefs |-> DefaultPreferences, metrics |-> "points"]
  BY FreeTask, PipelineAssumption DEF Result, Measure
<1>4. [NoItem EXCEPT !.listed = TRUE, !.loading = Unavailable(i), !.skipped = Unavailable(i), !.result = r] \in Item
  BY <1>2, FreeTask DEF Item
<1>5. QED
  BY <1>2, <1>3, <1>4 DEF ReportedItem

LEMMA StoreReportedStep ==
  ASSUME IInv, NEW w \in Worker, NEW kind, NEW wanted \in BOOLEAN, StoreReported(w, kind, wanted)
  PROVE  IInv'
<1>1. Begun(w) /\ UNCHANGED <<counter, published, summary, queue, reeval, asked, prefs, exhausted, raced>>
  BY DEF StoreReported, Begun
<1>2. CASE IdOf(w) \in Malformed
  BY <1>1, <1>2, EndStep DEF StoreReported, IInv, TypeOK
<1>3. CASE IdOf(w) \notin Malformed /\ ~wanted
  BY <1>1, <1>3, AdvanceStep DEF StoreReported
<1>4. CASE IdOf(w) \notin Malformed /\ wanted
  <2>1. IdOf(w) \in Id
    BY <1>1, AtItem DEF IInv
  <2>2. ReportedItem(IdOf(w)) \in Item
    BY <2>1, ItemOfReport
  <2>3. Store(w, ReportedItem(IdOf(w)))
    BY <1>4 DEF StoreReported
  <2>4. QED
    BY <1>1, <2>2, <2>3, StoreStep
<1>5. QED
  BY <1>2, <1>3, <1>4

\* The job that follows: one at most, of the item the worker is at.
LEMMA FollowerJobs ==
  ASSUME TypeOK, Stages, NEW w \in Worker, Begun(w)
  PROVE  /\ Follower(w) \subseteq Job
         /\ \A j \in Follower(w) : j.step \in ItemSteps /\ j.of = IdOf(w)
         /\ \A j, k \in Follower(w) : j = k
<1>1. IdOf(w) \in Id
  BY AtItem
<1>2. \A step \in ItemSteps : ItemJob(step, IdOf(w)) \in Job
  BY <1>1, JobPushed
<1>3. FirstStep(work[w].job.kind) \in ItemSteps
  BY DEF FirstStep, ItemSteps
<1>4. \/ Follower(w) = {}
      \/ Follower(w) = {ItemJob(FirstStep(work[w].job.kind), IdOf(w))}
      \/ Follower(w) = {ItemJob("metrics", IdOf(w))}
      \/ Follower(w) = {ItemJob("optimize", IdOf(w))}
  BY DEF Follower
<1>5. \A step : ItemJob(step, IdOf(w)).step = step /\ ItemJob(step, IdOf(w)).of = IdOf(w)
  BY DEF ItemJob, NewJob
<1>6. "metrics" \in ItemSteps /\ "optimize" \in ItemSteps
  BY DEF ItemSteps
<1>7. QED
  BY <1>2, <1>3, <1>4, <1>5, <1>6

\* A job of an item concerns it and no other item.
LEMMA ConcernsOwn ==
  ASSUME NEW j, j.step \in ItemSteps, NEW i
  PROVE  (Concerns(j, i) <=> j.of = i) /\ ~Foretold(j, i)
BY DEF Concerns, Foretold, ItemSteps, ListSteps

LEMMA OptimizeLazyStep == ASSUME IInv, NEW w \in Worker, OptimizeLazy(w) PROVE IInv'
<1> USE DEF IInv
<1>1. /\ work[w].stage = "call" /\ work[w].job.step = "optimize" /\ work' = [work EXCEPT ![w] = Free]
      /\ UNCHANGED <<items, counter, published, summary, reeval, asked, prefs, exhausted, raced>>
  BY DEF OptimizeLazy, Running
<1>2. /\ work' \in [Worker -> Task] /\ \A v \in Worker \ {w} : work'[v] = work[v]
      /\ \A i \in Id : ~Attends(w, i)' /\ ~Foreseen(w, i)'
      /\ Stages'
  BY <1>1, Freed
<1>3. PICK i \in Id : i = work[w].job.of
  BY <1>1, JobFields DEF TypeOK, Task, ItemSteps
<1>4. PICK k \in Job : /\ k = ItemJob(FirstStep(work[w].job.kind), i) /\ k.step \in ItemSteps /\ k.of = i
  <2>1. FirstStep(work[w].job.kind) \in ItemSteps
    BY DEF FirstStep, ItemSteps
  <2>2. QED
    BY <2>1, JobPushed DEF ItemJob, NewJob
<1>5. queue' = Pushed({k})
  BY <1>3, <1>4 DEF OptimizeLazy
<1>6. Attends(w, i)
  BY <1>1, <1>3 DEF Attends, Concerns, ItemSteps
<1>7. \A l \in Id : (Concerns(k, l) <=> l = i) /\ ~Foretold(k, l)
  BY <1>4, ConcernsOwn
<1>8. HandsOn(w) /\ PublishesOwn(w)
  BY <1>1, <1>2, <1>5, <1>6, <1>7 DEF HandsOn, PublishesOwn
<1>9. TypeOK'
  BY <1>1, <1>2, <1>5, PushedType DEF TypeOK
<1>10. QED
  BY <1>2, <1>8, <1>9, HandOn

LEMMA RecordStep == ASSUME IInv, NEW w \in Worker, Record(w) PROVE IInv'
<1> USE DEF IInv
<1>1. /\ Begun(w) /\ work' = [work EXCEPT ![w] = NextTask(w)] /\ queue' = Pushed(Follower(w))
      /\ UNCHANGED <<items, counter, published, reeval, asked, prefs, exhausted, raced>>
  BY DEF Record, Begun
<1>2. /\ work' \in [Worker -> Task] /\ \A v \in Worker \ {w} : work'[v] = work[v]
      /\ \A i \in Id : Attends(w, i)' => Attends(w, i) /\ i # IdOf(w)
      /\ \A i \in Id : Foreseen(w, i)' => Foreseen(w, i)
      /\ Stages'
  BY <1>1, Advanced
<1>3. PICK jobs \in SUBSET Job :
        /\ jobs = Follower(w)
        /\ \A j \in jobs : j.step \in ItemSteps /\ j.of = IdOf(w)
        /\ \A j, k \in jobs : j = k
  BY <1>1, FollowerJobs
<1>4. \A i \in Id, j \in jobs : (Concerns(j, i) <=> i = IdOf(w)) /\ ~Foretold(j, i)
  BY <1>3, ConcernsOwn
<1>5. IdOf(w) \in Id /\ Attends(w, IdOf(w))
  BY <1>1, AtItem
<1>6. HandsOn(w) /\ PublishesOwn(w)
  BY <1>1, <1>2, <1>3, <1>4, <1>5 DEF HandsOn, PublishesOwn
<1>7. summary' \in [Id -> Result]
  BY <1>5 DEF Record, TypeOK, Task
<1>8. TypeOK'
  BY <1>1, <1>2, <1>7, PushedType DEF TypeOK
<1>9. QED
  BY <1>2, <1>6, <1>8, HandOn

LEMMA PublishStep == ASSUME IInv, NEW w \in Worker, Publish(w) PROVE IInv'
<1> USE DEF IInv
<1>1. /\ Begun(w) /\ work[w].stage = "publish"
      /\ published' = [published EXCEPT ![IdOf(w)] = work[w].item]
      /\ UNCHANGED <<items, counter, summary, reeval, asked, prefs, exhausted, raced>>
  BY DEF Publish, Begun
<1>2. IdOf(w) \in Id /\ Attends(w, IdOf(w)) /\ ~Foreseen(w, IdOf(w))
  BY <1>1, AtItem
<1>3. published' \in [Id -> Item] /\ PublishesOwn(w)
  BY <1>1, <1>2 DEF TypeOK, Task, PublishesOwn
<1>4. CASE work[w].job.step = "pods"
  <2>1. queue' = Pushed(Follower(w)) /\ work' = [work EXCEPT ![w] = Free]
    BY <1>4 DEF Publish
  <2>2. /\ work' \in [Worker -> Task] /\ \A v \in Worker \ {w} : work'[v] = work[v]
        /\ \A i \in Id : ~Attends(w, i)' /\ ~Foreseen(w, i)'
        /\ Stages'
    BY <2>1, Freed
  <2>3. PICK jobs \in SUBSET Job :
          /\ jobs = Follower(w)
          /\ \A j \in jobs : j.step \in ItemSteps /\ j.of = IdOf(w)
          /\ \A j, k \in jobs : j = k
    BY <1>1, FollowerJobs
  <2>4. \A i \in Id, j \in jobs : (Concerns(j, i) <=> i = IdOf(w)) /\ ~Foretold(j, i)
    BY <2>3, ConcernsOwn
  <2>5. HandsOn(w)
    BY <1>1, <1>2, <2>1, <2>2, <2>3, <2>4 DEF HandsOn
  <2>6. TypeOK'
    BY <1>1, <1>3, <2>1, <2>2, PushedType DEF TypeOK
  <2>7. QED
    BY <1>3, <2>2, <2>5, <2>6, HandOn
<1>5. CASE work[w].job.step # "pods"
  <2>1. work[w] \in Task /\ work \in [Worker -> Task]
    BY DEF TypeOK
  <2>2. PICK latest \in Result : latest = items[IdOf(w)].result
    BY <1>2 DEF TypeOK, Item
  <2>3. PICK x \in [Worker -> Task] : x = [work EXCEPT ![w].stage = "record"]
    <3>1. [work[w] EXCEPT !.stage = "record"] \in Task
      BY <2>1 DEF Task
    <3>2. QED
      BY <2>1, <3>1
  <2>4. /\ x[w] = [work[w] EXCEPT !.stage = "record"]
        /\ \A v \in Worker \ {w} : x[v] = work[v]
    BY <2>1, <2>3
  <2>5. x[w] \in Task /\ x[w].stage = "record" /\ x[w].job = work[w].job /\ x[w].rest = work[w].rest
    BY <2>1, <2>3, <2>4 DEF Task
  <2>6. work' = [x EXCEPT ![w].latest = latest] /\ queue' = queue
    BY <1>5, <2>1, <2>2, <2>3 DEF Publish
  <2>7. [x[w] EXCEPT !.latest = latest] \in Task
    BY <2>5 DEF Task
  <2>8. work' \in [Worker -> Task]
    BY <2>3, <2>6, <2>7
  <2>9. work'[w] = [x[w] EXCEPT !.latest = latest] /\ \A v \in Worker \ {w} : work'[v] = work[v]
    BY <2>3, <2>4, <2>6
  <2>10. work'[w].stage = "record" /\ work'[w].job = work[w].job /\ work'[w].rest = work[w].rest
    BY <2>5, <2>9 DEF Task
  <2>11. Begun(w)'
    BY <2>10 DEF Begun
  <2>12. \A i \in Id : (Attends(w, i)' <=> Attends(w, i)) /\ (Foreseen(w, i)' <=> Foreseen(w, i))
    BY <1>1, <2>10, <2>11, SameItems
  <2>13. queue' = Pushed({})
    BY <2>6 DEF TypeOK, Pushed
  <2>14. HandsOn(w)
    BY <1>1, <2>9, <2>12, <2>13 DEF HandsOn
  <2>15. Stages'
    <3>1. ASSUME NEW v \in Worker \ {w} PROVE StagesOf(v)'
      BY <2>9 DEF Stages, StagesOf, Begun, Lists
    <3>2. StagesOf(w)'
      BY <1>1, <2>10, <2>11 DEF Stages, StagesOf, Begun, Lists
    <3>3. QED
      BY <3>1, <3>2 DEF Stages
  <2>16. TypeOK'
    BY <1>1, <1>3, <2>6, <2>8 DEF TypeOK
  <2>17. QED
    BY <1>3, <2>14, <2>15, <2>16, HandOn
<1>6. QED
  BY <1>4, <1>5

\* The workers do not change.
LEMMA SameWorkers ==
  ASSUME work' = work
  PROVE  /\ \A w \in Worker, i \in Id : (Attends(w, i)' <=> Attends(w, i)) /\ (Foreseen(w, i)' <=> Foreseen(w, i))
         /\ Stages => Stages'
BY DEF Attends, Foreseen, Begun, Lists, Stages, StagesOf

\* The re-evaluation takes an item in hand that nobody is busy with, or it is a race.
LEMMA ReEvaluateStep ==
  ASSUME IInv, NEW i \in Id, NEW p \in Preference, ReEvaluate(i, p)
  PROVE  IInv'
<1> USE DEF IInv
<1>1. /\ reeval.stage = "none" /\ published[i].listed
      /\ reeval' = [stage |-> "read", id |-> i, item |-> [items[i] EXCEPT !.prefs = p, !.loading = TRUE]]
      /\ raced' = IF Busy(i) THEN raced \cup {i} ELSE raced
      /\ UNCHANGED <<items, counter, published, summary, queue, work, exhausted>>
  BY DEF ReEvaluate
<1>2. reeval'.stage = "read" /\ reeval'.id = i
  BY <1>1
<1>3. /\ \A w \in Worker, l \in Id : (Attends(w, l)' <=> Attends(w, l)) /\ (Foreseen(w, l)' <=> Foreseen(w, l))
      /\ Stages'
  BY <1>1, SameWorkers
<1>4. TypeOK'
  <2>1. [items[i] EXCEPT !.prefs = p, !.loading = TRUE] \in Item
    <3>1. items[i] \in Item
      BY DEF TypeOK
    <3>2. QED
      BY <3>1 DEF Item
  <2>2. asked' \in 0..MaxReEvaluations
    BY PipelineAssumption DEF ReEvaluate, TypeOK
  <2>3. reeval' \in [stage : {"none", "read", "stored"}, id : Id \cup {"none"}, item : Item]
    BY <1>1, <2>1
  <2>4. prefs' \in [Id -> Preference]
    BY DEF ReEvaluate, TypeOK
  <2>5. raced' \subseteq Id
    BY <1>1 DEF TypeOK
  <2>6. QED
    BY <1>1, <1>2, <2>2, <2>3, <2>4, <2>5 DEF TypeOK
<1>5. Chains'
  <2> SUFFICES ASSUME NEW l \in Id \ raced' PROVE OneHand(l)' /\ Unseen(l)'
    BY DEF Chains
  <2>1. l \in Id \ raced /\ OneHand(l) /\ Unseen(l)
    BY <1>1 DEF Chains
  <2>2. Unseen(l)'
    BY <1>1, <1>3, <2>1 DEF Unseen
  <2>3. ASSUME l = i PROVE (\A w \in Worker : ~Attends(w, i)) /\ \A j \in Job : ~(queue[j] > 0 /\ Concerns(j, i))
    <3>1. ~Busy(i)
      BY <1>1, <2>3
    <3>2. (\A j \in Job : j.of = i => ~(queue[j] > 0)) /\ HeldBy(i) = {}
      BY <3>1 DEF Busy, Pending
    <3>3. \A w \in Worker : work[w].stage # "free" =>
             work[w].job.of # i /\ ~(work[w].rest # <<>> /\ Head(work[w].rest) = i)
      BY <3>2 DEF HeldBy
    <3>4. /\ \A w \in Worker : ~Foreseen(w, i)
          /\ \A j \in Job : ~(queue[j] > 0 /\ Foretold(j, i))
      BY <1>1, <2>1, <2>3 DEF Unseen
    <3>5. ASSUME NEW w \in Worker, Attends(w, i) PROVE FALSE
      <4>1. CASE work[w].stage = "call" /\ Concerns(work[w].job, i)
        BY <4>1, <3>3, <3>4 DEF Foreseen, Foretold, Concerns, ListSteps
      <4>2. CASE Begun(w) /\ Lists(w) /\ i \in Range(work[w].rest)
        <5>1. work[w].rest \in Seq(Id) /\ Injective(work[w].rest) /\ work[w].rest # <<>>
          BY <4>2 DEF TypeOK, Task, Stages, StagesOf
        <5>2. i # Head(work[w].rest)
          BY <4>2, <5>1, <3>3 DEF Begun
        <5>3. i \in Range(Tail(work[w].rest))
          BY <4>2, <5>1, <5>2, RestOfListing
        <5>4. QED
          BY <4>2, <5>3, <3>4 DEF Foreseen
      <4>3. CASE Begun(w) /\ ~Lists(w) /\ work[w].job.of = i
        BY <4>3, <3>3 DEF Begun
      <4>4. QED
        BY <3>5, <4>1, <4>2, <4>3 DEF Attends
    <3>6. ASSUME NEW j \in Job, queue[j] > 0, Concerns(j, i) PROVE FALSE
      BY <3>6, <3>2, <3>4 DEF Concerns, Foretold, ListSteps
    <3>7. QED
      BY <3>5, <3>6
  <2>4. OneHand(l)'
    BY <1>1, <1>2, <1>3, <2>1, <2>3 DEF OneHand
  <2>5. QED
    BY <2>2, <2>4
<1>6. QED
  BY <1>3, <1>4, <1>5

LEMMA ReEvaluateStoreStep == IInv /\ ReEvaluateStore => IInv'
<1> SUFFICES ASSUME IInv, ReEvaluateStore PROVE IInv'
  OBVIOUS
<1> USE DEF IInv
<1>1. /\ reeval.stage = "read" /\ reeval' = [reeval EXCEPT !.stage = "stored"]
      /\ UNCHANGED <<counter, published, summary, queue, work, asked, prefs, exhausted, raced>>
  BY DEF ReEvaluateStore
<1>2. reeval'.stage = "stored" /\ reeval'.id = reeval.id /\ reeval'.item = reeval.item
  BY <1>1 DEF TypeOK
<1>3. /\ \A w \in Worker, l \in Id : (Attends(w, l)' <=> Attends(w, l)) /\ (Foreseen(w, l)' <=> Foreseen(w, l))
      /\ Stages'
  BY <1>1, SameWorkers
<1>4. items' \in [Id -> Item]
  BY <1>1 DEF ReEvaluateStore, TypeOK
<1>5. TypeOK'
  BY <1>1, <1>2, <1>4 DEF TypeOK
<1>6. Chains'
  BY <1>1, <1>2, <1>3 DEF Chains, OneHand, Unseen
<1>7. QED
  BY <1>3, <1>5, <1>6

\* The re-evaluation hands its item on in the job it pushes.
LEMMA ReEvaluatePushStep == IInv /\ ReEvaluatePush => IInv'
<1> SUFFICES ASSUME IInv, ReEvaluatePush PROVE IInv'
  OBVIOUS
<1> USE DEF IInv
<1>1. /\ reeval.stage = "stored" /\ reeval' = NoReEval
      /\ UNCHANGED <<items, counter, summary, work, asked, prefs, exhausted, raced>>
  BY DEF ReEvaluatePush
<1>2. PICK i \in Id : i = reeval.id
  BY <1>1 DEF TypeOK
<1>3. PICK k \in Job : k = ItemJob("optimize", i) /\ k.step \in ItemSteps /\ k.of = i
  BY JobPushed DEF ItemJob, NewJob, ItemSteps
<1>4. PICK item \in Item : item = [reeval.item EXCEPT !.lazy = FALSE]
  BY DEF TypeOK, Item
<1>5. queue' = Pushed({k}) /\ published' = [published EXCEPT ![i] = item]
  BY <1>2, <1>3, <1>4 DEF ReEvaluatePush
<1>6. reeval'.stage = "none"
  BY <1>1 DEF NoReEval
<1>7. /\ \A w \in Worker, l \in Id : (Attends(w, l)' <=> Attends(w, l)) /\ (Foreseen(w, l)' <=> Foreseen(w, l))
      /\ Stages'
  BY <1>1, SameWorkers
<1>8. TypeOK'
  <2>1. NoReEval \in [stage : {"none", "read", "stored"}, id : Id \cup {"none"}, item : Item]
    BY FreeTask DEF NoReEval
  <2>2. QED
    BY <1>1, <1>5, <1>6, <2>1, PushedType DEF TypeOK
<1>9. Chains'
  <2> SUFFICES ASSUME NEW l \in Id \ raced PROVE OneHand(l)' /\ Unseen(l)'
    BY <1>1 DEF Chains
  <2>1. OneHand(l) /\ Unseen(l) /\ queue \in [Job -> Nat]
    BY DEF Chains, TypeOK
  <2>2. (Concerns(k, l) <=> l = i) /\ ~Foretold(k, l)
    BY <1>3, ConcernsOwn
  <2>3. \A j \in Job : queue'[j] = (IF j = k THEN queue[j] + 1 ELSE queue[j])
    BY <1>5, <2>1 DEF Pushed
  <2>4. l = i => (\A w \in Worker : ~Attends(w, l)) /\ \A j \in Job : ~(queue[j] > 0 /\ Concerns(j, l))
    BY <1>1, <1>2, <2>1 DEF OneHand
  <2>5. OneHand(l)'
    <3>1. CASE l = i
      <4>1. \A j \in Job : queue'[j] > 0 /\ Concerns(j, l) => j = k /\ queue'[j] = 1
        BY <2>1, <2>2, <2>3, <2>4, <3>1
      <4>2. \A w \in Worker : ~Attends(w, l)'
        BY <1>7, <2>4, <3>1
      <4>3. QED
        BY <4>1, <4>2, <1>6 DEF OneHand
    <3>2. CASE l # i
      <4>1. \A j \in Job : Concerns(j, l) => queue'[j] = queue[j]
        BY <2>2, <2>3, <3>2
      <4>2. QED
        BY <4>1, <2>1, <1>6, <1>7 DEF OneHand
    <3>3. QED
      BY <3>1, <3>2
  <2>6. Unseen(l)'
    <3>1. CASE l = i
      <4>1. \A j \in Job : queue'[j] > 0 /\ Foretold(j, l) => queue[j] > 0
        BY <2>2, <2>3, <3>1
      <4>2. \A w \in Worker : ~Foreseen(w, l)
        BY <2>4, <3>1, ForeseenAttended
      <4>3. QED
        BY <4>1, <4>2, <1>7, <2>4, <3>1 DEF Unseen, Foretold
    <3>2. CASE l # i
      <4>1. \A j \in Job : Foretold(j, l) => queue'[j] = queue[j]
        BY <2>2, <2>3, <3>2
      <4>2. published'[l] = published[l]
        BY <1>5, <3>2 DEF TypeOK
      <4>3. QED
        BY <4>1, <4>2, <2>1, <1>7 DEF Unseen
    <3>3. QED
      BY <3>1, <3>2
  <2>7. QED
    BY <2>5, <2>6
<1>10. QED
  BY <1>7, <1>8, <1>9

--------------------------------------------------------------------------------

LEMMA InitIInv == Init => IInv
<1> SUFFICES ASSUME Init PROVE IInv
  OBVIOUS
<1>1. PICK kinds \in Started, agent \in AgentEnabled :
        /\ queue = [j \in Job |-> IF \E k \in kinds : j = NewProcessor(k, agent) THEN 1 ELSE 0]
        /\ prefs = [i \in Id |-> IF agent THEN DefaultPreferences ELSE Preferences(KindOf(i))]
  BY DEF Init
<1>2. kinds \subseteq Kind
  BY PipelineAssumption
<1>3. \A w \in Worker : work[w] = Free /\ work[w].stage = "free" /\ work[w].rest = <<>> /\ Len(work[w].rest) = 0
  BY FreeTask, EmptySeq DEF Init
<1>4. TypeOK
  <2>1. items \in [Id -> Item] /\ published \in [Id -> Item] /\ summary \in [Id -> Result]
    BY FreeTask DEF Init
  <2>2. queue \in [Job -> Nat]
    BY <1>1
  <2>3. work \in [Worker -> Task]
    BY FreeTask DEF Init
  <2>4. prefs \in [Id -> Preference]
    BY <1>1, PipelineAssumption DEF Preferences
  <2>5. reeval \in [stage : {"none", "read", "stored"}, id : Id \cup {"none"}, item : Item] /\ reeval.stage = "none"
    BY FreeTask DEF Init, NoReEval
  <2>6. counter \in Nat /\ asked \in 0..MaxReEvaluations /\ exhausted \subseteq Id /\ raced \subseteq Id
    BY PipelineAssumption DEF Init
  <2>7. QED
    BY <2>1, <2>2, <2>3, <2>4, <2>5, <2>6 DEF TypeOK
<1>5. Stages
  BY <1>3 DEF Stages, StagesOf, Begun, Lists, Injective
<1>6. Chains
  <2> SUFFICES ASSUME NEW i \in Id PROVE OneHand(i) /\ Unseen(i)
    BY DEF Chains
  <2>1. \A w \in Worker : ~Attends(w, i)
    BY <1>3 DEF Attends, Begun
  <2>2. ~published[i].listed /\ reeval.stage = "none"
    BY DEF Init, NoItem, NoReEval
  <2>3. ASSUME NEW j \in Job, queue[j] > 0
        PROVE  /\ queue[j] = 1
               /\ \E k \in Kind : j = NewProcessor(k, agent) /\ j.kind = k /\ j.step = (IF agent THEN "report" ELSE "namespaces")
    BY <1>1, <1>2, <2>3 DEF NewProcessor, NewJob
  <2>4. ASSUME NEW j \in Job, NEW l \in Job, queue[j] > 0, queue[l] > 0, Concerns(j, i), Concerns(l, i) PROVE j = l
    <3>1. PICK k \in Kind : j = NewProcessor(k, agent) /\ j.kind = k /\ j.step = (IF agent THEN "report" ELSE "namespaces")
      BY <2>3, <2>4
    <3>2. PICK m \in Kind : l = NewProcessor(m, agent) /\ l.kind = m /\ l.step = (IF agent THEN "report" ELSE "namespaces")
      BY <2>3, <2>4
    <3>3. CASE agent
      <4>1. i \in Range(Report[k]) /\ i \in Range(Report[m])
        BY <2>4, <3>1, <3>2, <3>3 DEF Concerns, ItemSteps
      <4>2. QED
        BY <4>1, <3>1, <3>2, ListedOnce
    <3>4. CASE ~agent
      <4>1. PICK ns, ms \in Namespace : i \in Range(Listing[k][ns]) /\ i \in Range(Listing[m][ms])
        BY <2>4, <3>1, <3>2, <3>4 DEF Concerns, ItemSteps
      <4>2. QED
        BY <4>1, <3>1, <3>2, ListedOnce
    <3>5. QED
      BY <3>3, <3>4
  <2>5. QED
    BY <2>1, <2>2, <2>3, <2>4 DEF OneHand, Unseen
<1>7. QED
  BY <1>4, <1>5, <1>6 DEF IInv

\* The actions of the five kinds are the same steps.
LEMMA WorkerSteps ==
  ASSUME TypeOK, Stages, NEW w \in Worker, WorkerStep(w)
  PROVE  \/ Take(w) \/ Fail(w) \/ Publish(w) \/ Record(w)
         \/ ListAllNamespaces(w) \/ ListWorkloads(w) \/ PassOver(w) \/ CountItem(w)
         \/ StoreItem(w, KindOf(IdOf(w)), Unavailable(IdOf(w)))
         \/ \E kind \in Kind : ListPods(w, kind) \/ GetMetrics(w, kind) \/ Optimize(w, kind)
         \/ OptimizeLazy(w) \/ OptimizeJobPanics(w) \/ DownloadReport(w)
         \/ \E wanted \in BOOLEAN : /\ StoreReported(w, KindOf(IdOf(w)), wanted)
                                    /\ wanted <=> /\ Selected(IdOf(w))
                                                  /\ KindOf(IdOf(w)) = "pod" => Wanted(IdOf(w))
<1> DEFINE i == IdOf(w)
<1>1. CASE \/ Take(w) \/ Fail(w) \/ Publish(w) \/ Record(w)
           \/ ListAllNamespaces(w) \/ ListWorkloads(w) \/ PassOver(w) \/ CountItem(w)
           \/ OptimizeLazy(w) \/ OptimizeJobPanics(w) \/ DownloadReport(w)
  BY <1>1
<1>2. CASE ListDeployment(w) \/ ListStatefulset(w) \/ ListDaemonset(w) \/ ListJob(w) \/ ListPod(w)
  <2>1. work[w].stage = "store"
    BY <1>2 DEF ListDeployment, ListStatefulset, ListDaemonset, ListJob, ListPod, StoreItem
  <2>2. KindOf(i) = work[w].job.kind
    BY <2>1, AtItem DEF Begun
  <2>3. CASE ListDeployment(w)
    BY <2>2, <2>3 DEF ListDeployment, Unavailable, StoreItem
  <2>4. CASE ListStatefulset(w)
    BY <2>2, <2>4 DEF ListStatefulset, Unavailable, StoreItem
  <2>5. CASE ListDaemonset(w)
    BY <2>2, <2>5 DEF ListDaemonset, Unavailable, StoreItem
  <2>6. CASE ListJob(w)
    BY <2>2, <2>6 DEF ListJob, Unavailable, StoreItem
  <2>7. CASE ListPod(w)
    BY <2>2, <2>7 DEF ListPod, Unavailable, StoreItem
  <2>8. QED
    BY <1>2, <2>3, <2>4, <2>5, <2>6, <2>7
<1>3. CASE \/ ListPodsForDeployment(w) \/ ListPodsForStatefulset(w) \/ ListPodsForDaemonset(w) \/ ListPodsForJob(w)
           \/ GetDeploymentPodMetrics(w) \/ GetStatefulsetPodMetrics(w) \/ GetDaemonsetPodMetrics(w)
           \/ GetJobPodMetrics(w) \/ GetPodMetrics(w)
           \/ OptimizeDeployment(w) \/ OptimizeStatefulset(w) \/ OptimizeDaemonset(w) \/ OptimizeJob(w) \/ OptimizePod(w)
  <2>1. \E kind : ListPods(w, kind) \/ GetMetrics(w, kind) \/ Optimize(w, kind)
    BY <1>3 DEF ListPodsForDeployment, ListPodsForStatefulset, ListPodsForDaemonset, ListPodsForJob,
                GetDeploymentPodMetrics, GetStatefulsetPodMetrics, GetDaemonsetPodMetrics, GetJobPodMetrics,
                GetPodMetrics, OptimizeDeployment, OptimizeStatefulset, OptimizeDaemonset, OptimizeJob, OptimizePod
  <2>2. PICK kind : ListPods(w, kind) \/ GetMetrics(w, kind) \/ Optimize(w, kind)
    BY <2>1
  <2>3. work[w].job.kind = kind /\ work[w].job.step \in ItemSteps
    BY <2>2 DEF ListPods, GetMetrics, Optimize, At, Running, ItemSteps
  <2>4. work[w].job.of \in Id /\ kind = KindOf(work[w].job.of)
    BY <2>3, JobFields DEF TypeOK, Task, ItemSteps
  <2>5. kind \in Kind
    BY <2>4, KindOfItem
  <2>6. QED
    BY <2>2, <2>5
<1>4. CASE \/ ReportDeployment(w) \/ ReportStatefulset(w) \/ ReportDaemonset(w)
           \/ ReportJob(w) \/ ReportPod(w)
  <2>1. work[w].stage = "report"
    BY <1>4 DEF ReportDeployment, ReportStatefulset, ReportDaemonset, ReportJob, ReportPod, StoreReported
  <2>2. KindOf(i) = work[w].job.kind
    BY <2>1, AtItem DEF Begun
  <2>3. Selected(i) \in BOOLEAN /\ (Selected(i) /\ Wanted(i)) \in BOOLEAN
    BY DEF Selected, Wanted
  <2>4. CASE ReportPod(w)
    <3>1. KindOf(i) = "pod"
      BY <2>2, <2>4 DEF ReportPod, StoreReported
    <3>2. StoreReported(w, KindOf(i), Selected(i) /\ Wanted(i))
      BY <2>4, <3>1 DEF ReportPod
    <3>3. QED
      BY <2>3, <3>1, <3>2
  <2>5. CASE ReportDeployment(w) \/ ReportStatefulset(w) \/ ReportDaemonset(w) \/ ReportJob(w)
    <3>1. StoreReported(w, KindOf(i), Selected(i)) /\ KindOf(i) # "pod"
      BY <2>2, <2>5 DEF ReportDeployment, ReportStatefulset, ReportDaemonset, ReportJob, StoreReported
    <3>2. QED
      BY <2>3, <3>1
  <2>6. QED
    BY <1>4, <2>4, <2>5
<1>5. QED
  BY <1>1, <1>2, <1>3, <1>4 DEF WorkerStep

LEMMA NextIInv == IInv /\ [Next]_vars => IInv'
<1> SUFFICES ASSUME IInv, [Next]_vars PROVE IInv'
  OBVIOUS
<1>1. ASSUME NEW w \in Worker, WorkerStep(w) PROVE IInv'
  <2>1. Begun(w) => IdOf(w) \in Id
    BY AtItem DEF IInv
  <2>2. ASSUME StoreItem(w, KindOf(IdOf(w)), Unavailable(IdOf(w))) PROVE IInv'
    <3>1. IdOf(w) \in Id
      BY <2>1, <2>2 DEF StoreItem, Begun
    <3>2. Unavailable(IdOf(w)) \in BOOLEAN
      BY <3>1, ItemOfReport
    <3>3. QED
      BY <2>2, <3>2, StoreItemStep
  <2>3. QED
    BY <1>1, <2>2, WorkerSteps, TakeStep, FailStep, PublishStep, RecordStep, ListAllNamespacesStep, ListWorkloadsStep,
       PassOverStep, CountItemStep, ListPodsStep, GetMetricsStep, OptimizeStep, OptimizeLazyStep,
       OptimizeJobPanicsStep, DownloadReportStep, StoreReportedStep DEF IInv
<1>2. ASSUME NEW i \in Id, NEW p \in Preference, ReEvaluate(i, p) PROVE IInv'
  BY <1>2, ReEvaluateStep
<1>3. CASE UNCHANGED vars
  <2>1. /\ UNCHANGED <<items, counter, published, summary, queue, work, reeval, asked, prefs, exhausted, raced>>
        /\ \A w \in Worker, i \in Id : (Attends(w, i)' <=> Attends(w, i)) /\ (Foreseen(w, i)' <=> Foreseen(w, i))
        /\ Stages'
    BY <1>3, SameWorkers DEF vars, IInv
  <2>2. TypeOK'
    BY <2>1 DEF TypeOK, IInv
  <2>3. Chains'
    BY <2>1 DEF Chains, OneHand, Unseen, IInv
  <2>4. QED
    BY <2>1, <2>2, <2>3 DEF IInv
<1>4. QED
  BY <1>1, <1>2, <1>3, ReEvaluateStoreStep, ReEvaluatePushStep DEF Next

\* The invariant the theorems below follow from: every job and every item is in one hand.
THEOREM Invariance == Spec => []IInv
BY InitIInv, NextIInv, PTL DEF Spec

\* The processor's state and the local variables of its jobs have their types, for any
\* number of workers and workloads and any listing.
THEOREM TypeCorrect == Spec => []TypeOK
<1>1. IInv => TypeOK
  BY DEF IInv
<1>2. QED
  BY <1>1, Invariance, PTL

\* An item has one job at most, waiting or running, unless it was re-evaluated while it
\* had one: the listings of all kinds, the retries and the re-evaluations never add one.
THEOREM OneJob == Spec => []OneJobAtATime
<1>1. IInv => OneJobAtATime
  <2> SUFFICES ASSUME IInv PROVE OneJobAtATime
    OBVIOUS
  <2> USE DEF IInv
  <2>1. ASSUME NEW i \in Id \ raced
        PROVE  LET waiting == {j \in Job : j.of = i /\ queue[j] > 0}
               IN  /\ \A v, w \in HeldBy(i) : v = w
                   /\ \A j, k \in waiting : j = k /\ queue[j] = 1
                   /\ HeldBy(i) = {} \/ waiting = {}
    <3> DEFINE waiting == {j \in Job : j.of = i /\ queue[j] > 0}
    <3>1. OneHand(i)
      BY DEF Chains
    <3>2. i # "cluster" /\ i \notin Namespace
      BY KindOfItem
    <3>3. \A j \in Job : j.of = i => Concerns(j, i)
      BY <3>2, JobFields DEF Concerns
    <3>4. ASSUME NEW w \in HeldBy(i) PROVE w \in Worker /\ Attends(w, i)
      <4>1. /\ w \in Worker /\ work[w].stage # "free" /\ work[w].job \in Job /\ work[w].rest \in Seq(Id)
            /\ work[w].job.of = i \/ (work[w].rest # <<>> /\ Head(work[w].rest) = i)
        BY DEF HeldBy, TypeOK, Task
      <4>2. CASE work[w].job.of = i
        <5>1. Concerns(work[w].job, i) /\ ~Lists(w)
          BY <3>2, <3>3, <4>1, <4>2, JobFields DEF Lists, ItemSteps
        <5>2. QED
          BY <4>1, <4>2, <5>1 DEF Attends, Begun
      <4>3. CASE work[w].rest # <<>> /\ Head(work[w].rest) = i
        <5>1. Begun(w) /\ Lists(w) /\ Injective(work[w].rest)
          BY <4>1, <4>3 DEF Stages, StagesOf
        <5>2. i \in Range(work[w].rest)
          BY <4>1, <4>3, <5>1, RestOfListing
        <5>3. QED
          BY <4>1, <5>1, <5>2 DEF Attends
      <4>4. QED
        BY <4>1, <4>2, <4>3
    <3>5. \A v, w \in HeldBy(i) : v = w
      BY <3>1, <3>4 DEF OneHand
    <3>6. \A j, k \in waiting : j = k /\ queue[j] = 1
      BY <3>1, <3>3 DEF OneHand
    <3>7. HeldBy(i) = {} \/ waiting = {}
      BY <3>1, <3>3, <3>4 DEF OneHand
    <3>8. QED
      BY <3>5, <3>6, <3>7
  <2>2. QED
    BY <2>1 DEF OneJobAtATime
<1>2. QED
  BY <1>1, Invariance, PTL

--------------------------------------------------------------------------------
(* What becomes of an item.                                                  *)

\* A job of item i waits; worker w runs one; w has stored the item and is not done with it.
Waits(j, i)  == queue[j] > 0 /\ j.step \in ItemSteps /\ j.of = i
AtCall(w, i) == work[w].stage = "call" /\ work[w].job.step \in ItemSteps /\ work[w].job.of = i
AtEnd(w, i)  == work[w].stage \in {"publish", "record"} /\ IdOf(w) = i
OnReEval(i)  == reeval.stage # "none" /\ reeval.id = i

\* A listing, or a report, that has not shown item i yet.
ToShow(w, i)   == Begun(w) /\ Lists(w) /\ IdOf(w) = i /\ work[w].stage # "record"
Early(w, i)    == Foreseen(w, i) \/ ToShow(w, i)
EarlyIn(steps, i) ==
  \/ \E w \in Worker : Early(w, i) /\ work[w].job.step \in steps
  \/ \E j \in Job : queue[j] > 0 /\ Foretold(j, i) /\ j.step \in steps
EarlyList(i)   == EarlyIn({"namespaces", "list"}, i)
EarlyReport(i) == EarlyIn({"report"}, i)

\* The work on an item goes on by itself; or after a re-evaluation that was begun.
Going(i) ==
  \/ \E j \in Job : Waits(j, i)
  \/ \E w \in Worker : AtCall(w, i) \/ (AtEnd(w, i) /\ Follower(w) # {})
InProgress(i) == Going(i) \/ OnReEval(i)

Shows(item) ==
  /\ item.listed
  /\ item.skipped \/ item.lazy \/ item.loading \/ (item.result.ready /\ item.result.prefs = item.prefs)
Settled(item) == item.skipped \/ (~item.loading /\ (item.lazy \/ item.result.ready))

\* The user knows what there are jobs of, and nothing a listing has not reached.
Known(i) ==
  /\ published[i].listed => items[i].listed
  /\ i \in raced \/ OnReEval(i) \/ (\E j \in Job : Waits(j, i)) \/ (\E w \in Worker : AtCall(w, i)) =>
       published[i].listed
  /\ \A w \in Worker : AtEnd(w, i) => items[i].listed /\ (published[i].listed \/ ToShow(w, i))
  /\ EarlyList(i) \/ EarlyReport(i) => ~published[i].listed

\* No version of an item is blank, and a lazy one that is worked on is loading.
Solid(i) ==
  /\ items[i].listed => Shows(items[i])
  /\ published[i].listed => Shows(published[i])
  /\ \A w \in Worker : AtCall(w, i) \/ AtEnd(w, i) => Shows(work[w].item)
  /\ \A w \in Worker : AtCall(w, i) => (work[w].item.lazy => work[w].item.loading)
  /\ Going(i) \/ (OnReEval(i) /\ reeval.stage = "stored") => (items[i].lazy => items[i].loading)
  /\ OnReEval(i) => reeval.item.listed /\ reeval.item.loading

\* An item that is not settled has work that goes on.
Settles(i) == items[i].listed /\ i \notin exhausted => Settled(items[i]) \/ InProgress(i)

\* The local copies of an item, when its work is in one hand.
Current(i) ==
  /\ \A w \in Worker : AtCall(w, i) \/ AtEnd(w, i) => work[w].item = items[i]
  /\ \A w \in Worker : AtEnd(w, i) /\ work[w].stage = "record" => work[w].latest = items[i].result
  /\ OnReEval(i) /\ reeval.stage = "read" => reeval.item = [items[i] EXCEPT !.prefs = prefs[i], !.loading = TRUE]
  /\ OnReEval(i) /\ reeval.stage = "stored" => reeval.item = items[i]
  /\ Going(i) => items[i].loading

\* What the user sees of it, and what the summary adds up.
Visible(i) ==
  /\ \/ [published[i] EXCEPT !.lazy = items[i].lazy] = items[i]
     \/ \E w \in Worker : AtEnd(w, i) /\ work[w].stage = "publish"
     \/ OnReEval(i) /\ reeval.stage = "stored"
  /\ \/ items[i].result.ready => summary[i] = items[i].result
     \/ \E w \in Worker : AtEnd(w, i) /\ work[w].job.step # "pods"

\* The preferences an item has and those its result was computed with.
Preferred(i) ==
  /\ EarlyList(i) => prefs[i] = Preferences(KindOf(i))
  /\ EarlyReport(i) => prefs[i] = DefaultPreferences
  /\ \/ ~items[i].listed
     \/ OnReEval(i) /\ reeval.stage = "read"
     \/ items[i].prefs = prefs[i]
  /\ \/ ~items[i].result.ready \/ items[i].skipped \/ i \in exhausted
     \/ InProgress(i)
     \/ items[i].result.prefs = prefs[i]

ItemInv(i) == Known(i) /\ Solid(i) /\ Settles(i) /\ (i \notin raced => Current(i) /\ Visible(i) /\ Preferred(i))
Items == \A i \in Id : ItemInv(i)

--------------------------------------------------------------------------------
(* What a step leaves alone.                                                 *)

\* A step has nothing to do with item i, but that it may end what was early for it.
Untouched(i) ==
  /\ items'[i] = items[i] /\ published'[i] = published[i] /\ summary'[i] = summary[i] /\ prefs'[i] = prefs[i]
  /\ (i \in raced' <=> i \in raced) /\ (i \in exhausted' <=> i \in exhausted)
  /\ \A j \in Job : Waits(j, i)' <=> Waits(j, i)
  /\ \A w \in Worker : (AtCall(w, i)' <=> AtCall(w, i)) /\ (AtEnd(w, i)' <=> AtEnd(w, i))
  /\ \A w \in Worker : AtCall(w, i) \/ AtEnd(w, i) => work'[w] = work[w]
  /\ (EarlyList(i)' => EarlyList(i)) /\ (EarlyReport(i)' => EarlyReport(i))
  /\ OnReEval(i)' <=> OnReEval(i)
  /\ OnReEval(i) => reeval' = reeval

\* What is said of a worker depends on that worker only.
LEMMA SameWorker ==
  ASSUME NEW w \in Worker, work'[w] = work[w], NEW i
  PROVE  /\ AtCall(w, i)' <=> AtCall(w, i)
         /\ AtEnd(w, i)' <=> AtEnd(w, i)
         /\ ToShow(w, i)' <=> ToShow(w, i)
         /\ Early(w, i)' <=> Early(w, i)
         /\ Follower(w)' = Follower(w) /\ IdOf(w)' = IdOf(w)
BY DEF AtCall, AtEnd, ToShow, Early, Foreseen, Begun, Lists, IdOf, Follower

LEMMA UntouchedGoing ==
  ASSUME NEW i \in Id, Untouched(i)
  PROVE  (Going(i)' <=> Going(i)) /\ (InProgress(i)' <=> InProgress(i))
<1>1. \A w \in Worker : AtEnd(w, i) => Follower(w)' = Follower(w)
  BY SameWorker DEF Untouched
<1>2. Going(i)' <=> Going(i)
  BY <1>1 DEF Untouched, Going
<1>3. QED
  BY <1>2 DEF Untouched, InProgress

LEMMA Frame ==
  ASSUME NEW i \in Id, ItemInv(i), Untouched(i)
  PROVE  ItemInv(i)'
<1>1. (Going(i)' <=> Going(i)) /\ (InProgress(i)' <=> InProgress(i))
  BY UntouchedGoing
<1>2. \A w \in Worker : AtEnd(w, i) => (ToShow(w, i)' <=> ToShow(w, i))
  BY SameWorker DEF Untouched
<1>3. Known(i)'
  BY <1>2 DEF ItemInv, Known, Untouched
<1>4. Solid(i)'
  BY <1>1 DEF ItemInv, Solid, Untouched
<1>5. Settles(i)'
  BY <1>1 DEF ItemInv, Settles, Untouched
<1>6. ASSUME i \notin raced' PROVE Current(i)' /\ Visible(i)' /\ Preferred(i)'
  <2>1. i \notin raced /\ Current(i) /\ Visible(i) /\ Preferred(i)
    BY <1>6 DEF ItemInv, Untouched
  <2>2. Current(i)'
    BY <1>1, <2>1 DEF Current, Untouched
  <2>3. Visible(i)'
    BY <2>1 DEF Visible, Untouched
  <2>4. Preferred(i)'
    BY <1>1, <2>1 DEF Preferred, Untouched
  <2>5. QED
    BY <2>2, <2>3, <2>4
<1>7. QED
  BY <1>3, <1>4, <1>5, <1>6 DEF ItemInv

\* Nothing becomes early again.
EarlyKept == \A i \in Id : (EarlyList(i)' => EarlyList(i)) /\ (EarlyReport(i)' => EarlyReport(i))

\* A step of worker w, and the items it is not at.
Moves(w) ==
  /\ \A v \in Worker \ {w} : work'[v] = work[v]
  /\ EarlyKept
  /\ UNCHANGED <<asked, prefs, reeval, raced>>

LEMMA Beside ==
  ASSUME NEW w \in Worker, Moves(w), NEW i \in Id,
         items'[i] = items[i], published'[i] = published[i], summary'[i] = summary[i],
         i \in exhausted' <=> i \in exhausted,
         ~AtCall(w, i), ~AtEnd(w, i), ~AtCall(w, i)', ~AtEnd(w, i)',
         \A j \in Job : j.step \in ItemSteps /\ j.of = i => queue'[j] = queue[j]
  PROVE  Untouched(i)
<1>1. \A j \in Job : Waits(j, i)' <=> Waits(j, i)
  BY DEF Waits
<1>2. \A v \in Worker \ {w} : (AtCall(v, i)' <=> AtCall(v, i)) /\ (AtEnd(v, i)' <=> AtEnd(v, i))
  BY SameWorker DEF Moves
<1>3. OnReEval(i)' <=> OnReEval(i)
  BY DEF Moves, OnReEval
<1>4. QED
  BY <1>1, <1>2, <1>3 DEF Untouched, Moves, EarlyKept

\* What is early is kept when the worker goes on, drops its work, or pushes jobs for what
\* it was going to list.
LEMMA KeepsEarly ==
  ASSUME TypeOK, NEW w \in Worker, \A v \in Worker \ {w} : work'[v] = work[v],
         \A i \in Id : Early(w, i)' => Early(w, i) /\ work'[w].job.step = work[w].job.step,
         \A j \in Job, i \in Id : queue'[j] > 0 /\ Foretold(j, i) =>
           queue[j] > 0 \/ (Early(w, i) /\ j.step = "list" /\ work[w].job.step = "namespaces")
  PROVE  EarlyKept
<1> SUFFICES ASSUME NEW i \in Id PROVE (EarlyList(i)' => EarlyList(i)) /\ (EarlyReport(i)' => EarlyReport(i))
  BY DEF EarlyKept
<1>1. \A v \in Worker \ {w} : (Early(v, i)' <=> Early(v, i)) /\ work'[v].job.step = work[v].job.step
  BY SameWorker
<1>2. EarlyList(i)' => EarlyList(i)
  BY <1>1 DEF EarlyList, EarlyIn
<1>3. EarlyReport(i)' => EarlyReport(i)
  BY <1>1 DEF EarlyReport, EarlyIn
<1>4. QED
  BY <1>2, <1>3

--------------------------------------------------------------------------------
(* Where a worker is, before and after a step.                               *)

LEMMA AtOne ==
  ASSUME TypeOK, Stages, NEW w \in Worker, NEW i, AtCall(w, i) \/ AtEnd(w, i)
  PROVE  i = IdOf(w) /\ i \in Id /\ Attends(w, i)
<1>1. i = IdOf(w)
  BY DEF AtCall, AtEnd, IdOf, Lists, ItemSteps
<1>2. QED
  BY <1>1, AtItem DEF AtCall, AtEnd, Begun

LEMMA EarlyAttended ==
  ASSUME TypeOK, Stages, NEW w \in Worker, NEW i \in Id, Early(w, i)
  PROVE  Attends(w, i)
<1>1. CASE Foreseen(w, i)
  BY <1>1, ForeseenAttended
<1>2. CASE ToShow(w, i)
  BY <1>2, AtItem DEF ToShow
<1>3. QED
  BY <1>1, <1>2 DEF Early

\* Of an item whose work is in one hand.
LEMMA InOneHand ==
  ASSUME IInv, NEW i \in Id \ raced, NEW w \in Worker, Attends(w, i)
  PROVE  /\ \A v \in Worker \ {w} : ~AtCall(v, i) /\ ~AtEnd(v, i) /\ ~Early(v, i)
         /\ \A j \in Job : ~Waits(j, i)
         /\ \A j \in Job : ~(queue[j] > 0 /\ Foretold(j, i))
         /\ ~OnReEval(i)
<1>1. OneHand(i)
  BY DEF IInv, Chains
<1>2. \A v \in Worker : AtCall(v, i) \/ AtEnd(v, i) \/ Early(v, i) => Attends(v, i)
  BY AtOne, EarlyAttended DEF IInv
<1>3. \A v \in Worker \ {w} : ~Attends(v, i)
  BY <1>1 DEF OneHand
<1>4. \A j \in Job : ~(queue[j] > 0 /\ Concerns(j, i))
  BY <1>1 DEF OneHand
<1>5. ~OnReEval(i)
  BY <1>1 DEF OneHand, OnReEval
<1>6. \A j \in Job : ~Waits(j, i) /\ ~(queue[j] > 0 /\ Foretold(j, i))
  BY <1>4 DEF Waits, Foretold, Concerns
<1>7. QED
  BY <1>2, <1>3, <1>5, <1>6

\* A worker that is free, or about to count or to store.
LEMMA AtNothing ==
  ASSUME NEW w \in Worker,
         work[w].stage \in {"free", "count", "store", "report"}
           \/ (work[w].stage = "call" /\ work[w].job.step \in ListSteps)
  PROVE  \A i : ~AtCall(w, i) /\ ~AtEnd(w, i)
BY DEF AtCall, AtEnd, ItemSteps, ListSteps

LEMMA FreedEffect ==
  ASSUME TypeOK, Stages, NEW w \in Worker, work' = [work EXCEPT ![w] = Free]
  PROVE  /\ \A v \in Worker \ {w} : work'[v] = work[v]
         /\ \A i \in Id : ~AtCall(w, i)' /\ ~AtEnd(w, i)' /\ ~Early(w, i)'
<1>1. /\ work'[w] = Free /\ \A v \in Worker \ {w} : work'[v] = work[v]
  BY Freed
<1>2. work'[w].stage = "free"
  BY <1>1, FreeTask
<1>3. QED
  BY <1>1, <1>2 DEF AtCall, AtEnd, Early, Foreseen, ToShow, Begun

LEMMA AdvancedEffect ==
  ASSUME TypeOK, Stages, NEW w \in Worker, Begun(w), work' = [work EXCEPT ![w] = NextTask(w)]
  PROVE  /\ \A v \in Worker \ {w} : work'[v] = work[v]
         /\ \A i \in Id : ~AtCall(w, i)' /\ ~AtEnd(w, i)'
         /\ \A i \in Id : Early(w, i)' => Early(w, i) /\ work'[w].job.step = work[w].job.step
<1>1. work[w] \in Task /\ work \in [Worker -> Task] /\ work[w].rest \in Seq(Id)
  BY DEF TypeOK, Task
<1>2. CASE ~(Lists(w) /\ Tail(work[w].rest) # <<>>)
  <2>1. work' = [work EXCEPT ![w] = Free]
    BY <1>2 DEF NextTask
  <2>2. QED
    BY <2>1, FreedEffect
<1>3. CASE Lists(w) /\ Tail(work[w].rest) # <<>>
  <2>1. PICK s \in {"count", "report"} : s = (IF work[w].job.step = "list" THEN "count" ELSE "report")
    OBVIOUS
  <2>2. work[w].rest # <<>> /\ Injective(work[w].rest)
    BY <1>3 DEF Stages, StagesOf
  <2>3. PICK r \in Seq(Id) :
          /\ r = Tail(work[w].rest) /\ r # <<>> /\ Head(r) \in Range(r) /\ Range(Tail(r)) \subseteq Range(r)
    <3>1. Tail(work[w].rest) \in Seq(Id) /\ Injective(Tail(work[w].rest))
      BY <1>1, <2>2, RestOfListing
    <3>2. QED
      BY <1>3, <3>1, RestOfListing
  <2>4. NextTask(w) = [work[w] EXCEPT !.stage = s, !.rest = r]
    BY <1>3, <2>1, <2>3 DEF NextTask
  <2>5. [work[w] EXCEPT !.stage = s, !.rest = r] \in Task
    BY <1>1 DEF Task
  <2>6. PICK t \in Task : t = [work[w] EXCEPT !.stage = s, !.rest = r] /\ t.stage = s /\ t.rest = r /\ t.job = work[w].job
    BY <1>1, <2>5 DEF Task
  <2>7. work' = [work EXCEPT ![w] = t]
    BY <2>4, <2>6
  <2>8. /\ work'[w] = t /\ \A v \in Worker \ {w} : work'[v] = work[v]
    BY <1>1, <2>7
  <2>9. /\ work'[w].stage = s /\ work'[w].rest = r /\ work'[w].job = work[w].job
    BY <2>6, <2>8
  <2>10. \A i \in Id : ~AtCall(w, i)' /\ ~AtEnd(w, i)'
    BY <2>9 DEF AtCall, AtEnd
  <2>11. \A i \in Id : Early(w, i)' => i \in Range(r)
    BY <2>3, <2>9 DEF Early, Foreseen, ToShow, IdOf, Begun, Lists
  <2>12. \A i \in Id : i \in Range(r) => Early(w, i)
    BY <1>3, <2>3 DEF Early, Foreseen
  <2>13. QED
    BY <2>8, <2>9, <2>10, <2>11, <2>12
<1>4. QED
  BY <1>2, <1>3

--------------------------------------------------------------------------------
(* Steps that are at no item.                                                *)

LEMMA IdleStep ==
  ASSUME Items, NEW w \in Worker, Moves(w),
         UNCHANGED <<items, published, summary, exhausted>>,
         \A i \in Id : ~AtCall(w, i) /\ ~AtEnd(w, i) /\ ~AtCall(w, i)' /\ ~AtEnd(w, i)',
         \A j \in Job : j.step \in ItemSteps => queue'[j] = queue[j]
  PROVE  Items'
<1> SUFFICES ASSUME NEW i \in Id PROVE ItemInv(i)'
  BY DEF Items
<1>1. Untouched(i)
  BY Beside
<1>2. QED
  BY <1>1, Frame DEF Items

\* A listing drops what is left of it, or goes on with its next item.
LEMMA DropItems ==
  ASSUME IInv, Items, NEW w \in Worker, work' = [work EXCEPT ![w] = Free],
         work[w].stage = "report" \/ (work[w].stage = "call" /\ work[w].job.step \in ListSteps),
         UNCHANGED <<items, counter, published, summary, queue, reeval, asked, prefs, exhausted, raced>>
  PROVE  Items'
<1> USE DEF IInv
<1>1. /\ \A v \in Worker \ {w} : work'[v] = work[v]
      /\ \A i \in Id : ~AtCall(w, i)' /\ ~AtEnd(w, i)' /\ ~Early(w, i)'
  BY FreedEffect
<1>2. \A i \in Id : ~AtCall(w, i) /\ ~AtEnd(w, i)
  BY AtNothing
<1>3. EarlyKept
  BY <1>1, KeepsEarly
<1>4. Moves(w)
  BY <1>1, <1>3 DEF Moves
<1>5. QED
  BY <1>1, <1>2, <1>4, IdleStep

LEMMA AdvanceItems ==
  ASSUME IInv, Items, NEW w \in Worker, work' = [work EXCEPT ![w] = NextTask(w)],
         work[w].stage \in {"count", "report"},
         UNCHANGED <<items, counter, published, summary, queue, reeval, asked, prefs, exhausted, raced>>
  PROVE  Items'
<1> USE DEF IInv
<1>1. /\ \A v \in Worker \ {w} : work'[v] = work[v]
      /\ \A i \in Id : ~AtCall(w, i)' /\ ~AtEnd(w, i)'
      /\ \A i \in Id : Early(w, i)' => Early(w, i) /\ work'[w].job.step = work[w].job.step
  BY AdvancedEffect DEF Begun
<1>2. \A i \in Id : ~AtCall(w, i) /\ ~AtEnd(w, i)
  BY AtNothing
<1>3. EarlyKept
  BY <1>1, KeepsEarly
<1>4. Moves(w)
  BY <1>1, <1>3 DEF Moves
<1>5. QED
  BY <1>1, <1>2, <1>4, IdleStep

\* The namespaces arrive.
LEMMA ListAllNamespacesItems ==
  ASSUME IInv, Items, NEW w \in Worker, ListAllNamespaces(w)
  PROVE  Items'
<1> USE DEF IInv
<1>1. /\ work[w].stage = "call" /\ work[w].job.step = "namespaces" /\ work' = [work EXCEPT ![w] = Free]
      /\ UNCHANGED <<items, counter, published, summary, reeval, asked, prefs, exhausted, raced>>
  BY DEF ListAllNamespaces, Running
<1>2. /\ \A v \in Worker \ {w} : work'[v] = work[v]
      /\ \A i \in Id : ~AtCall(w, i)' /\ ~AtEnd(w, i)' /\ ~Early(w, i)'
  BY <1>1, FreedEffect
<1>3. \A i \in Id : ~AtCall(w, i) /\ ~AtEnd(w, i)
  BY <1>1, AtNothing DEF ListSteps
<1> DEFINE jobs == {NewJob("list", work[w].job.kind, ns) : ns \in Namespace \ {"kube-system"}}
<1>4. /\ queue' = Pushed(jobs) /\ queue \in [Job -> Nat]
      /\ \A j \in jobs : j.step = "list" /\ j.kind = work[w].job.kind /\ j.of \in Namespace \ {"kube-system"}
  BY DEF ListAllNamespaces, NewJob, TypeOK
<1> HIDE DEF jobs
<1>5. \A j \in Job : j \notin jobs => queue'[j] = queue[j]
  BY <1>4 DEF Pushed
<1>6. \A j \in Job : j.step \in ItemSteps => queue'[j] = queue[j]
  BY <1>4, <1>5 DEF ItemSteps
<1>7. ASSUME NEW j \in jobs, NEW i \in Id, Foretold(j, i) PROVE Early(w, i)
  BY <1>1, <1>4, <1>7 DEF Foretold, Concerns, Early, Foreseen, ListSteps, ItemSteps
<1>8. EarlyKept
  BY <1>1, <1>2, <1>4, <1>5, <1>7, KeepsEarly
<1>9. Moves(w)
  BY <1>1, <1>2, <1>8 DEF Moves
<1>10. QED
  BY <1>1, <1>2, <1>3, <1>6, <1>9, IdleStep

\* A listing or a report arrives.
LEMMA ArriveItems ==
  ASSUME IInv, Items, NEW w \in Worker, work[w].stage = "call", Lists(w),
         NEW list \in Seq(Id), Injective(list), \A i \in Range(list) : Foreseen(w, i),
         NEW s \in {"count", "report"},
         work' = [work EXCEPT ![w] = IF list = <<>> THEN Free ELSE [@ EXCEPT !.stage = s, !.rest = list]],
         UNCHANGED <<items, counter, published, summary, queue, reeval, asked, prefs, exhausted, raced>>
  PROVE  Items'
<1> USE DEF IInv
<1>1. CASE list = <<>>
  BY <1>1, DropItems DEF Lists, ListSteps
<1>2. CASE list # <<>>
  <2>1. work[w] \in Task /\ work \in [Worker -> Task]
    BY DEF TypeOK
  <2>2. [work[w] EXCEPT !.stage = s, !.rest = list] \in Task
    BY <2>1 DEF Task
  <2>3. PICK t \in Task : /\ t = [work[w] EXCEPT !.stage = s, !.rest = list]
                          /\ t.stage = s /\ t.rest = list /\ t.job = work[w].job
    BY <2>1, <2>2 DEF Task
  <2>4. /\ work'[w] = t /\ \A v \in Worker \ {w} : work'[v] = work[v]
    BY <1>2, <2>1, <2>3
  <2>5. work'[w].stage = s /\ work'[w].rest = list /\ work'[w].job = work[w].job
    BY <2>3, <2>4
  <2>6. Range(Tail(list)) \subseteq Range(list) /\ Head(list) \in Range(list)
    BY <1>2, RestOfListing
  <2>7. \A i \in Id : Early(w, i)' => i \in Range(list)
    BY <2>5, <2>6 DEF Early, Foreseen, ToShow, IdOf, Begun, Lists
  <2>8. \A i \in Id : ~AtCall(w, i) /\ ~AtEnd(w, i) /\ ~AtCall(w, i)' /\ ~AtEnd(w, i)'
    BY <2>5 DEF AtCall, AtEnd, Lists, ItemSteps
  <2>9. EarlyKept
    BY <2>4, <2>5, <2>7, KeepsEarly DEF Early
  <2>10. Moves(w)
    BY <2>4, <2>9 DEF Moves
  <2>11. QED
    BY <2>8, <2>10, IdleStep
<1>3. QED
  BY <1>1, <1>2

LEMMA ListWorkloadsItems ==
  ASSUME IInv, Items, NEW w \in Worker, ListWorkloads(w)
  PROVE  Items'
<1> USE DEF IInv
<1>1. /\ work[w].stage = "call" /\ work[w].job.step = "list"
      /\ UNCHANGED <<items, counter, published, summary, queue, reeval, asked, prefs, exhausted, raced>>
  BY DEF ListWorkloads, Running
<1>2. work[w].job.kind \in Kind /\ work[w].job.of \in Namespace
  BY <1>1, JobFields DEF TypeOK, Task, ItemSteps
<1>3. PICK list \in Seq(Id) : list = Listing[work[w].job.kind][work[w].job.of] /\ Injective(list)
  BY <1>2, Listed, ListedOnce
<1>4. \A i \in Range(list) : Foreseen(w, i)
  BY <1>1, <1>3 DEF Foreseen, Foretold, Concerns, ListSteps
<1>5. work' = [work EXCEPT ![w] = IF list = <<>> THEN Free ELSE [@ EXCEPT !.stage = "count", !.rest = list]]
  BY <1>3 DEF ListWorkloads
<1>6. Lists(w)
  BY <1>1 DEF Lists
<1>7. QED
  BY <1>1, <1>3, <1>4, <1>5, <1>6, ArriveItems

LEMMA DownloadReportItems ==
  ASSUME IInv, Items, NEW w \in Worker, DownloadReport(w)
  PROVE  Items'
<1> USE DEF IInv
<1>1. /\ work[w].stage = "call" /\ work[w].job.step = "report"
      /\ UNCHANGED <<items, counter, published, summary, queue, reeval, asked, prefs, exhausted, raced>>
  BY DEF DownloadReport, Running
<1>2. work[w].job.kind \in Kind
  BY <1>1, JobFields DEF TypeOK, Task, ItemSteps
<1>3. PICK list \in Seq(Id) : list = Report[work[w].job.kind] /\ Injective(list)
  BY <1>2, Listed, ListedOnce
<1>4. \A i \in Range(list) : Foreseen(w, i)
  BY <1>1, <1>3 DEF Foreseen, Foretold, Concerns, ListSteps
<1>5. work' = [work EXCEPT ![w] = IF list = <<>> THEN Free ELSE [@ EXCEPT !.stage = "report", !.rest = list]]
  BY <1>3 DEF DownloadReport
<1>6. Lists(w)
  BY <1>1 DEF Lists
<1>7. QED
  BY <1>1, <1>3, <1>4, <1>5, <1>6, ArriveItems

LEMMA CountItemItems ==
  ASSUME IInv, Items, NEW w \in Worker, CountItem(w)
  PROVE  Items'
<1> USE DEF IInv
<1>1. work[w] \in Task /\ work \in [Worker -> Task] /\ work[w].stage = "count"
  BY DEF TypeOK, CountItem
<1>2. [work[w] EXCEPT !.stage = "store"] \in Task
  BY <1>1 DEF Task
<1>3. PICK t \in Task : /\ t = [work[w] EXCEPT !.stage = "store"]
                        /\ t.stage = "store" /\ t.rest = work[w].rest /\ t.job = work[w].job
  BY <1>1, <1>2 DEF Task
<1>4. work'[w] = t /\ \A v \in Worker \ {w} : work'[v] = work[v]
  BY <1>1, <1>3 DEF CountItem
<1>5. work'[w].stage = "store" /\ work'[w].rest = work[w].rest /\ work'[w].job = work[w].job
  BY <1>3, <1>4
<1>6. \A i \in Id : ~AtCall(w, i) /\ ~AtEnd(w, i) /\ ~AtCall(w, i)' /\ ~AtEnd(w, i)'
  BY <1>1, <1>5 DEF AtCall, AtEnd
<1>7. \A i \in Id : Early(w, i)' => Early(w, i)
  BY <1>1, <1>5 DEF Early, Foreseen, ToShow, IdOf, Begun, Lists
<1>8. EarlyKept
  BY <1>4, <1>5, <1>7, KeepsEarly DEF CountItem
<1>9. Moves(w)
  BY <1>4, <1>8 DEF Moves, CountItem
<1>10. QED
  BY <1>6, <1>9, IdleStep DEF CountItem

--------------------------------------------------------------------------------
(* Steps that hand an item on.                                               *)

LEMMA TakeItems ==
  ASSUME IInv, Items, NEW w \in Worker, Take(w)
  PROVE  Items'
<1> USE DEF IInv
<1>1. PICK j \in Job :
        /\ queue[j] > 0
        /\ queue' = [queue EXCEPT ![j] = @ - 1]
        /\ work' = [work EXCEPT ![w] = [Free EXCEPT !.stage = "call", !.job = j,
                                         !.item = IF j.of \in Id THEN items[j.of] ELSE NoItem]]
  BY DEF Take
<1>2. PICK item \in Item : item = IF j.of \in Id THEN items[j.of] ELSE NoItem
  BY FreeTask DEF TypeOK
<1>3. PICK t \in Task : /\ t = [Free EXCEPT !.stage = "call", !.job = j, !.item = item]
                        /\ t.stage = "call" /\ t.job = j /\ t.rest = <<>> /\ t.item = item
  <2>1. Free \in Task /\ Free.rest = <<>>
    BY FreeTask
  <2>2. [Free EXCEPT !.stage = "call", !.job = j, !.item = item] \in Task
    BY <2>1 DEF Task
  <2>3. [Free EXCEPT !.stage = "call", !.job = j, !.item = item].rest = <<>>
    BY <2>1 DEF Task
  <2>4. QED
    BY <2>1, <2>2, <2>3 DEF Task
<1>4. /\ work'[w] = t /\ \A v \in Worker \ {w} : work'[v] = work[v]
  BY <1>1, <1>2, <1>3 DEF TypeOK
<1>5. /\ work'[w].stage = "call" /\ work'[w].job = j /\ work'[w].item = item /\ work[w].stage = "free"
  BY <1>3, <1>4 DEF Take
<1>6. /\ queue'[j] = queue[j] - 1 /\ \A k \in Job \ {j} : queue'[k] = queue[k]
      /\ queue \in [Job -> Nat]
  BY <1>1 DEF TypeOK
<1>7. UNCHANGED <<items, counter, published, summary, reeval, asked, prefs, exhausted, raced>>
  BY DEF Take
<1>8. \A i \in Id : ~AtCall(w, i) /\ ~AtEnd(w, i) /\ ~AtEnd(w, i)' /\ ~Early(w, i)
  BY <1>5 DEF AtCall, AtEnd, Early, Foreseen, ToShow, Begun
<1>9. \A i \in Id : (AtCall(w, i)' <=> j.step \in ItemSteps /\ j.of = i) /\ (Early(w, i)' <=> Foretold(j, i))
  BY <1>5 DEF AtCall, Early, Foreseen, ToShow, Begun
<1>10. EarlyKept
  <2> SUFFICES ASSUME NEW i \in Id, NEW steps, EarlyIn(steps, i)' PROVE EarlyIn(steps, i)
    BY DEF EarlyKept, EarlyList, EarlyReport
  <2>1. \A v \in Worker \ {w} : (Early(v, i)' <=> Early(v, i)) /\ work'[v].job.step = work[v].job.step
    BY <1>4, SameWorker
  <2>2. \A k \in Job : queue'[k] > 0 => queue[k] > 0
    BY <1>1, <1>6
  <2>3. QED
    BY <1>1, <1>5, <1>9, <2>1, <2>2 DEF EarlyIn
<1>11. Moves(w)
  BY <1>4, <1>7, <1>10 DEF Moves
<1>12. ASSUME NEW i \in Id, ~(j.step \in ItemSteps /\ j.of = i) PROVE ItemInv(i)'
  <2>1. \A k \in Job : k.step \in ItemSteps /\ k.of = i => queue'[k] = queue[k]
    BY <1>6, <1>12
  <2>2. Untouched(i)
    BY <1>7, <1>8, <1>9, <1>11, <1>12, <2>1, Beside
  <2>3. QED
    BY <2>2, Frame DEF Items
<1>13. ASSUME NEW i \in Id, j.step \in ItemSteps, j.of = i PROVE ItemInv(i)'
  <2>1. item = items[i] /\ work'[w].item = items[i] /\ AtCall(w, i)' /\ Waits(j, i) /\ Going(i) /\ Going(i)'
    BY <1>1, <1>2, <1>5, <1>9, <1>13 DEF Waits, Going
  <2>2. \A v \in Worker \ {w} : /\ AtCall(v, i)' <=> AtCall(v, i)
                                /\ AtEnd(v, i)' <=> AtEnd(v, i)
                                /\ ToShow(v, i)' <=> ToShow(v, i)
                                /\ work'[v] = work[v]
    BY <1>4, SameWorker
  <2>3. OnReEval(i)' <=> OnReEval(i)
    BY <1>7 DEF OnReEval
  <2>4. ItemInv(i) /\ (EarlyList(i)' => EarlyList(i)) /\ (EarlyReport(i)' => EarlyReport(i))
    BY <1>10 DEF Items, EarlyKept
  <2>5. \A k \in Job : Waits(k, i)' => Waits(k, i)
    BY <1>1, <1>6 DEF Waits
  <2>6. items[i].listed
    BY <2>1, <2>4 DEF ItemInv, Known
  <2>7. Known(i)'
    BY <1>7, <1>8, <2>1, <2>2, <2>3, <2>4, <2>5 DEF ItemInv, Known
  <2>8. Solid(i)'
    BY <1>7, <1>8, <2>1, <2>2, <2>3, <2>4, <2>6 DEF ItemInv, Solid
  <2>9. Settles(i)'
    BY <2>1 DEF Settles, InProgress
  <2>10. ASSUME i \notin raced' PROVE Current(i)' /\ Visible(i)' /\ Preferred(i)'
    <3>1. i \notin raced /\ Current(i) /\ Visible(i) /\ Preferred(i)
      BY <1>7, <2>4, <2>10 DEF ItemInv
    <3>2. Current(i)'
      BY <1>7, <1>8, <2>1, <2>2, <2>3, <3>1 DEF Current
    <3>3. Visible(i)'
      BY <1>7, <1>8, <2>1, <2>2, <2>3, <3>1 DEF Visible
    <3>4. Preferred(i)'
      BY <1>7, <2>1, <2>3, <2>4, <3>1 DEF Preferred, InProgress
    <3>5. QED
      BY <3>2, <3>3, <3>4
  <2>11. QED
    BY <2>7, <2>8, <2>9, <2>10 DEF ItemInv
<1>14. QED
  BY <1>12, <1>13 DEF Items

\* A job of an item gives way to another one that waits.
LEMMA RequeueItems ==
  ASSUME IInv, Items, NEW w \in Worker, NEW c \in Id, AtCall(w, c), work' = [work EXCEPT ![w] = Free],
         NEW k \in Job, k.step \in ItemSteps, k.of = c, queue' = Pushed({k}),
         UNCHANGED <<items, counter, published, summary, reeval, asked, prefs, exhausted, raced>>
  PROVE  Items'
<1> USE DEF IInv
<1>1. /\ \A v \in Worker \ {w} : work'[v] = work[v]
      /\ \A i \in Id : ~AtCall(w, i)' /\ ~AtEnd(w, i)' /\ ~Early(w, i)'
  BY FreedEffect
<1>2. /\ queue'[k] = queue[k] + 1 /\ (\A l \in Job \ {k} : queue'[l] = queue[l])
      /\ queue \in [Job -> Nat]
  BY DEF TypeOK, Pushed
<1>3. EarlyKept
  <2>1. \A l \in Job, i \in Id : queue'[l] > 0 /\ Foretold(l, i) => queue[l] > 0
    BY <1>2, ConcernsOwn
  <2>2. QED
    BY <1>1, <2>1, KeepsEarly
<1>4. Moves(w)
  BY <1>1, <1>3 DEF Moves
<1>5. \A i \in Id : AtCall(w, i) \/ AtEnd(w, i) => i = c
  BY DEF AtCall, AtEnd
<1>6. ASSUME NEW i \in Id \ {c} PROVE ItemInv(i)'
  <2>1. Untouched(i)
    BY <1>1, <1>2, <1>4, <1>5, Beside
  <2>2. QED
    BY <2>1, Frame DEF Items
<1>7. ItemInv(c)'
  <2>1. Going(c) /\ Waits(k, c)' /\ Going(c)'
    <3>1. queue'[k] > 0
      BY <1>2
    <3>2. Waits(k, c)'
      BY <3>1 DEF Waits
    <3>3. QED
      BY <3>2 DEF Going
  <2>2. \A v \in Worker \ {w} : /\ AtCall(v, c)' <=> AtCall(v, c)
                                /\ AtEnd(v, c)' <=> AtEnd(v, c)
                                /\ ToShow(v, c)' <=> ToShow(v, c)
                                /\ work'[v] = work[v]
    BY <1>1, SameWorker
  <2>3. OnReEval(c)' <=> OnReEval(c)
    BY DEF OnReEval
  <2>4. ItemInv(c) /\ (EarlyList(c)' => EarlyList(c)) /\ (EarlyReport(c)' => EarlyReport(c))
    BY <1>3 DEF Items, EarlyKept
  <2>5. ~AtEnd(w, c)
    BY DEF AtCall, AtEnd
  <2>6. Known(c)'
    BY <1>1, <2>2, <2>3, <2>4 DEF ItemInv, Known
  <2>7. Solid(c)'
    BY <1>1, <2>1, <2>2, <2>3, <2>4 DEF ItemInv, Solid
  <2>8. Settles(c)'
    BY <2>1 DEF Settles, InProgress
  <2>9. ASSUME c \notin raced' PROVE Current(c)' /\ Visible(c)' /\ Preferred(c)'
    <3>1. c \notin raced /\ Current(c) /\ Visible(c) /\ Preferred(c)
      BY <2>4, <2>9 DEF ItemInv
    <3>2. Current(c)'
      BY <1>1, <2>1, <2>2, <2>3, <3>1 DEF Current
    <3>3. Visible(c)'
      BY <1>1, <2>2, <2>3, <2>5, <3>1 DEF Visible
    <3>4. Preferred(c)'
      BY <2>1, <2>3, <2>4, <3>1 DEF Preferred, InProgress
    <3>5. QED
      BY <3>2, <3>3, <3>4
  <2>10. QED
    BY <2>6, <2>7, <2>8, <2>9 DEF ItemInv
<1>8. QED
  BY <1>6, <1>7 DEF Items

\* A job of an item is given up.
LEMMA GiveUpItems ==
  ASSUME IInv, Items, NEW w \in Worker, NEW c \in Id, AtCall(w, c), work' = [work EXCEPT ![w] = Free],
         exhausted' = exhausted \cup {c},
         UNCHANGED <<items, counter, published, summary, queue, reeval, asked, prefs, raced>>
  PROVE  Items'
<1> USE DEF IInv
<1>1. /\ \A v \in Worker \ {w} : work'[v] = work[v]
      /\ \A i \in Id : ~AtCall(w, i)' /\ ~AtEnd(w, i)' /\ ~Early(w, i)'
  BY FreedEffect
<1>2. EarlyKept
  BY <1>1, KeepsEarly
<1>3. Moves(w)
  BY <1>1, <1>2 DEF Moves
<1>4. \A i \in Id : AtCall(w, i) \/ AtEnd(w, i) => i = c
  BY DEF AtCall, AtEnd
<1>5. ASSUME NEW i \in Id \ {c} PROVE ItemInv(i)'
  <2>1. Untouched(i)
    BY <1>1, <1>3, <1>4, Beside
  <2>2. QED
    BY <2>1, Frame DEF Items
<1>6. ItemInv(c)'
  <2>1. \A v \in Worker \ {w} : /\ AtCall(v, c)' <=> AtCall(v, c)
                                /\ AtEnd(v, c)' <=> AtEnd(v, c)
                                /\ ToShow(v, c)' <=> ToShow(v, c)
                                /\ Follower(v)' = Follower(v)
                                /\ work'[v] = work[v]
    BY <1>1, SameWorker
  <2>2. Going(c)' => Going(c)
    BY <1>1, <2>1 DEF Going, Waits
  <2>3. OnReEval(c)' <=> OnReEval(c)
    BY DEF OnReEval
  <2>4. ItemInv(c) /\ (EarlyList(c)' => EarlyList(c)) /\ (EarlyReport(c)' => EarlyReport(c))
    BY <1>2 DEF Items, EarlyKept
  <2>5. ~AtEnd(w, c)
    BY DEF AtCall, AtEnd
  <2>6. Known(c)'
    BY <1>1, <2>1, <2>3, <2>4 DEF ItemInv, Known, Waits
  <2>7. Solid(c)'
    BY <1>1, <2>1, <2>2, <2>3, <2>4 DEF ItemInv, Solid
  <2>8. Settles(c)'
    BY DEF Settles
  <2>9. ASSUME c \notin raced' PROVE Current(c)' /\ Visible(c)' /\ Preferred(c)'
    <3>1. c \notin raced /\ Current(c) /\ Visible(c) /\ Preferred(c)
      BY <2>4, <2>9 DEF ItemInv
    <3>2. Current(c)'
      BY <1>1, <2>1, <2>2, <2>3, <3>1 DEF Current
    <3>3. Visible(c)'
      BY <1>1, <2>1, <2>3, <2>5, <3>1 DEF Visible
    <3>4. Preferred(c)'
      BY <2>3, <2>4, <3>1 DEF Preferred
    <3>5. QED
      BY <3>2, <3>3, <3>4
  <2>10. QED
    BY <2>6, <2>7, <2>8, <2>9 DEF ItemInv
<1>7. QED
  BY <1>5, <1>6 DEF Items

LEMMA FailItems ==
  ASSUME IInv, Items, NEW w \in Worker, Fail(w)
  PROVE  Items'
<1> USE DEF IInv
<1>1. /\ work[w].stage = "call" /\ work' = [work EXCEPT ![w] = Free]
      /\ UNCHANGED <<items, counter, published, summary, reeval, asked, prefs, raced>>
  BY DEF Fail
<1>2. PICK j \in Job : j = work[w].job
  BY DEF TypeOK, Task
<1>3. CASE j.tries < Retries(j.step)
  <2>1. j.step \in {"metrics", "optimize"} /\ j.tries < MaxRetry /\ j.tries \in 0..MaxRetry
    BY <1>3, JobFields DEF Retries
  <2>2. /\ j = [step |-> j.step, kind |-> j.kind, of |-> j.of, tries |-> j.tries]
        /\ j.of \in Id /\ j.kind = KindOf(j.of) /\ j.step \in ItemSteps
    BY <2>1, JobFields DEF ItemSteps
  <2>3. [j EXCEPT !.tries = @ + 1] = [step |-> j.step, kind |-> KindOf(j.of), of |-> j.of, tries |-> j.tries + 1]
    BY <2>2
  <2>4. j.tries + 1 \in 0..MaxRetry
    BY <2>1, PipelineAssumption
  <2>5. PICK k \in Job : k = [j EXCEPT !.tries = @ + 1] /\ k.step \in ItemSteps /\ k.of = j.of
    BY <2>2, <2>3, <2>4, JobOfItem
  <2>6. queue' = Pushed({k}) /\ exhausted' = exhausted
    BY <1>2, <1>3, <2>5 DEF Fail
  <2>7. AtCall(w, j.of)
    BY <1>1, <1>2, <2>2 DEF AtCall
  <2>8. QED
    BY <1>1, <2>2, <2>5, <2>6, <2>7, RequeueItems
<1>4. CASE ~(j.tries < Retries(j.step))
  <2>1. queue' = queue /\ exhausted' = exhausted \cup ({j.of} \cap Id)
    BY <1>2, <1>4 DEF Fail
  <2>2. CASE j.step \in ItemSteps
    <3>1. j.of \in Id /\ AtCall(w, j.of)
      BY <1>1, <1>2, <2>2, JobFields DEF AtCall, ItemSteps
    <3>2. exhausted' = exhausted \cup {j.of}
      BY <2>1, <3>1
    <3>3. QED
      BY <1>1, <2>1, <3>1, <3>2, GiveUpItems
  <2>3. CASE j.step \notin ItemSteps
    <3>1. j.step \in ListSteps /\ (j.of = "cluster" \/ j.of \in Namespace)
      BY <2>3, JobFields DEF ListSteps
    <3>2. j.of \notin Id
      BY <3>1, KindOfItem
    <3>3. exhausted' = exhausted
      BY <2>1, <3>2
    <3>4. QED
      BY <1>1, <1>2, <2>1, <3>1, <3>3, DropItems
  <2>4. QED
    BY <2>2, <2>3
<1>5. QED
  BY <1>3, <1>4

LEMMA OptimizeLazyItems ==
  ASSUME IInv, Items, NEW w \in Worker, OptimizeLazy(w)
  PROVE  Items'
<1> USE DEF IInv
<1>1. /\ work[w].stage = "call" /\ work[w].job.step = "optimize" /\ work' = [work EXCEPT ![w] = Free]
      /\ UNCHANGED <<items, counter, published, summary, reeval, asked, prefs, exhausted, raced>>
  BY DEF OptimizeLazy, Running
<1>2. PICK i \in Id : i = work[w].job.of
  BY <1>1, JobFields DEF TypeOK, Task, ItemSteps
<1>3. PICK k \in Job : /\ k = ItemJob(FirstStep(work[w].job.kind), i) /\ k.step \in ItemSteps /\ k.of = i
  <2>1. FirstStep(work[w].job.kind) \in ItemSteps
    BY DEF FirstStep, ItemSteps
  <2>2. QED
    BY <2>1, JobPushed DEF ItemJob, NewJob
<1>4. queue' = Pushed({k}) /\ AtCall(w, i)
  BY <1>1, <1>2, <1>3 DEF OptimizeLazy, AtCall, ItemSteps
<1>5. QED
  BY <1>1, <1>3, <1>4, RequeueItems

LEMMA OptimizeJobPanicsItems ==
  ASSUME IInv, Items, NEW w \in Worker, OptimizeJobPanics(w)
  PROVE  Items'
<1>1. AtCall(w, IdOf(w)) /\ IdOf(w) \in Id
  <2>1. work[w].stage = "call" /\ work[w].job.step = "optimize" /\ IdOf(w) = work[w].job.of
    BY DEF OptimizeJobPanics, At, Running, IdOf, Lists
  <2>2. AtCall(w, IdOf(w))
    BY <2>1 DEF AtCall, ItemSteps
  <2>3. QED
    BY <2>2, AtOne DEF IInv
<1>2. QED
  BY <1>1, GiveUpItems DEF OptimizeJobPanics

--------------------------------------------------------------------------------
(* Steps that store an item.                                                 *)

\* Whether a job follows.
LEMMA FollowerCases ==
  ASSUME NEW w \in Worker
  PROVE  /\ work[w].job.step = "list" =>
              (Follower(w) # {} <=> work[w].item.loading /\ ~work[w].item.skipped)
         /\ work[w].job.step = "pods" => (Follower(w) # {} <=> IdOf(w) \notin Elsewhere)
         /\ work[w].job.step = "metrics" => (Follower(w) # {} <=> ~work[w].item.skipped)
         /\ work[w].job.step \in {"optimize", "report", "namespaces"} => Follower(w) = {}
BY DEF Follower

LEMMA StoreEffect ==
  ASSUME TypeOK, Stages, NEW w \in Worker, NEW item \in Item, Store(w, item),
         Begun(w) \/ (work[w].stage = "call" /\ work[w].job.step \in ItemSteps),
         work[w].stage # "record"
  PROVE  /\ items' = [items EXCEPT ![IdOf(w)] = item]
         /\ \A v \in Worker \ {w} : work'[v] = work[v]
         /\ work'[w].stage = "publish" /\ work'[w].job = work[w].job /\ work'[w].item = item /\ IdOf(w)' = IdOf(w)
         /\ \A i \in Id : /\ ~AtCall(w, i)'
                          /\ AtEnd(w, i)' <=> i = IdOf(w)
                          /\ ToShow(w, i)' <=> Lists(w) /\ i = IdOf(w)
                          /\ Early(w, i)' => Early(w, i)
<1>1. work[w] \in Task /\ work \in [Worker -> Task] /\ items \in [Id -> Item] /\ IdOf(w) \in Id
  BY AtItem DEF TypeOK
<1>2. PICK x \in [Worker -> Task] : x = [work EXCEPT ![w].stage = "publish"]
  <2>1. [work[w] EXCEPT !.stage = "publish"] \in Task
    BY <1>1 DEF Task
  <2>2. QED
    BY <1>1, <2>1
<1>3. /\ x[w] = [work[w] EXCEPT !.stage = "publish"]
      /\ \A v \in Worker \ {w} : x[v] = work[v]
  BY <1>1, <1>2
<1>4. x[w] \in Task /\ x[w].stage = "publish" /\ x[w].job = work[w].job /\ x[w].rest = work[w].rest
  BY <1>1, <1>2, <1>3 DEF Task
<1>5. work' = [x EXCEPT ![w].item = item] /\ items' = [items EXCEPT ![IdOf(w)] = item]
  BY <1>1, <1>2 DEF Store
<1>6. work'[w] = [x[w] EXCEPT !.item = item] /\ \A v \in Worker \ {w} : work'[v] = work[v]
  BY <1>2, <1>3, <1>5
<1>7. /\ work'[w].stage = "publish" /\ work'[w].job = work[w].job /\ work'[w].rest = work[w].rest
      /\ work'[w].item = item
  BY <1>4, <1>6 DEF Task
<1>8. IdOf(w)' = IdOf(w) /\ (Lists(w)' <=> Lists(w)) /\ Begun(w)'
  BY <1>7 DEF IdOf, Lists, Begun
<1>9. ASSUME NEW i \in Id PROVE ~AtCall(w, i)' /\ (AtEnd(w, i)' <=> i = IdOf(w)) /\ (ToShow(w, i)' <=> Lists(w) /\ i = IdOf(w))
  BY <1>7, <1>8 DEF AtCall, AtEnd, ToShow
<1>10. ASSUME NEW i \in Id PROVE Early(w, i)' => Early(w, i)
  <2>1. Foreseen(w, i)' <=> Foreseen(w, i)
    BY <1>7, <1>8, SameItems
  <2>2. Lists(w) => Begun(w)
    BY DEF Lists, ItemSteps
  <2>3. ToShow(w, i)' => ToShow(w, i)
    BY <1>9, <2>2 DEF ToShow
  <2>4. QED
    BY <2>1, <2>3 DEF Early
<1>11. QED
  BY <1>5, <1>6, <1>7, <1>8, <1>9, <1>10

\* What the step has nothing to do with.
LEMMA StoreBeside ==
  ASSUME IInv, Items, NEW w \in Worker, NEW item \in Item, Store(w, item),
         Begun(w) \/ (work[w].stage = "call" /\ work[w].job.step \in ItemSteps),
         work[w].stage # "record",
         UNCHANGED <<counter, published, summary, queue, reeval, asked, prefs, exhausted, raced>>
  PROVE  Moves(w) /\ \A i \in Id \ {IdOf(w)} : ItemInv(i)'
<1> USE DEF IInv
<1>1. /\ items' = [items EXCEPT ![IdOf(w)] = item] /\ items \in [Id -> Item]
      /\ \A v \in Worker \ {w} : work'[v] = work[v]
      /\ work'[w].job = work[w].job
      /\ \A i \in Id : ~AtCall(w, i)' /\ (AtEnd(w, i)' <=> i = IdOf(w)) /\ (Early(w, i)' => Early(w, i))
  BY StoreEffect DEF TypeOK
<1>2. EarlyKept
  BY <1>1, KeepsEarly
<1>3. Moves(w)
  BY <1>1, <1>2 DEF Moves
<1>4. ASSUME NEW i \in Id \ {IdOf(w)} PROVE ItemInv(i)'
  <2>1. ~AtCall(w, i) /\ ~AtEnd(w, i) /\ ~AtCall(w, i)' /\ ~AtEnd(w, i)'
    BY <1>1, AtOne
  <2>2. Untouched(i)
    BY <1>1, <1>3, <2>1, Beside
  <2>3. QED
    BY <2>2, Frame DEF Items
<1>5. QED
  BY <1>3, <1>4

\* A listing, or a report, stores an item for the first time.
LEMMA StoreNewItems ==
  ASSUME IInv, Items, NEW w \in Worker, NEW item \in Item, Store(w, item),
         work[w].stage \in {"store", "report"},
         UNCHANGED <<counter, published, summary, queue, reeval, asked, prefs, exhausted, raced>>,
         Shows(item), Settled(item) \/ Follower(w)' # {}, Follower(w)' # {} => item.loading /\ ~item.lazy,
         item.prefs = (IF work[w].stage = "store" THEN Preferences(KindOf(IdOf(w))) ELSE DefaultPreferences),
         ~item.result.ready \/ (work[w].stage = "report" /\ item.result.prefs = DefaultPreferences)
  PROVE  Items'
<1> USE DEF IInv
<1>0. PICK c \in Id : c = IdOf(w)
  BY AtItem DEF Begun
<1>1. Begun(w) /\ Lists(w) /\ c \in Id /\ Attends(w, c) /\ ToShow(w, c)
  <2>1. Begun(w) /\ Lists(w)
    BY DEF Begun, Lists, Stages, StagesOf
  <2>2. QED
    BY <2>1, <1>0, AtItem DEF ToShow
<1>2. /\ items'[c] = item
      /\ \A v \in Worker \ {w} : work'[v] = work[v]
      /\ work'[w].stage = "publish" /\ work'[w].job = work[w].job /\ work'[w].item = item
      /\ ~AtCall(w, c)' /\ AtEnd(w, c)' /\ ToShow(w, c)'
  BY <1>0, <1>1, StoreEffect DEF TypeOK
<1>3. Moves(w) /\ \A i \in Id \ {c} : ItemInv(i)'
  BY <1>0, <1>1, StoreBeside
<1>4. EarlyIn({"namespaces", "list"}, c) \/ EarlyIn({"report"}, c)
  BY <1>1 DEF EarlyIn, Early, Lists
<1>5. ItemInv(c) /\ ~published[c].listed /\ c \notin raced
  BY <1>1, <1>4 DEF Items, ItemInv, Known, EarlyList, EarlyReport
<1>6. /\ \A v \in Worker \ {w} : ~AtCall(v, c) /\ ~AtEnd(v, c) /\ ~AtCall(v, c)' /\ ~AtEnd(v, c)'
      /\ \A j \in Job : ~Waits(j, c) /\ ~Waits(j, c)'
      /\ ~OnReEval(c) /\ ~OnReEval(c)'
  <2>1. \A v \in Worker \ {w} : ~AtCall(v, c) /\ ~AtEnd(v, c)
    BY <1>1, <1>5, InOneHand
  <2>2. \A j \in Job : ~Waits(j, c)
    BY <1>1, <1>5, InOneHand
  <2>3. ~OnReEval(c)
    BY <1>1, <1>5, InOneHand
  <2>4. QED
    BY <1>2, <2>1, <2>2, <2>3, SameWorker DEF Waits, OnReEval
<1>7. Going(c)' <=> Follower(w)' # {}
  BY <1>2, <1>6 DEF Going
<1>8. Known(c)'
  BY <1>2, <1>5, <1>6 DEF Known, Shows
<1>9. Solid(c)'
  BY <1>2, <1>5, <1>6, <1>7 DEF Solid
<1>10. Settles(c)'
  BY <1>2, <1>7 DEF Settles, InProgress
<1>11. Current(c)'
  BY <1>2, <1>6, <1>7 DEF Current
<1>12. work[w].job.step # "pods"
  BY <1>1 DEF Lists
<1>13. Visible(c)'
  BY <1>2, <1>12 DEF Visible
<1>14. Preferred(c)'
  <2>1. Current(c) /\ Preferred(c)
    BY <1>5 DEF ItemInv
  <2>2. Early(w, c)
    BY <1>1 DEF Early
  <2>3. work[w].stage = "store" => EarlyList(c)
    BY <2>2 DEF EarlyList, EarlyIn, Stages, StagesOf
  <2>4. work[w].stage = "report" => EarlyReport(c)
    BY <2>2 DEF EarlyReport, EarlyIn, Stages, StagesOf
  <2>5. item.prefs = prefs[c]
    BY <1>0, <2>1, <2>3, <2>4 DEF Preferred
  <2>6. prefs' = prefs /\ (EarlyList(c)' => EarlyList(c)) /\ (EarlyReport(c)' => EarlyReport(c))
    BY <1>1, <1>3 DEF Moves, EarlyKept
  <2>7. ~item.result.ready \/ item.result.prefs = prefs[c]
    BY <2>1, <2>4 DEF Preferred
  <2>8. QED
    BY <1>2, <2>1, <2>5, <2>6, <2>7 DEF Preferred
<1>15. ItemInv(c)'
  BY <1>8, <1>9, <1>10, <1>11, <1>13, <1>14 DEF ItemInv
<1>16. QED
  BY <1>3, <1>15 DEF Items

\* A job of an item stores its copy of the item.
LEMMA StoreCopyItems ==
  ASSUME IInv, Items, NEW w \in Worker, NEW item \in Item, Store(w, item),
         work[w].stage = "call", work[w].job.step \in ItemSteps,
         UNCHANGED <<counter, published, summary, queue, reeval, asked, prefs, exhausted, raced>>,
         Shows(item), ~item.lazy, Settled(item) \/ Follower(w)' # {},
         item.prefs = work[w].item.prefs,
         Follower(w)' # {} => item.loading = work[w].item.loading,
         work[w].job.step = "pods" => item.result = work[w].item.result,
         \/ item.result.prefs = item.prefs
         \/ item.skipped
         \/ Follower(w)' # {}
  PROVE  Items'
<1> USE DEF IInv
<1>0. PICK c \in Id : c = IdOf(w)
  BY AtItem
<1>1. ~Lists(w) /\ c \in Id /\ Attends(w, c) /\ AtCall(w, c) /\ ~AtEnd(w, c)
  <2>1. ~Lists(w) /\ AtCall(w, c)
    BY <1>0 DEF Lists, ItemSteps, AtCall, IdOf
  <2>2. QED
    BY <2>1, <1>0, AtItem DEF AtCall, AtEnd
<1>2. /\ items'[c] = item
      /\ \A v \in Worker \ {w} : work'[v] = work[v]
      /\ work'[w].stage = "publish" /\ work'[w].job = work[w].job /\ work'[w].item = item
      /\ ~AtCall(w, c)' /\ AtEnd(w, c)'
  BY <1>0, <1>1, StoreEffect DEF TypeOK
<1>3. Moves(w) /\ \A i \in Id \ {c} : ItemInv(i)'
  BY <1>0, <1>1, StoreBeside
<1>4. ItemInv(c) /\ (EarlyList(c)' => EarlyList(c)) /\ (EarlyReport(c)' => EarlyReport(c))
  BY <1>1, <1>3 DEF Items, Moves, EarlyKept
<1>5. \A v \in Worker \ {w} : /\ AtCall(v, c)' <=> AtCall(v, c)
                              /\ AtEnd(v, c)' <=> AtEnd(v, c)
                              /\ ToShow(v, c)' <=> ToShow(v, c)
                              /\ work'[v] = work[v]
  BY <1>2, SameWorker
<1>6. (OnReEval(c)' <=> OnReEval(c)) /\ \A j \in Job : Waits(j, c)' <=> Waits(j, c)
  BY DEF OnReEval, Waits
<1>7. Follower(w)' # {} => Going(c)'
  BY <1>2 DEF Going
<1>8. published[c].listed
  BY <1>1, <1>4 DEF ItemInv, Known
<1>9. Known(c)'
  BY <1>2, <1>4, <1>5, <1>6, <1>8 DEF ItemInv, Known, Shows
<1>10. Solid(c)'
  BY <1>2, <1>4, <1>5, <1>6 DEF ItemInv, Solid
<1>11. Settles(c)'
  BY <1>2, <1>7 DEF Settles, InProgress
<1>12. ASSUME c \notin raced' PROVE Current(c)' /\ Visible(c)' /\ Preferred(c)'
  <2>1. c \notin raced /\ Current(c) /\ Visible(c) /\ Preferred(c)
    BY <1>4, <1>12 DEF ItemInv
  <2>2. /\ \A v \in Worker \ {w} : ~AtCall(v, c) /\ ~AtEnd(v, c)
        /\ \A j \in Job : ~Waits(j, c)
        /\ ~OnReEval(c)
    <3>1. c \in Id \ raced
      BY <1>1, <2>1
    <3>2. QED
      BY <1>1, <3>1, InOneHand
  <2>3. work[w].item = items[c] /\ items[c].loading /\ items[c].prefs = prefs[c]
    <3>1. Going(c)
      BY <1>1 DEF Going
    <3>2. work[w].item = items[c] /\ items[c].loading
      BY <1>1, <2>1, <3>1 DEF Current
    <3>3. items[c].listed
      BY <1>4, <1>8 DEF ItemInv, Known
    <3>4. QED
      BY <2>1, <2>2, <3>2, <3>3 DEF Preferred
  <2>4. Going(c)' <=> Follower(w)' # {}
    BY <1>2, <1>5, <1>6, <2>2 DEF Going
  <2>5. Current(c)'
    BY <1>2, <1>5, <1>6, <2>2, <2>3, <2>4 DEF Current
  <2>6. Visible(c)'
    <3>1. work[w].job.step = "pods" => (item.result.ready => summary[c] = item.result)
      BY <1>1, <2>1, <2>2, <2>3 DEF Visible
    <3>2. QED
      BY <1>2, <3>1 DEF Visible
  <2>7. Preferred(c)'
    BY <1>2, <1>4, <1>7, <2>1, <2>3 DEF Preferred, InProgress
  <2>8. QED
    BY <2>5, <2>6, <2>7
<1>13. ItemInv(c)'
  BY <1>9, <1>10, <1>11, <1>12 DEF ItemInv
<1>14. QED
  BY <1>3, <1>13 DEF Items

LEMMA FollowerNext ==
  ASSUME NEW w \in Worker, work'[w].job = work[w].job, IdOf(w)' = IdOf(w)
  PROVE  /\ work[w].job.step = "list" =>
              (Follower(w)' # {} <=> work'[w].item.loading /\ ~work'[w].item.skipped)
         /\ work[w].job.step = "pods" => (Follower(w)' # {} <=> IdOf(w) \notin Elsewhere)
         /\ work[w].job.step = "metrics" => (Follower(w)' # {} <=> ~work'[w].item.skipped)
         /\ work[w].job.step \in {"optimize", "report", "namespaces"} => Follower(w)' = {}
BY DEF Follower

LEMMA StoreItemItems ==
  ASSUME IInv, Items, NEW w \in Worker, StoreItem(w, KindOf(IdOf(w)), Unavailable(IdOf(w)))
  PROVE  Items'
<1> USE DEF IInv
<1>1. work[w].stage = "store" /\ work[w].job.step = "list" /\ Begun(w) /\ IdOf(w) \in Id
  BY AtItem DEF StoreItem, Begun, Stages, StagesOf
<1>2. PICK k \in Kind, u \in BOOLEAN : k = KindOf(IdOf(w)) /\ u = Unavailable(IdOf(w))
  BY <1>1, KindOfItem, ItemOfReport
<1>3. PICK lazy \in BOOLEAN : lazy = (counter > LazyLoad)
  <2>1. (counter > LazyLoad) \in BOOLEAN
    BY PipelineAssumption DEF TypeOK
  <2>2. QED
    BY <2>1, Zenon
<1>4. PICK item \in Item :
        item = [NoItem EXCEPT !.listed = TRUE, !.loading = ~lazy, !.lazy = lazy,
                              !.prefs = Preferences(k), !.skipped = u]
  BY NewItem
<1>5. Store(w, item) /\ UNCHANGED <<counter, published, summary, queue, reeval, asked, prefs, exhausted, raced>>
  BY <1>2, <1>3, <1>4 DEF StoreItem
<1>6. /\ item.listed /\ item.loading = ~lazy /\ item.lazy = lazy /\ item.prefs = Preferences(k) /\ item.skipped = u
      /\ ~item.result.ready
  BY <1>4, FreeTask DEF NoItem, NoResult
<1>7. work'[w].item = item /\ work'[w].job = work[w].job /\ IdOf(w)' = IdOf(w)
  BY <1>1, <1>5, StoreEffect
<1>8. Follower(w)' # {} <=> ~lazy /\ ~u
  BY <1>1, <1>6, <1>7, FollowerNext
<1>9. Shows(item) /\ (Settled(item) \/ Follower(w)' # {}) /\ (Follower(w)' # {} => item.loading /\ ~item.lazy)
  BY <1>6, <1>8 DEF Shows, Settled
<1>10. QED
  BY <1>1, <1>2, <1>5, <1>6, <1>9, StoreNewItems

LEMMA StoreReportedItems ==
  ASSUME IInv, Items, NEW w \in Worker, NEW kind, NEW wanted \in BOOLEAN, StoreReported(w, kind, wanted)
  PROVE  Items'
<1> USE DEF IInv
<1>1. /\ work[w].stage = "report" /\ work[w].job.step = "report" /\ Begun(w) /\ IdOf(w) \in Id
      /\ UNCHANGED <<counter, published, summary, queue, reeval, asked, prefs, exhausted, raced>>
  BY AtItem DEF StoreReported, Begun, Stages, StagesOf
<1>2. CASE IdOf(w) \in Malformed
  BY <1>1, <1>2, DropItems DEF StoreReported
<1>3. CASE IdOf(w) \notin Malformed /\ ~wanted
  BY <1>1, <1>3, AdvanceItems DEF StoreReported
<1>4. CASE IdOf(w) \notin Malformed /\ wanted
  <2>1. PICK item \in Item : item = ReportedItem(IdOf(w))
    BY <1>1, ItemOfReport
  <2>2. Store(w, item)
    BY <1>4, <2>1 DEF StoreReported
  <2>3. PICK u \in BOOLEAN : u = Unavailable(IdOf(w))
    BY <1>1, ItemOfReport
  <2>4. /\ item.listed /\ item.loading = u /\ item.skipped = u /\ ~item.lazy /\ item.prefs = DefaultPreferences
        /\ item.result = IF u THEN NoResult ELSE [ready |-> TRUE, prefs |-> DefaultPreferences, metrics |-> "points"]
    BY <2>1, <2>3, FreeTask DEF ReportedItem, NoItem
  <2>5. /\ ~u => item.result.ready
        /\ item.result.prefs = DefaultPreferences
    BY <2>4 DEF NoResult
  <2>6. work'[w].item = item /\ work'[w].job = work[w].job /\ IdOf(w)' = IdOf(w)
    BY <1>1, <2>2, StoreEffect
  <2>7. Follower(w)' = {}
    BY <1>1, <2>6, FollowerNext
  <2>8. Shows(item) /\ Settled(item)
    BY <2>4, <2>5 DEF Shows, Settled
  <2>9. QED
    BY <1>1, <2>2, <2>4, <2>5, <2>7, <2>8, StoreNewItems
<1>5. QED
  BY <1>2, <1>3, <1>4

\* The copy of its item that a job of an item has.
LEMMA CopyAtCall ==
  ASSUME IInv, Items, NEW w \in Worker, work[w].stage = "call", work[w].job.step \in ItemSteps
  PROVE  /\ Shows(work[w].item) /\ (work[w].item.lazy => work[w].item.loading)
         /\ work[w].item \in Item /\ IdOf(w) \in Id
<1>1. AtCall(w, IdOf(w))
  BY DEF AtCall, IdOf, Lists, ItemSteps
<1>2. IdOf(w) \in Id
  BY <1>1, AtOne DEF IInv
<1>3. QED
  BY <1>1, <1>2 DEF Items, ItemInv, Solid, IInv, TypeOK, Task

LEMMA ListPodsItems ==
  ASSUME IInv, Items, NEW w \in Worker, NEW kind, ListPods(w, kind)
  PROVE  Items'
<1> USE DEF IInv
<1>1. /\ work[w].stage = "call" /\ work[w].job.step = "pods" /\ work[w].job.step \in ItemSteps
      /\ UNCHANGED <<counter, published, summary, queue, reeval, asked, prefs, exhausted, raced>>
  BY DEF ListPods, At, Running, ItemSteps
<1>2. PICK old \in Item : old = work[w].item /\ Shows(old) /\ (old.lazy => old.loading)
  BY <1>1, CopyAtCall
<1>3. PICK item \in Item : /\ item = [old EXCEPT !.lazy = FALSE, !.skipped = @ \/ IdOf(w) \in Elsewhere]
  BY <1>2, LocalItem
<1>4. /\ ~item.lazy /\ (item.skipped <=> old.skipped \/ IdOf(w) \in Elsewhere) /\ item.prefs = old.prefs
      /\ item.loading = old.loading /\ item.result = old.result /\ item.listed = old.listed
  BY <1>3 DEF Item
<1>5. Store(w, item)
  BY <1>2, <1>3 DEF ListPods
<1>6. work'[w].item = item /\ work'[w].job = work[w].job /\ IdOf(w)' = IdOf(w)
  BY <1>1, <1>5, StoreEffect
<1>7. Follower(w)' # {} <=> IdOf(w) \notin Elsewhere
  BY <1>1, <1>6, FollowerNext
<1>8. Shows(item) /\ (Settled(item) \/ Follower(w)' # {}) /\ (item.skipped \/ Follower(w)' # {})
  BY <1>2, <1>4, <1>7 DEF Shows, Settled
<1>9. QED
  BY <1>1, <1>2, <1>4, <1>5, <1>8, StoreCopyItems

LEMMA GetMetricsItems ==
  ASSUME IInv, Items, NEW w \in Worker, NEW kind, GetMetrics(w, kind)
  PROVE  Items'
<1> USE DEF IInv
<1>1. /\ work[w].stage = "call" /\ work[w].job.step = "metrics" /\ work[w].job.step \in ItemSteps
      /\ UNCHANGED <<counter, published, summary, queue, reeval, asked, prefs, exhausted, raced>>
  BY DEF GetMetrics, At, Running, ItemSteps
<1>2. PICK old \in Item : old = work[w].item /\ Shows(old) /\ (old.lazy => old.loading)
  BY <1>1, CopyAtCall
<1>3. PICK m \in Measure, item \in Item : /\ item = [old EXCEPT !.metrics = m, !.lazy = FALSE]
                                         /\ Store(w, item)
  BY <1>2, LocalItem, MetricsStored
<1>4. /\ ~item.lazy /\ item.skipped = old.skipped /\ item.prefs = old.prefs
      /\ item.loading = old.loading /\ item.result = old.result /\ item.listed = old.listed
  BY <1>3 DEF Item
<1>5. work'[w].item = item /\ work'[w].job = work[w].job /\ IdOf(w)' = IdOf(w)
  BY <1>1, <1>3, StoreEffect
<1>6. Follower(w)' # {} <=> ~item.skipped
  BY <1>1, <1>5, FollowerNext
<1>7. Shows(item) /\ (Settled(item) \/ Follower(w)' # {}) /\ (item.skipped \/ Follower(w)' # {})
  BY <1>2, <1>4, <1>6 DEF Shows, Settled
<1>8. QED
  BY <1>1, <1>2, <1>3, <1>4, <1>7, StoreCopyItems

LEMMA OptimizeItems ==
  ASSUME IInv, Items, NEW w \in Worker, NEW kind, Optimize(w, kind)
  PROVE  Items'
<1> USE DEF IInv
<1>1. /\ work[w].stage = "call" /\ work[w].job.step = "optimize" /\ work[w].job.step \in ItemSteps
      /\ ~work[w].item.lazy
      /\ UNCHANGED <<counter, published, summary, queue, reeval, asked, prefs, exhausted, raced>>
  BY DEF Optimize, At, Running, ItemSteps
<1>2. PICK old \in Item : old = work[w].item /\ Shows(old) /\ ~old.lazy
  BY <1>1, CopyAtCall
<1>3. PICK r : r = [ready |-> TRUE, prefs |-> old.prefs, metrics |-> old.metrics]
  OBVIOUS
<1>4. PICK item \in Item : item = [old EXCEPT !.loading = FALSE, !.skipped = FALSE, !.result = r]
  BY <1>2, <1>3, LocalItem
<1>5. /\ ~item.lazy /\ ~item.skipped /\ item.prefs = old.prefs
      /\ ~item.loading /\ item.result = r /\ item.listed = old.listed
      /\ r.ready /\ r.prefs = old.prefs
  BY <1>2, <1>3, <1>4 DEF Item
<1>6. Store(w, item)
  BY <1>2, <1>3, <1>4 DEF Optimize
<1>7. work'[w].item = item /\ work'[w].job = work[w].job /\ IdOf(w)' = IdOf(w)
  BY <1>1, <1>6, StoreEffect
<1>8. Follower(w)' = {}
  BY <1>1, <1>7, FollowerNext
<1>9. Shows(item) /\ Settled(item)
  BY <1>2, <1>5 DEF Shows, Settled
<1>10. QED
  BY <1>1, <1>2, <1>5, <1>6, <1>8, <1>9, StoreCopyItems

--------------------------------------------------------------------------------
(* Steps that publish and record.                                            *)

\* The job that follows is pushed, if there is one.
LEMMA FollowerPushed ==
  ASSUME TypeOK, Stages, NEW w \in Worker, Begun(w), NEW c \in Id, c = IdOf(w), queue' = Pushed(Follower(w))
  PROVE  /\ \A j \in Job : j.step \notin ItemSteps \/ j.of # c => queue'[j] = queue[j]
         /\ \A j \in Job : Waits(j, c)' => Waits(j, c) \/ Follower(w) # {}
         /\ \A j \in Job : Waits(j, c) => Waits(j, c)'
         /\ Follower(w) # {} => \E j \in Job : Waits(j, c)'
<1>1. /\ Follower(w) \subseteq Job
      /\ \A j \in Follower(w) : j.step \in ItemSteps /\ j.of = c
  BY FollowerJobs
<1>2. queue \in [Job -> Nat] /\ \A j \in Job : queue'[j] = IF j \in Follower(w) THEN queue[j] + 1 ELSE queue[j]
  BY DEF TypeOK, Pushed
<1>3. \A j \in Job : j.step \notin ItemSteps \/ j.of # c => queue'[j] = queue[j]
  BY <1>1, <1>2
<1>4. \A j \in Job : Waits(j, c)' => Waits(j, c) \/ Follower(w) # {}
  BY <1>2 DEF Waits
<1>5. \A j \in Job : Waits(j, c) => Waits(j, c)'
  <2>1. \A j \in Job : queue[j] > 0 => queue'[j] > 0
    BY <1>2
  <2>2. QED
    BY <2>1 DEF Waits
<1>6. Follower(w) # {} => \E j \in Job : Waits(j, c)'
  <2>1. \A j \in Follower(w) : queue'[j] > 0
    BY <1>1, <1>2
  <2>2. QED
    BY <1>1, <2>1 DEF Waits
<1>7. QED
  BY <1>3, <1>4, <1>5, <1>6

LEMMA RecordItems ==
  ASSUME IInv, Items, NEW w \in Worker, Record(w)
  PROVE  Items'
<1> USE DEF IInv
<1>1. /\ Begun(w) /\ work[w].stage = "record" /\ work' = [work EXCEPT ![w] = NextTask(w)]
      /\ queue' = Pushed(Follower(w))
      /\ UNCHANGED <<items, counter, published, reeval, asked, prefs, exhausted, raced>>
  BY DEF Record, Begun
<1>2. PICK c \in Id : c = IdOf(w)
  BY <1>1, AtItem
<1>3. /\ \A v \in Worker \ {w} : work'[v] = work[v]
      /\ \A i \in Id : ~AtCall(w, i)' /\ ~AtEnd(w, i)'
      /\ \A i \in Id : Early(w, i)' => Early(w, i) /\ work'[w].job.step = work[w].job.step
  BY <1>1, AdvancedEffect
<1>4. /\ AtEnd(w, c) /\ ~ToShow(w, c) /\ Attends(w, c)
      /\ \A i \in Id : ~AtCall(w, i) /\ (AtEnd(w, i) <=> i = c)
  BY <1>1, <1>2, AtOne DEF AtEnd, AtCall, ToShow
<1>5. /\ \A j \in Job : j.step \notin ItemSteps \/ j.of # c => queue'[j] = queue[j]
      /\ \A j \in Job : Waits(j, c)' => Waits(j, c) \/ Follower(w) # {}
      /\ \A j \in Job : Waits(j, c) => Waits(j, c)'
      /\ Follower(w) # {} => \E j \in Job : Waits(j, c)'
  BY <1>1, <1>2, FollowerPushed
<1>6. EarlyKept
  <2>1. \A j \in Job, i \in Id : queue'[j] > 0 /\ Foretold(j, i) => queue[j] > 0
    BY <1>5, ConcernsOwn
  <2>2. QED
    BY <1>3, <2>1, KeepsEarly
<1>7. Moves(w)
  BY <1>1, <1>3, <1>6 DEF Moves
<1>8. summary \in [Id -> Result]
  BY DEF TypeOK
<1>9. ASSUME NEW i \in Id \ {c} PROVE ItemInv(i)'
  <2>1. summary'[i] = summary[i]
    BY <1>2, <1>8 DEF Record
  <2>2. \A j \in Job : j.step \in ItemSteps /\ j.of = i => queue'[j] = queue[j]
    BY <1>5
  <2>3. Untouched(i)
    BY <1>1, <1>3, <1>4, <1>7, <2>1, <2>2, Beside
  <2>4. QED
    BY <2>3, Frame DEF Items
<1>10. ItemInv(c)'
  <2>1. \A v \in Worker \ {w} : /\ AtCall(v, c)' <=> AtCall(v, c)
                                /\ AtEnd(v, c)' <=> AtEnd(v, c)
                                /\ ToShow(v, c)' <=> ToShow(v, c)
                                /\ Follower(v)' = Follower(v)
                                /\ work'[v] = work[v]
    BY <1>3, SameWorker
  <2>2. OnReEval(c)' <=> OnReEval(c)
    BY <1>1 DEF OnReEval
  <2>3. ItemInv(c) /\ (EarlyList(c)' => EarlyList(c)) /\ (EarlyReport(c)' => EarlyReport(c))
    BY <1>6 DEF Items, EarlyKept
  <2>4. Going(c)' <=> Going(c)
    BY <1>3, <1>4, <1>5, <2>1 DEF Going
  <2>5. published[c].listed
    BY <1>4, <2>3 DEF ItemInv, Known
  <2>6. Known(c)'
    BY <1>1, <1>3, <2>1, <2>2, <2>3, <2>5 DEF ItemInv, Known
  <2>7. Solid(c)'
    BY <1>1, <1>3, <2>1, <2>2, <2>3, <2>4 DEF ItemInv, Solid
  <2>8. Settles(c)'
    BY <1>1, <2>2, <2>3, <2>4 DEF ItemInv, Settles, InProgress
  <2>9. ASSUME c \notin raced' PROVE Current(c)' /\ Visible(c)' /\ Preferred(c)'
    <3>1. c \notin raced /\ Current(c) /\ Visible(c) /\ Preferred(c)
      BY <1>1, <2>3, <2>9 DEF ItemInv
    <3>2. \A v \in Worker \ {w} : ~AtEnd(v, c)
      <4>1. c \in Id \ raced
        BY <3>1
      <4>2. QED
        BY <1>4, <4>1, InOneHand
    <3>3. Current(c)'
      BY <1>1, <1>3, <2>1, <2>2, <2>4, <3>1 DEF Current
    <3>4. Visible(c)'
      <4>1. [published[c] EXCEPT !.lazy = items[c].lazy] = items[c] \/ (OnReEval(c) /\ reeval.stage = "stored")
        BY <1>1, <3>1, <3>2 DEF Visible
      <4>2. work[w].latest = items[c].result
        BY <1>1, <1>4, <3>1 DEF Current
      <4>3. items[c].result.ready => summary'[c] = items[c].result
        BY <1>2, <1>8, <4>2 DEF Record
      <4>4. QED
        BY <1>1, <2>2, <4>1, <4>3 DEF Visible
    <3>5. Preferred(c)'
      BY <1>1, <2>2, <2>3, <2>4, <3>1 DEF Preferred, InProgress
    <3>6. QED
      BY <3>3, <3>4, <3>5
  <2>10. QED
    BY <2>6, <2>7, <2>8, <2>9 DEF ItemInv
<1>11. QED
  BY <1>9, <1>10 DEF Items

\* What a worker that publishes does to the other workers, and to itself.
LEMMA PublishEffect ==
  ASSUME TypeOK, Stages, NEW w \in Worker, Publish(w), NEW c \in Id, c = IdOf(w)
  PROVE  /\ published'[c] = work[w].item /\ \A i \in Id \ {c} : published'[i] = published[i]
         /\ \A v \in Worker \ {w} : work'[v] = work[v]
         /\ \A i \in Id : ~AtCall(w, i)' /\ ~ToShow(w, i)' /\ (Early(w, i)' => Foreseen(w, i) /\ work'[w].job.step = work[w].job.step)
         /\ \/ /\ work[w].job.step = "pods" /\ queue' = Pushed(Follower(w))
               /\ \A i \in Id : ~AtEnd(w, i)'
            \/ /\ work[w].job.step # "pods" /\ queue' = queue
               /\ \A i \in Id : AtEnd(w, i)' <=> i = c
               /\ work'[w].stage = "record" /\ work'[w].job = work[w].job /\ work'[w].item = work[w].item
               /\ work'[w].latest = items[c].result /\ Follower(w)' = Follower(w)
<1>1. /\ Begun(w) /\ work[w].stage = "publish"
      /\ published' = [published EXCEPT ![c] = work[w].item] /\ published \in [Id -> Item]
  BY DEF Publish, Begun, TypeOK
<1>2. CASE work[w].job.step = "pods"
  <2>1. queue' = Pushed(Follower(w)) /\ work' = [work EXCEPT ![w] = Free]
    BY <1>2 DEF Publish
  <2>2. /\ \A v \in Worker \ {w} : work'[v] = work[v]
        /\ \A i \in Id : ~AtCall(w, i)' /\ ~AtEnd(w, i)' /\ ~Early(w, i)'
    BY <2>1, FreedEffect
  <2>3. QED
    BY <1>1, <1>2, <2>1, <2>2 DEF Early
<1>3. CASE work[w].job.step # "pods"
  <2>1. work[w] \in Task /\ work \in [Worker -> Task]
    BY DEF TypeOK
  <2>2. PICK latest \in Result : latest = items[c].result
    BY DEF TypeOK, Item
  <2>3. PICK x \in [Worker -> Task] : x = [work EXCEPT ![w].stage = "record"]
    <3>1. [work[w] EXCEPT !.stage = "record"] \in Task
      BY <2>1 DEF Task
    <3>2. QED
      BY <2>1, <3>1
  <2>4. /\ x[w] = [work[w] EXCEPT !.stage = "record"]
        /\ \A v \in Worker \ {w} : x[v] = work[v]
    BY <2>1, <2>3
  <2>5. /\ x[w] \in Task /\ x[w].stage = "record" /\ x[w].job = work[w].job /\ x[w].rest = work[w].rest
        /\ x[w].item = work[w].item
    BY <2>1, <2>3, <2>4 DEF Task
  <2>6. work' = [x EXCEPT ![w].latest = latest] /\ queue' = queue
    BY <1>3, <2>1, <2>2, <2>3 DEF Publish
  <2>7. work'[w] = [x[w] EXCEPT !.latest = latest] /\ \A v \in Worker \ {w} : work'[v] = work[v]
    BY <2>3, <2>4, <2>6
  <2>8. /\ work'[w].stage = "record" /\ work'[w].job = work[w].job /\ work'[w].rest = work[w].rest
        /\ work'[w].item = work[w].item /\ work'[w].latest = latest
    BY <2>5, <2>7 DEF Task
  <2>9. IdOf(w)' = c /\ (Lists(w)' <=> Lists(w)) /\ Begun(w)'
    BY <2>8 DEF IdOf, Lists, Begun
  <2>10. Follower(w)' = Follower(w)
    BY <2>8, <2>9 DEF Follower
  <2>11. \A i \in Id : ~AtCall(w, i)' /\ ~ToShow(w, i)' /\ (AtEnd(w, i)' <=> i = c)
    BY <2>8, <2>9 DEF AtCall, ToShow, AtEnd
  <2>12. \A i \in Id : Foreseen(w, i)' <=> Foreseen(w, i)
    BY <1>1, <2>8, <2>9, SameItems
  <2>13. QED
    BY <1>1, <1>3, <2>2, <2>6, <2>7, <2>8, <2>10, <2>11, <2>12 DEF Early
<1>4. QED
  BY <1>2, <1>3

LEMMA PublishItems ==
  ASSUME IInv, Items, NEW w \in Worker, Publish(w)
  PROVE  Items'
<1> USE DEF IInv
<1>1. /\ Begun(w) /\ work[w].stage = "publish"
      /\ UNCHANGED <<items, counter, summary, reeval, asked, prefs, exhausted, raced>>
  BY DEF Publish, Begun
<1>2. PICK c \in Id : c = IdOf(w)
  BY <1>1, AtItem
<1>3. /\ published'[c] = work[w].item /\ \A i \in Id \ {c} : published'[i] = published[i]
      /\ \A v \in Worker \ {w} : work'[v] = work[v]
      /\ \A i \in Id : ~AtCall(w, i)' /\ ~ToShow(w, i)' /\ (Early(w, i)' => Foreseen(w, i) /\ work'[w].job.step = work[w].job.step)
  BY <1>2, PublishEffect
<1>4. \/ /\ work[w].job.step = "pods" /\ queue' = Pushed(Follower(w))
         /\ \A i \in Id : ~AtEnd(w, i)'
      \/ /\ work[w].job.step # "pods" /\ queue' = queue
         /\ \A i \in Id : AtEnd(w, i)' <=> i = c
         /\ work'[w].stage = "record" /\ work'[w].job = work[w].job /\ work'[w].item = work[w].item
         /\ work'[w].latest = items[c].result /\ Follower(w)' = Follower(w)
  BY <1>2, PublishEffect
<1>5. /\ AtEnd(w, c) /\ Attends(w, c) /\ ~Foreseen(w, c)
      /\ \A i \in Id : ~AtCall(w, i) /\ (AtEnd(w, i) <=> i = c)
  BY <1>1, <1>2, AtItem DEF AtEnd, AtCall
<1>6. /\ \A j \in Job : j.step \notin ItemSteps \/ j.of # c => queue'[j] = queue[j]
      /\ \A j \in Job : Waits(j, c)' => Waits(j, c) \/ (work[w].job.step = "pods" /\ Follower(w) # {})
      /\ \A j \in Job : Waits(j, c) => Waits(j, c)'
      /\ work[w].job.step = "pods" /\ Follower(w) # {} => \E j \in Job : Waits(j, c)'
  <2>1. CASE queue' = Pushed(Follower(w)) /\ work[w].job.step = "pods"
    BY <1>1, <1>2, <2>1, FollowerPushed
  <2>2. CASE queue' = queue /\ work[w].job.step # "pods"
    BY <2>2 DEF Waits
  <2>3. QED
    BY <1>4, <2>1, <2>2
<1>7. \A j \in Job, i \in Id : queue'[j] > 0 /\ Foretold(j, i) => queue[j] > 0
  BY <1>6, ConcernsOwn
<1>8. EarlyKept
  BY <1>3, <1>7, KeepsEarly DEF Early
<1>9. Moves(w)
  BY <1>1, <1>3, <1>8 DEF Moves
<1>10. ASSUME NEW i \in Id \ {c} PROVE ItemInv(i)'
  <2>1. ~AtEnd(w, i)' /\ ~AtCall(w, i)'
    BY <1>3, <1>4
  <2>2. \A j \in Job : j.step \in ItemSteps /\ j.of = i => queue'[j] = queue[j]
    BY <1>6
  <2>3. Untouched(i)
    BY <1>1, <1>3, <1>5, <1>9, <2>1, <2>2, Beside
  <2>4. QED
    BY <2>3, Frame DEF Items
<1>11. ItemInv(c)'
  <2>1. \A v \in Worker \ {w} : /\ AtCall(v, c)' <=> AtCall(v, c)
                                /\ AtEnd(v, c)' <=> AtEnd(v, c)
                                /\ ToShow(v, c)' <=> ToShow(v, c)
                                /\ Early(v, c)' <=> Early(v, c)
                                /\ Follower(v)' = Follower(v)
                                /\ work'[v] = work[v]
    BY <1>3, SameWorker
  <2>2. OnReEval(c)' <=> OnReEval(c)
    BY <1>1 DEF OnReEval
  <2>3. ItemInv(c) /\ (EarlyList(c)' => EarlyList(c)) /\ (EarlyReport(c)' => EarlyReport(c))
    BY <1>8 DEF Items, EarlyKept
  <2>4. Shows(work[w].item) /\ items[c].listed
    BY <1>5, <2>3 DEF ItemInv, Solid, Known
  <2>5. published'[c].listed /\ Shows(published'[c])
    BY <1>3, <2>4 DEF Shows
  <2>6. Going(c)' <=> Going(c)
    BY <1>3, <1>4, <1>5, <1>6, <2>1 DEF Going
  <2>7. ~EarlyList(c)' /\ ~EarlyReport(c)'
    <3>1. CASE published[c].listed
      BY <2>3, <3>1 DEF ItemInv, Known
    <3>2. CASE ~published[c].listed
      <4>1. c \in Id \ raced
        BY <2>3, <3>2 DEF ItemInv, Known
      <4>2. /\ \A v \in Worker \ {w} : ~Early(v, c)
            /\ \A j \in Job : ~(queue[j] > 0 /\ Foretold(j, c))
        BY <1>5, <4>1, InOneHand
      <4>3. \A v \in Worker : ~Early(v, c)'
        BY <1>3, <1>5, <2>1, <4>2
      <4>4. \A j \in Job : ~(queue'[j] > 0 /\ Foretold(j, c))
        BY <1>7, <4>2
      <4>5. QED
        BY <4>3, <4>4 DEF EarlyList, EarlyReport, EarlyIn
    <3>3. QED
      BY <3>1, <3>2
  <2>8. Known(c)'
    BY <1>1, <2>1, <2>3, <2>4, <2>5, <2>7 DEF ItemInv, Known
  <2>9. Solid(c)'
    BY <1>1, <1>3, <1>4, <2>1, <2>2, <2>3, <2>4, <2>5, <2>6 DEF ItemInv, Solid
  <2>10. Settles(c)'
    BY <1>1, <2>2, <2>3, <2>6 DEF ItemInv, Settles, InProgress
  <2>11. ASSUME c \notin raced' PROVE Current(c)' /\ Visible(c)' /\ Preferred(c)'
    <3>1. c \notin raced /\ Current(c) /\ Visible(c) /\ Preferred(c)
      BY <1>1, <2>3, <2>11 DEF ItemInv
    <3>2. \A v \in Worker \ {w} : ~AtEnd(v, c)
      <4>1. c \in Id \ raced
        BY <3>1
      <4>2. QED
        BY <1>5, <4>1, InOneHand
    <3>3. work[w].item = items[c] /\ items[c] \in Item
      BY <1>5, <3>1 DEF Current, TypeOK
    <3>4. Current(c)'
      BY <1>1, <1>3, <1>4, <2>1, <2>2, <2>6, <3>1, <3>3 DEF Current
    <3>5. Visible(c)'
      <4>1. [published'[c] EXCEPT !.lazy = items[c].lazy] = items[c]
        BY <1>3, <3>3 DEF Item
      <4>2. work[w].job.step = "pods" => (items[c].result.ready => summary[c] = items[c].result)
        BY <1>5, <3>1, <3>2 DEF Visible
      <4>3. work[w].job.step # "pods" => AtEnd(w, c)' /\ work'[w].job.step # "pods"
        BY <1>4
      <4>4. QED
        BY <1>1, <4>1, <4>2, <4>3 DEF Visible
    <3>6. Preferred(c)'
      BY <1>1, <2>2, <2>6, <2>7, <3>1 DEF Preferred, InProgress
    <3>7. QED
      BY <3>4, <3>5, <3>6
  <2>12. QED
    BY <2>8, <2>9, <2>10, <2>11 DEF ItemInv
<1>12. QED
  BY <1>10, <1>11 DEF Items

--------------------------------------------------------------------------------
(* The re-evaluation.                                                        *)

\* A step of the re-evaluation of item c, and the other items.
LEMMA ReEvaluationBeside ==
  ASSUME Items, NEW c \in Id, work' = work, exhausted' = exhausted, summary' = summary,
         reeval.stage # "none" => reeval.id = c, reeval'.stage # "none" => reeval'.id = c,
         \A i \in Id \ {c} : /\ items'[i] = items[i] /\ published'[i] = published[i] /\ prefs'[i] = prefs[i]
                             /\ i \in raced' <=> i \in raced,
         \A j \in Job : j.step \notin ItemSteps \/ j.of # c => queue'[j] = queue[j],
         \A i \in Id, j \in Job : Foretold(j, i) => queue'[j] = queue[j]
  PROVE  /\ EarlyKept
         /\ \A w \in Worker, i \in Id : /\ AtCall(w, i)' <=> AtCall(w, i)
                                        /\ AtEnd(w, i)' <=> AtEnd(w, i)
                                        /\ ToShow(w, i)' <=> ToShow(w, i)
                                        /\ Follower(w)' = Follower(w)
         /\ \A i \in Id \ {c} : ItemInv(i)'
<1>1. \A w \in Worker, i \in Id : /\ AtCall(w, i)' <=> AtCall(w, i)
                                  /\ AtEnd(w, i)' <=> AtEnd(w, i)
                                  /\ ToShow(w, i)' <=> ToShow(w, i)
                                  /\ Early(w, i)' <=> Early(w, i)
                                  /\ Follower(w)' = Follower(w)
                                  /\ work'[w] = work[w]
  BY SameWorker
<1>2. EarlyKept
  BY <1>1 DEF EarlyKept, EarlyList, EarlyReport, EarlyIn
<1>3. ASSUME NEW i \in Id \ {c} PROVE ItemInv(i)'
  <2>1. \A j \in Job : Waits(j, i)' <=> Waits(j, i)
    BY DEF Waits
  <2>2. ~OnReEval(i) /\ ~OnReEval(i)'
    BY DEF OnReEval
  <2>3. Untouched(i)
    BY <1>1, <1>2, <2>1, <2>2 DEF Untouched, EarlyKept
  <2>4. QED
    BY <2>3, Frame DEF Items
<1>4. QED
  BY <1>1, <1>2, <1>3

\* An item nothing is busy with.
LEMMA IdleItem ==
  ASSUME IInv, NEW i \in Id, ~Busy(i)
  PROVE  /\ \A j \in Job : ~Waits(j, i)
         /\ \A w \in Worker : ~AtCall(w, i) /\ ~AtEnd(w, i)
         /\ ~Going(i)
<1>1. \A j \in Job : ~Waits(j, i)
  BY DEF Busy, Pending, Waits
<1>2. ASSUME NEW w \in Worker, AtCall(w, i) \/ AtEnd(w, i) PROVE FALSE
  <2>1. work[w].stage # "free"
    BY <1>2 DEF AtCall, AtEnd
  <2>2. CASE AtCall(w, i)
    BY <2>1, <2>2 DEF Busy, HeldBy, AtCall
  <2>3. CASE AtEnd(w, i) /\ ~Lists(w)
    BY <2>1, <2>3 DEF Busy, HeldBy, AtEnd, IdOf
  <2>4. CASE AtEnd(w, i) /\ Lists(w)
    <3>1. work[w].rest # <<>> /\ Head(work[w].rest) = i
      BY <2>4 DEF IInv, Stages, StagesOf, AtEnd, Begun, IdOf
    <3>2. QED
      BY <2>1, <3>1 DEF Busy, HeldBy
  <2>5. QED
    BY <1>2, <2>2, <2>3, <2>4
<1>3. QED
  BY <1>1, <1>2 DEF Going

LEMMA ReEvaluateItems ==
  ASSUME IInv, Items, NEW c \in Id, NEW p \in Preference, ReEvaluate(c, p)
  PROVE  Items'
<1> USE DEF IInv
<1>1. /\ reeval.stage = "none" /\ published[c].listed
      /\ prefs' = [prefs EXCEPT ![c] = p]
      /\ raced' = IF Busy(c) THEN raced \cup {c} ELSE raced
      /\ UNCHANGED <<items, counter, published, summary, queue, work, exhausted>>
  BY DEF ReEvaluate
<1>2. prefs'[c] = p /\ \A i \in Id \ {c} : prefs'[i] = prefs[i] /\ (i \in raced' <=> i \in raced)
  BY <1>1 DEF TypeOK
<1>3. PICK item \in Item : item = [items[c] EXCEPT !.prefs = p, !.loading = TRUE]
  BY DEF TypeOK, Item
<1>4. item.listed = items[c].listed /\ item.loading
  BY <1>3 DEF TypeOK, Item
<1>5. reeval' = [stage |-> "read", id |-> c, item |-> item]
  BY <1>3 DEF ReEvaluate
<1>6. reeval'.stage = "read" /\ reeval'.id = c /\ reeval'.item = item
  BY <1>5
<1>7. /\ EarlyKept
      /\ \A w \in Worker, i \in Id : /\ AtCall(w, i)' <=> AtCall(w, i)
                                     /\ AtEnd(w, i)' <=> AtEnd(w, i)
                                     /\ ToShow(w, i)' <=> ToShow(w, i)
                                     /\ Follower(w)' = Follower(w)
      /\ \A i \in Id \ {c} : ItemInv(i)'
  BY <1>1, <1>2, <1>6, ReEvaluationBeside
<1>8. ItemInv(c) /\ ~OnReEval(c) /\ OnReEval(c)' /\ (EarlyList(c)' => EarlyList(c)) /\ (EarlyReport(c)' => EarlyReport(c))
  BY <1>1, <1>6, <1>7 DEF Items, OnReEval, EarlyKept
<1>9. \A j \in Job : Waits(j, c)' <=> Waits(j, c)
  BY <1>1 DEF Waits
<1>10. (Going(c)' <=> Going(c)) /\ InProgress(c)'
  BY <1>7, <1>8, <1>9 DEF Going, InProgress
<1>11. Known(c)'
  BY <1>1, <1>7, <1>8, <1>9 DEF ItemInv, Known
<1>12. Solid(c)'
  BY <1>1, <1>4, <1>6, <1>7, <1>8, <1>10 DEF ItemInv, Solid, Known
<1>13. Settles(c)'
  BY <1>10 DEF Settles
<1>14. ASSUME c \notin raced' PROVE Current(c)' /\ Visible(c)' /\ Preferred(c)'
  <2>1. c \notin raced /\ ~Busy(c) /\ Current(c) /\ Visible(c) /\ Preferred(c)
    BY <1>1, <1>8, <1>14 DEF ItemInv
  <2>2. ~Going(c) /\ \A w \in Worker : ~AtCall(w, c) /\ ~AtEnd(w, c)
    BY <2>1, IdleItem
  <2>3. Current(c)'
    BY <1>1, <1>2, <1>3, <1>6, <1>7, <1>10, <2>2 DEF Current
  <2>4. Visible(c)'
    BY <1>1, <1>7, <1>8, <2>1, <2>2 DEF Visible
  <2>5. Preferred(c)'
    BY <1>1, <1>6, <1>8, <1>10 DEF Preferred, ItemInv, Known
  <2>6. QED
    BY <2>3, <2>4, <2>5
<1>15. QED
  BY <1>7, <1>11, <1>12, <1>13, <1>14 DEF Items, ItemInv

LEMMA ReEvaluateStoreItems ==
  ASSUME IInv, Items, ReEvaluateStore
  PROVE  Items'
<1> USE DEF IInv
<1>1. /\ reeval.stage = "read" /\ reeval' = [reeval EXCEPT !.stage = "stored"]
      /\ UNCHANGED <<counter, published, summary, queue, work, asked, prefs, exhausted, raced>>
  BY DEF ReEvaluateStore
<1>2. PICK c \in Id : c = reeval.id
  BY <1>1 DEF TypeOK
<1>3. PICK item \in Item : item = reeval.item
  BY DEF TypeOK
<1>4. reeval'.stage = "stored" /\ reeval'.id = c /\ reeval'.item = item
  BY <1>1, <1>2, <1>3 DEF TypeOK
<1>5. items'[c] = item /\ \A i \in Id \ {c} : items'[i] = items[i]
  BY <1>2, <1>3 DEF ReEvaluateStore, TypeOK
<1>6. /\ EarlyKept
      /\ \A w \in Worker, i \in Id : /\ AtCall(w, i)' <=> AtCall(w, i)
                                     /\ AtEnd(w, i)' <=> AtEnd(w, i)
                                     /\ ToShow(w, i)' <=> ToShow(w, i)
                                     /\ Follower(w)' = Follower(w)
      /\ \A i \in Id \ {c} : ItemInv(i)'
  BY <1>1, <1>2, <1>4, <1>5, ReEvaluationBeside
<1>7. ItemInv(c) /\ OnReEval(c) /\ OnReEval(c)' /\ (EarlyList(c)' => EarlyList(c)) /\ (EarlyReport(c)' => EarlyReport(c))
  BY <1>1, <1>2, <1>4, <1>6 DEF Items, OnReEval, EarlyKept
<1>8. \A j \in Job : Waits(j, c)' <=> Waits(j, c)
  BY <1>1 DEF Waits
<1>9. (Going(c)' <=> Going(c)) /\ InProgress(c)'
  BY <1>6, <1>7, <1>8 DEF Going, InProgress
<1>10. item.listed /\ item.loading /\ Shows(item)
  BY <1>3, <1>7 DEF ItemInv, Solid, Shows
<1>11. Known(c)'
  BY <1>1, <1>5, <1>6, <1>7, <1>8, <1>10 DEF ItemInv, Known
<1>12. Solid(c)'
  BY <1>1, <1>4, <1>5, <1>6, <1>7, <1>9, <1>10 DEF ItemInv, Solid
<1>13. Settles(c)'
  BY <1>9 DEF Settles
<1>14. ASSUME c \notin raced' PROVE Current(c)' /\ Visible(c)' /\ Preferred(c)'
  <2>1. c \notin raced /\ Current(c) /\ Visible(c) /\ Preferred(c)
    BY <1>1, <1>7, <1>14 DEF ItemInv
  <2>2. /\ \A w \in Worker : ~Attends(w, c)
        /\ \A j \in Job : ~(queue[j] > 0 /\ Concerns(j, c))
    BY <1>1, <1>2, <2>1 DEF Chains, OneHand
  <2>3. \A w \in Worker : ~AtCall(w, c) /\ ~AtEnd(w, c)
    BY <2>2, AtOne
  <2>4. \A j \in Job : ~Waits(j, c)
    BY <2>2 DEF Waits, Concerns
  <2>5. ~Going(c)
    BY <2>3, <2>4 DEF Going
  <2>6. item = [items[c] EXCEPT !.prefs = prefs[c], !.loading = TRUE] /\ items[c] \in Item
    BY <1>1, <1>3, <1>7, <2>1 DEF Current, TypeOK
  <2>7. item.prefs = prefs[c] /\ item.result = items[c].result
    BY <2>6 DEF Item
  <2>8. Current(c)'
    BY <1>4, <1>5, <1>6, <1>9, <2>3, <2>5 DEF Current
  <2>9. Visible(c)'
    BY <1>1, <1>4, <1>5, <1>6, <1>7, <2>1, <2>3, <2>7 DEF Visible
  <2>10. Preferred(c)'
    BY <1>1, <1>5, <1>7, <1>9, <2>1, <2>7 DEF Preferred
  <2>11. QED
    BY <2>8, <2>9, <2>10
<1>15. QED
  BY <1>6, <1>11, <1>12, <1>13, <1>14 DEF Items, ItemInv

LEMMA ReEvaluatePushItems ==
  ASSUME IInv, Items, ReEvaluatePush
  PROVE  Items'
<1> USE DEF IInv
<1>1. /\ reeval.stage = "stored" /\ reeval' = NoReEval
      /\ UNCHANGED <<items, counter, summary, work, asked, prefs, exhausted, raced>>
  BY DEF ReEvaluatePush
<1>2. PICK c \in Id : c = reeval.id
  BY <1>1 DEF TypeOK
<1>3. PICK k \in Job : k = ItemJob("optimize", c) /\ k.step \in ItemSteps /\ k.of = c
  BY JobPushed DEF ItemJob, NewJob, ItemSteps
<1>4. PICK old \in Item : old = reeval.item
  BY DEF TypeOK
<1>5. PICK item \in Item : item = [old EXCEPT !.lazy = FALSE]
  BY DEF Item
<1>6. /\ queue' = Pushed({k}) /\ published' = [published EXCEPT ![c] = item]
      /\ queue \in [Job -> Nat] /\ published \in [Id -> Item]
  BY <1>2, <1>3, <1>4, <1>5 DEF ReEvaluatePush, TypeOK
<1>7. published'[c] = item /\ \A i \in Id \ {c} : published'[i] = published[i]
  BY <1>6
<1>8. queue'[k] > 0 /\ \A j \in Job \ {k} : queue'[j] = queue[j]
  BY <1>6 DEF Pushed
<1>9. reeval'.stage = "none"
  BY <1>1 DEF NoReEval
<1>10. \A i \in Id, j \in Job : Foretold(j, i) => queue'[j] = queue[j]
  BY <1>3, <1>8 DEF Foretold, ListSteps, ItemSteps
<1>11. \A j \in Job : j.step \notin ItemSteps \/ j.of # c => queue'[j] = queue[j]
  BY <1>3, <1>8
<1>12. /\ EarlyKept
       /\ \A w \in Worker, i \in Id : /\ AtCall(w, i)' <=> AtCall(w, i)
                                      /\ AtEnd(w, i)' <=> AtEnd(w, i)
                                      /\ ToShow(w, i)' <=> ToShow(w, i)
                                      /\ Follower(w)' = Follower(w)
       /\ \A i \in Id \ {c} : ItemInv(i)'
  BY <1>1, <1>2, <1>7, <1>9, <1>10, <1>11, ReEvaluationBeside
<1>13. ItemInv(c) /\ OnReEval(c) /\ ~OnReEval(c)' /\ (EarlyList(c)' => EarlyList(c)) /\ (EarlyReport(c)' => EarlyReport(c))
  BY <1>1, <1>2, <1>9, <1>12 DEF Items, OnReEval, EarlyKept
<1>14. Waits(k, c)'
  BY <1>3, <1>8 DEF Waits
<1>15. Going(c)' /\ InProgress(c)'
  BY <1>14 DEF Going, InProgress
<1>16. old.listed /\ old.loading /\ published[c].listed /\ items[c].listed
  BY <1>4, <1>13 DEF ItemInv, Solid, Known
<1>17. item.listed /\ item.loading /\ Shows(item)
  BY <1>5, <1>16 DEF Item, Shows
<1>18. Known(c)'
  BY <1>1, <1>7, <1>12, <1>13, <1>16, <1>17 DEF ItemInv, Known
<1>19. Solid(c)'
  BY <1>1, <1>7, <1>12, <1>13, <1>17 DEF ItemInv, Solid
<1>20. Settles(c)'
  BY <1>15 DEF Settles
<1>21. ASSUME c \notin raced' PROVE Current(c)' /\ Visible(c)' /\ Preferred(c)'
  <2>1. c \notin raced /\ Current(c) /\ Visible(c) /\ Preferred(c)
    BY <1>1, <1>13, <1>21 DEF ItemInv
  <2>2. \A w \in Worker : ~Attends(w, c)
    BY <1>1, <1>2, <2>1 DEF Chains, OneHand
  <2>3. \A w \in Worker : ~AtCall(w, c) /\ ~AtEnd(w, c)
    BY <2>2, AtOne
  <2>4. old = items[c]
    BY <1>1, <1>4, <1>13, <2>1 DEF Current
  <2>5. [item EXCEPT !.lazy = items[c].lazy] = items[c]
    BY <1>5, <2>4 DEF Item
  <2>6. Current(c)'
    BY <1>1, <1>12, <1>13, <1>16, <2>3, <2>4 DEF Current
  <2>7. Visible(c)'
    BY <1>1, <1>7, <1>12, <2>1, <2>3, <2>5 DEF Visible
  <2>8. Preferred(c)'
    BY <1>1, <1>13, <1>15, <2>1 DEF Preferred
  <2>9. QED
    BY <2>6, <2>7, <2>8
<1>22. QED
  BY <1>12, <1>18, <1>19, <1>20, <1>21 DEF Items, ItemInv

--------------------------------------------------------------------------------

LEMMA InitItems ==
  ASSUME Init
  PROVE  Items
<1> SUFFICES ASSUME NEW i \in Id PROVE ItemInv(i)
  BY DEF Items
<1>1. PICK kinds \in Started, agent \in AgentEnabled :
        /\ queue = [j \in Job |-> IF \E k \in kinds : j = NewProcessor(k, agent) THEN 1 ELSE 0]
        /\ prefs = [l \in Id |-> IF agent THEN DefaultPreferences ELSE Preferences(KindOf(l))]
  BY DEF Init
<1>2. \A w \in Worker : work[w].stage = "free"
  BY FreeTask DEF Init
<1>3. \A w \in Worker : ~AtCall(w, i) /\ ~AtEnd(w, i) /\ ~Early(w, i)
  BY <1>2 DEF AtCall, AtEnd, Early, Foreseen, ToShow, Begun
<1>4. \A j \in Job : queue[j] > 0 => j.step = (IF agent THEN "report" ELSE "namespaces")
  BY <1>1 DEF NewProcessor, NewJob
<1>5. \A j \in Job : ~Waits(j, i)
  BY <1>4 DEF Waits, ItemSteps
<1>6. ~OnReEval(i) /\ ~Going(i)
  BY <1>3, <1>5 DEF Init, NoReEval, OnReEval, Going
<1>7. /\ ~items[i].listed /\ ~published[i].listed /\ ~items[i].result.ready
      /\ items[i] = NoItem /\ published[i] = NoItem
  BY DEF Init, NoItem, NoResult
<1>8. (EarlyList(i) => ~agent) /\ (EarlyReport(i) => agent)
  BY <1>3, <1>4 DEF EarlyList, EarlyReport, EarlyIn
<1>9. i \notin raced /\ Known(i) /\ Solid(i) /\ Settles(i) /\ Current(i)
  BY <1>3, <1>5, <1>6, <1>7 DEF Init, Known, Solid, Settles, Current
<1>10. Visible(i)
  BY <1>7 DEF Visible, NoItem
<1>11. Preferred(i)
  BY <1>1, <1>7, <1>8 DEF Preferred
<1>12. QED
  BY <1>9, <1>10, <1>11 DEF ItemInv

LEMMA NextItems ==
  ASSUME IInv, Items, [Next]_vars
  PROVE  Items'
<1>1. ASSUME NEW w \in Worker, WorkerStep(w) PROVE Items'
  <2>1. CASE \E kind \in Kind : ListPods(w, kind) \/ GetMetrics(w, kind) \/ Optimize(w, kind)
    BY <2>1, ListPodsItems, GetMetricsItems, OptimizeItems
  <2>2. CASE PassOver(w)
    BY <2>2, AdvanceItems DEF PassOver
  <2>3. CASE \E wanted \in BOOLEAN : StoreReported(w, KindOf(IdOf(w)), wanted)
    BY <2>3, StoreReportedItems
  <2>4. QED
    BY <1>1, <2>1, <2>2, <2>3, WorkerSteps, TakeItems, FailItems, PublishItems, RecordItems,
       ListAllNamespacesItems, ListWorkloadsItems, CountItemItems, StoreItemItems, OptimizeLazyItems,
       OptimizeJobPanicsItems, DownloadReportItems DEF IInv
<1>2. CASE UNCHANGED vars
  <2> SUFFICES ASSUME NEW i \in Id PROVE ItemInv(i)'
    BY DEF Items
  <2>1. \A w \in Worker : (AtCall(w, i)' <=> AtCall(w, i)) /\ (AtEnd(w, i)' <=> AtEnd(w, i)) /\ (Early(w, i)' <=> Early(w, i))
    BY <1>2, SameWorker DEF vars
  <2>2. Untouched(i)
    BY <1>2, <2>1 DEF vars, Untouched, Waits, OnReEval, EarlyList, EarlyReport, EarlyIn
  <2>3. QED
    BY <2>2, Frame DEF Items
<1>3. QED
  BY <1>1, <1>2, ReEvaluateItems, ReEvaluateStoreItems, ReEvaluatePushItems DEF Next

\* Whatever jobs and re-evaluations overlap, every item keeps its invariant.
THEOREM ItemsInvariance == Spec => []Items
<1>1. Init => Items
  BY InitItems
<1>2. IInv /\ Items /\ [Next]_vars => Items'
  BY NextItems
<1>3. QED
  BY <1>1, <1>2, Invariance, PTL DEF Spec

\* Whatever jobs and re-evaluations overwrite each other, an item nobody is going to
\* change any more is not left in "loading", unless it is skipped or a job of it gave up.
THEOREM Settling == Spec => []SettledWhenQuiet
<1>1. IInv /\ Items => SettledWhenQuiet
  <2> SUFFICES ASSUME IInv, Items, NEW i \in Id, Quiet(i), i \notin exhausted, ~items[i].skipped
               PROVE  ~items[i].loading /\ (items[i].lazy \/ items[i].result.ready)
    BY DEF SettledWhenQuiet
  <2>1. items[i].listed /\ ~Going(i) /\ reeval.id # i
    BY IdleItem DEF Quiet
  <2>2. Settled(items[i])
    BY <2>1 DEF Items, ItemInv, Settles, InProgress, OnReEval
  <2>3. QED
    BY <2>2 DEF Settled
<1>2. QED
  BY <1>1, Invariance, ItemsInvariance, PTL

\* What the user sees in the end, and what the summary adds up, is the item as it is
\* stored, unless it was re-evaluated while a job of it existed.
THEOREM PublishedInTheEnd == Spec => []PublishedWhenQuiet
<1>1. IInv /\ Items => PublishedWhenQuiet
  <2> SUFFICES ASSUME IInv, Items, NEW i \in Id \ raced, Quiet(i)
               PROVE  /\ [published[i] EXCEPT !.lazy = items[i].lazy] = items[i]
                      /\ items[i].result.ready => summary[i] = items[i].result
    BY DEF PublishedWhenQuiet
  <2>1. reeval.id # i /\ \A w \in Worker : ~AtEnd(w, i)
    BY IdleItem DEF Quiet
  <2>2. QED
    BY <2>1 DEF Items, ItemInv, Visible, OnReEval
<1>2. QED
  BY <1>1, Invariance, ItemsInvariance, PTL

\* Whatever overlaps and whatever fails, a recommendation is never shown, nor kept, as
\* that for preferences other than those it was computed with.
THEOREM ReadyForItsPreferences == Spec => []ReadyFitsPreferences
<1>1. Items => ReadyFitsPreferences
  BY DEF Items, ItemInv, Solid, Shows, ReadyFitsPreferences, Screen
<1>2. QED
  BY <1>1, ItemsInvariance, PTL

\* The result an item is left with was computed with the preferences the user gave last,
\* unless the re-evaluation overlapped a job of the item; and even then it is not taken
\* for one with other preferences than its own.
THEOREM LastPreferencesCount == Spec => []LastPreferencesWin
<1>1. IInv /\ Items /\ ReadyFitsPreferences => LastPreferencesWin
  <2> SUFFICES ASSUME IInv, Items, ReadyFitsPreferences,
                      NEW i \in Id \ raced, Quiet(i), i \notin exhausted
               PROVE  /\ items[i].prefs = prefs[i]
                      /\ ~items[i].skipped /\ items[i].result.ready => items[i].result.prefs = prefs[i]
    BY DEF LastPreferencesWin
  <2>1. items[i].listed /\ ~Going(i) /\ reeval.id # i
    BY IdleItem DEF Quiet
  <2>2. QED
    BY <2>1 DEF Items, ItemInv, Preferred, InProgress, OnReEval
<1>2. QED
  BY <1>1, Invariance, ItemsInvariance, ReadyForItsPreferences, PTL

--------------------------------------------------------------------------------
(* What the user sees of an item goes through the life ItemLifecycle         *)
(* describes.                                                                *)

\* What is about to be shown of an item of which the user has seen an earlier version.
Steady(i) ==
  /\ \A w \in Worker : AtEnd(w, i) /\ work[w].stage = "publish" /\ ~Lists(w) =>
       /\ published[i].listed /\ published[i].loading
       /\ ~work[w].item.lazy
       /\ published[i].skipped /\ work[w].item.loading => work[w].item.skipped
  /\ OnReEval(i) => reeval.item.skipped = published[i].skipped
Steadies == \A i \in Id \ raced : Steady(i)

--------------------------------------------------------------------------------
(* The screen.                                                               *)

LEMMA ScreenOf ==
  ASSUME NEW item \in Item
  PROVE  /\ ~item.listed <=> Screen(item) = "absent"
         /\ Shows(item) => Screen(item) \in Lifecycle!Shown
         /\ item.listed /\ item.skipped => Screen(item) = "skipped"
         /\ item.listed /\ ~item.skipped /\ item.loading => Screen(item) = "loading"
         /\ Shows(item) /\ ~item.skipped /\ ~item.loading /\ ~item.lazy => Screen(item) = "ready"
BY DEF Item, Screen, Shows, Lifecycle!Shown

LEMMA Shown ==
  ASSUME TypeOK, NEW c \in Id, NEW item \in Item, published' = [published EXCEPT ![c] = item]
  PROVE  Lifecycle!Show(c, Screen(item))
BY DEF TypeOK, Lifecycle!Show

\* The items on the user's screen move on as ItemLifecycle allows.
Lives == [Lifecycle!Next]_(Lifecycle!vars)

LEMMA Unmoved ==
  ASSUME UNCHANGED <<published, reeval, raced, exhausted>>
  PROVE  Lives
BY DEF Lives, Lifecycle!vars

LEMMA SteadyElsewhere ==
  ASSUME Steadies, NEW w \in Worker, \A v \in Worker \ {w} : work'[v] = work[v],
         \A i \in Id : AtEnd(w, i)' /\ work'[w].stage = "publish" => work'[w].job.step \in {"list", "report"},
         UNCHANGED <<published, reeval, raced>>
  PROVE  Steadies'
<1> SUFFICES ASSUME NEW i \in Id \ raced PROVE Steady(i)'
  BY DEF Steadies
<1>1. \A v \in Worker \ {w} : (AtEnd(v, i)' <=> AtEnd(v, i)) /\ (Lists(v)' <=> Lists(v))
  BY SameWorker DEF Lists
<1>2. Steady(i) /\ (OnReEval(i)' <=> OnReEval(i))
  BY DEF Steadies, OnReEval
<1>3. QED
  BY <1>1, <1>2 DEF Steady, Lists

\* A step of a worker that shows nothing, and is not about to.
LEMMA Silent ==
  ASSUME Steadies, NEW w \in Worker, \A v \in Worker \ {w} : work'[v] = work[v],
         \A i \in Id : AtEnd(w, i)' /\ work'[w].stage = "publish" => work'[w].job.step \in {"list", "report"},
         UNCHANGED <<published, reeval, raced, exhausted>>
  PROVE  Steadies' /\ Lives
BY SteadyElsewhere, Unmoved

LEMMA FreedLives ==
  ASSUME IInv, Steadies, NEW w \in Worker, work' = [work EXCEPT ![w] = Free],
         UNCHANGED <<published, reeval, raced, exhausted>>
  PROVE  Steadies' /\ Lives
<1>1. /\ \A v \in Worker \ {w} : work'[v] = work[v]
      /\ \A i \in Id : ~AtEnd(w, i)'
  BY FreedEffect DEF IInv
<1>2. QED
  BY <1>1, Silent

LEMMA AdvancedLives ==
  ASSUME IInv, Steadies, NEW w \in Worker, Begun(w), work' = [work EXCEPT ![w] = NextTask(w)],
         UNCHANGED <<published, reeval, raced, exhausted>>
  PROVE  Steadies' /\ Lives
<1>1. /\ \A v \in Worker \ {w} : work'[v] = work[v]
      /\ \A i \in Id : ~AtEnd(w, i)'
  BY AdvancedEffect DEF IInv
<1>2. QED
  BY <1>1, Silent

\* A job of an item that is on the screen is given up.
LEMMA GivenUpLives ==
  ASSUME IInv, Items, Steadies, NEW w \in Worker, NEW c \in Id, AtCall(w, c), work' = [work EXCEPT ![w] = Free],
         exhausted' = exhausted \cup {c}, UNCHANGED <<published, reeval, raced>>
  PROVE  Steadies' /\ Lives
<1>1. /\ \A v \in Worker \ {w} : work'[v] = work[v]
      /\ \A i \in Id : ~AtEnd(w, i)'
  BY FreedEffect DEF IInv
<1>2. published[c].listed /\ published[c] \in Item
  BY DEF Items, ItemInv, Known, IInv, TypeOK
<1>3. Screen(published[c]) # "absent"
  BY <1>2, ScreenOf
<1>4. Lifecycle!GiveUp(c)
  BY <1>3 DEF Lifecycle!GiveUp
<1>5. QED
  BY <1>1, <1>4, SteadyElsewhere DEF Lives, Lifecycle!Next

LEMMA FailLives ==
  ASSUME IInv, Items, Steadies, NEW w \in Worker, Fail(w)
  PROVE  Steadies' /\ Lives
<1> USE DEF IInv
<1>1. /\ work[w].stage = "call" /\ work' = [work EXCEPT ![w] = Free]
      /\ UNCHANGED <<items, counter, published, summary, reeval, asked, prefs, raced>>
      /\ exhausted' = exhausted \/ exhausted' = exhausted \cup ({work[w].job.of} \cap Id)
  BY DEF Fail
<1>2. CASE exhausted' = exhausted
  BY <1>1, <1>2, FreedLives
<1>3. CASE exhausted' = exhausted \cup ({work[w].job.of} \cap Id)
  <2>1. CASE work[w].job.of \in Id
    <3>1. work[w].job.step \in ItemSteps
      BY <2>1, JobFields, KindOfItem DEF TypeOK, Task
    <3>2. AtCall(w, work[w].job.of) /\ exhausted' = exhausted \cup {work[w].job.of}
      BY <1>1, <1>3, <2>1, <3>1 DEF AtCall
    <3>3. QED
      BY <1>1, <2>1, <3>2, GivenUpLives
  <2>2. CASE work[w].job.of \notin Id
    <3>1. exhausted' = exhausted
      BY <1>3, <2>2
    <3>2. QED
      BY <1>1, <3>1, FreedLives
  <2>3. QED
    BY <2>1, <2>2
<1>4. QED
  BY <1>1, <1>2, <1>3

LEMMA OptimizeJobPanicsLives ==
  ASSUME IInv, Items, Steadies, NEW w \in Worker, OptimizeJobPanics(w)
  PROVE  Steadies' /\ Lives
<1>1. work[w].stage = "call" /\ work[w].job.step = "optimize" /\ IdOf(w) = work[w].job.of
  BY DEF OptimizeJobPanics, At, Running, IdOf, Lists
<1>2. AtCall(w, IdOf(w))
  BY <1>1 DEF AtCall, ItemSteps
<1>3. IdOf(w) \in Id
  BY <1>2, AtOne DEF IInv
<1>4. QED
  BY <1>2, <1>3, GivenUpLives DEF OptimizeJobPanics

--------------------------------------------------------------------------------
(* Steps that show nothing.                                                  *)

LEMMA TakeLives ==
  ASSUME IInv, Steadies, NEW w \in Worker, Take(w)
  PROVE  Steadies' /\ Lives
<1>1. PICK j \in Job :
        work' = [work EXCEPT ![w] = [Free EXCEPT !.stage = "call", !.job = j,
                                         !.item = IF j.of \in Id THEN items[j.of] ELSE NoItem]]
  BY DEF Take
<1>2. /\ work'[w] = [Free EXCEPT !.stage = "call", !.job = j, !.item = IF j.of \in Id THEN items[j.of] ELSE NoItem]
      /\ \A v \in Worker \ {w} : work'[v] = work[v]
  BY <1>1 DEF IInv, TypeOK
<1>3. work'[w].stage = "call"
  BY <1>2, FreeTask DEF Task
<1>4. QED
  BY <1>2, <1>3, Silent DEF Take

LEMMA ArriveLives ==
  ASSUME IInv, Steadies, NEW w \in Worker, NEW list, NEW s \in {"count", "report"},
         work' = [work EXCEPT ![w] = IF list = <<>> THEN Free ELSE [@ EXCEPT !.stage = s, !.rest = list]],
         UNCHANGED <<published, reeval, raced, exhausted>>
  PROVE  Steadies' /\ Lives
<1>1. work[w] \in Task /\ work \in [Worker -> Task]
  BY DEF IInv, TypeOK
<1>2. /\ work'[w] = (IF list = <<>> THEN Free ELSE [work[w] EXCEPT !.stage = s, !.rest = list])
      /\ \A v \in Worker \ {w} : work'[v] = work[v]
  BY <1>1
<1>3. work'[w].stage # "publish"
  BY <1>1, <1>2, FreeTask DEF Task
<1>4. QED
  BY <1>2, <1>3, Silent

LEMMA CountItemLives ==
  ASSUME IInv, Steadies, NEW w \in Worker, CountItem(w)
  PROVE  Steadies' /\ Lives
<1>1. work[w] \in Task /\ work \in [Worker -> Task]
  BY DEF IInv, TypeOK
<1>2. work'[w] = [work[w] EXCEPT !.stage = "store"] /\ \A v \in Worker \ {w} : work'[v] = work[v]
  BY <1>1 DEF CountItem
<1>3. work'[w].stage = "store"
  BY <1>1, <1>2 DEF Task
<1>4. QED
  BY <1>2, <1>3, Silent DEF CountItem

\* A listing stores an item the user has not seen.
LEMMA StoreNewLives ==
  ASSUME IInv, Steadies, NEW w \in Worker, NEW item \in Item, Store(w, item),
         work[w].stage \in {"store", "report"}, UNCHANGED <<published, reeval, raced, exhausted>>
  PROVE  Steadies' /\ Lives
<1>1. Begun(w) /\ work[w].stage # "record" /\ work[w].job.step \in {"list", "report"}
  BY DEF Begun, IInv, Stages, StagesOf
<1>2. /\ \A v \in Worker \ {w} : work'[v] = work[v]
      /\ work'[w].job = work[w].job
  BY <1>1, StoreEffect DEF IInv
<1>3. QED
  BY <1>1, <1>2, Silent

LEMMA StoreItemLives ==
  ASSUME IInv, Steadies, NEW w \in Worker, StoreItem(w, KindOf(IdOf(w)), Unavailable(IdOf(w)))
  PROVE  Steadies' /\ Lives
<1>1. work[w].stage = "store" /\ IdOf(w) \in Id
  BY AtItem DEF IInv, StoreItem, Begun
<1>2. PICK k \in Kind, u \in BOOLEAN : k = KindOf(IdOf(w)) /\ u = Unavailable(IdOf(w))
  BY <1>1, KindOfItem, ItemOfReport
<1>3. PICK lazy \in BOOLEAN : lazy = (counter > LazyLoad)
  <2>1. (counter > LazyLoad) \in BOOLEAN
    BY PipelineAssumption DEF IInv, TypeOK
  <2>2. QED
    BY <2>1, Zenon
<1>4. PICK item \in Item : item = [NoItem EXCEPT !.listed = TRUE, !.loading = ~lazy, !.lazy = lazy,
                                                 !.prefs = Preferences(k), !.skipped = u]
  BY NewItem DEF IInv
<1>5. Store(w, item) /\ UNCHANGED <<published, reeval, raced, exhausted>>
  BY <1>2, <1>3, <1>4 DEF StoreItem
<1>6. QED
  BY <1>1, <1>5, StoreNewLives

LEMMA StoreReportedLives ==
  ASSUME IInv, Steadies, NEW w \in Worker, NEW kind, NEW wanted \in BOOLEAN, StoreReported(w, kind, wanted)
  PROVE  Steadies' /\ Lives
<1>1. /\ work[w].stage = "report" /\ Begun(w) /\ IdOf(w) \in Id
      /\ UNCHANGED <<published, reeval, raced, exhausted>>
  BY AtItem DEF IInv, StoreReported, Begun
<1>2. CASE IdOf(w) \in Malformed
  BY <1>1, <1>2, FreedLives DEF StoreReported
<1>3. CASE IdOf(w) \notin Malformed /\ ~wanted
  BY <1>1, <1>3, AdvancedLives DEF StoreReported
<1>4. CASE IdOf(w) \notin Malformed /\ wanted
  <2>1. Store(w, ReportedItem(IdOf(w))) /\ ReportedItem(IdOf(w)) \in Item
    BY <1>1, <1>4, ItemOfReport DEF StoreReported
  <2>2. QED
    BY <1>1, <2>1, StoreNewLives
<1>5. QED
  BY <1>2, <1>3, <1>4

--------------------------------------------------------------------------------
(* Steps on an item the user has seen.                                       *)

\* A job of an item stores what it has made of its copy.
LEMMA StoreCopyLives ==
  ASSUME IInv, Items, Steadies, NEW w \in Worker, NEW item \in Item, Store(w, item),
         work[w].stage = "call", work[w].job.step \in ItemSteps,
         UNCHANGED <<published, reeval, raced, exhausted>>,
         ~item.lazy, work[w].item.skipped /\ item.loading => item.skipped
  PROVE  Steadies' /\ Lives
<1> USE DEF IInv
<1>1. PICK c \in Id : c = IdOf(w) /\ AtCall(w, c) /\ Attends(w, c) /\ ~Lists(w)
  <2>1. AtCall(w, IdOf(w)) /\ ~Lists(w)
    BY DEF AtCall, IdOf, Lists, ItemSteps
  <2>2. QED
    BY <2>1, AtOne
<1>2. /\ \A v \in Worker \ {w} : work'[v] = work[v]
      /\ work'[w].item = item
      /\ \A i \in Id : AtEnd(w, i)' <=> i = c
  BY <1>1, StoreEffect
<1>3. ASSUME NEW i \in Id \ raced PROVE Steady(i)'
  <2>1. \A v \in Worker \ {w} : (AtEnd(v, i)' <=> AtEnd(v, i)) /\ (Lists(v)' <=> Lists(v)) /\ work'[v] = work[v]
    BY <1>2, SameWorker DEF Lists
  <2>2. Steady(i) /\ (OnReEval(i)' <=> OnReEval(i))
    BY <1>3 DEF Steadies, OnReEval
  <2>3. CASE i # c
    BY <1>2, <2>1, <2>2, <2>3 DEF Steady
  <2>4. CASE i = c
    <3>1. Current(c) /\ Visible(c) /\ Known(c)
      BY <1>3, <2>4 DEF Items, ItemInv
    <3>2. (\A v \in Worker : ~AtEnd(v, c)) /\ ~OnReEval(c)
      <4>1. (\A v \in Worker \ {w} : ~AtEnd(v, c)) /\ ~OnReEval(c)
        BY <1>1, <1>3, <2>4, InOneHand
      <4>2. ~AtEnd(w, c)
        BY DEF AtEnd
      <4>3. QED
        BY <4>1, <4>2
    <3>3. published[c].listed /\ work[w].item = items[c] /\ items[c].loading
      BY <1>1, <3>1 DEF Known, Current, Going
    <3>4. [published[c] EXCEPT !.lazy = items[c].lazy] = items[c] /\ published[c] \in Item
      BY <3>1, <3>2 DEF Visible, TypeOK
    <3>5. published[c].loading /\ published[c].skipped = work[w].item.skipped
      BY <3>3, <3>4 DEF Item
    <3>6. ASSUME NEW v \in Worker, AtEnd(v, c)' PROVE v = w
      BY <2>1, <2>4, <3>2, <3>6
    <3>7. ~OnReEval(c)'
      BY <2>2, <2>4, <3>2
    <3>8. QED
      BY <1>2, <2>4, <3>3, <3>5, <3>6, <3>7 DEF Steady
  <2>5. QED
    BY <2>3, <2>4
<1>4. Steadies'
  BY <1>3 DEF Steadies
<1>5. QED
  BY <1>4, Unmoved

LEMMA ListPodsLives ==
  ASSUME IInv, Items, Steadies, NEW w \in Worker, NEW kind, ListPods(w, kind)
  PROVE  Steadies' /\ Lives
<1>1. /\ work[w].stage = "call" /\ work[w].job.step \in ItemSteps
      /\ UNCHANGED <<published, reeval, raced, exhausted>>
  BY DEF ListPods, At, Running, ItemSteps
<1>2. PICK old \in Item : old = work[w].item
  BY LocalItem DEF IInv
<1>3. PICK item \in Item : item = [old EXCEPT !.lazy = FALSE, !.skipped = @ \/ IdOf(w) \in Elsewhere]
  BY <1>2, LocalItem DEF IInv
<1>4. Store(w, item) /\ ~item.lazy /\ (old.skipped => item.skipped)
  BY <1>2, <1>3 DEF ListPods, Item
<1>5. QED
  BY <1>1, <1>2, <1>4, StoreCopyLives

LEMMA GetMetricsLives ==
  ASSUME IInv, Items, Steadies, NEW w \in Worker, NEW kind, GetMetrics(w, kind)
  PROVE  Steadies' /\ Lives
<1>1. /\ work[w].stage = "call" /\ work[w].job.step \in ItemSteps
      /\ UNCHANGED <<published, reeval, raced, exhausted>>
  BY DEF GetMetrics, At, Running, ItemSteps
<1>2. PICK old \in Item : old = work[w].item
  BY LocalItem DEF IInv
<1>3. PICK m \in Measure, item \in Item : /\ item = [old EXCEPT !.metrics = m, !.lazy = FALSE]
                                         /\ Store(w, item)
  BY <1>2, LocalItem, MetricsStored DEF IInv
<1>4. Store(w, item) /\ ~item.lazy /\ (old.skipped => item.skipped)
  BY <1>3 DEF Item
<1>5. QED
  BY <1>1, <1>2, <1>4, StoreCopyLives

LEMMA OptimizeLives ==
  ASSUME IInv, Items, Steadies, NEW w \in Worker, NEW kind, Optimize(w, kind)
  PROVE  Steadies' /\ Lives
<1>1. /\ work[w].stage = "call" /\ work[w].job.step \in ItemSteps /\ ~work[w].item.lazy
      /\ UNCHANGED <<published, reeval, raced, exhausted>>
  BY DEF Optimize, At, Running, ItemSteps
<1>2. PICK old \in Item : old = work[w].item
  BY LocalItem DEF IInv
<1>3. PICK item \in Item : item = [old EXCEPT !.loading = FALSE, !.skipped = FALSE,
               !.result = [ready |-> TRUE, prefs |-> old.prefs, metrics |-> old.metrics]]
  BY <1>2, LocalItem DEF IInv
<1>4. Store(w, item) /\ ~item.lazy /\ ~item.loading
  BY <1>1, <1>2, <1>3 DEF Optimize, Item
<1>5. QED
  BY <1>1, <1>4, StoreCopyLives

\* A version of an item is shown: the first, or one that carries on from what is shown.
LEMMA PublishLives ==
  ASSUME IInv, Items, Steadies, NEW w \in Worker, Publish(w)
  PROVE  Steadies' /\ Lives
<1> USE DEF IInv
<1>1. /\ Begun(w) /\ work[w].stage = "publish"
      /\ UNCHANGED <<items, counter, summary, reeval, asked, prefs, exhausted, raced>>
  BY DEF Publish, Begun
<1>2. PICK c \in Id : c = IdOf(w)
  BY <1>1, AtItem
<1>3. /\ \A i \in Id \ {c} : published'[i] = published[i]
      /\ \A v \in Worker \ {w} : work'[v] = work[v]
  BY <1>2, PublishEffect
<1>4. \A i \in Id : ~(AtEnd(w, i)' /\ work'[w].stage = "publish")
  <2>1. CASE work[w].job.step = "pods"
    <3>1. work' = [work EXCEPT ![w] = Free]
      BY <2>1 DEF Publish
    <3>2. QED
      BY <3>1, FreedEffect
  <2>2. CASE work[w].job.step # "pods"
    <3>1. work[w] \in Task /\ work \in [Worker -> Task]
      BY DEF TypeOK
    <3>2. PICK x \in [Worker -> Task] : x = [work EXCEPT ![w].stage = "record"]
      <4>1. [work[w] EXCEPT !.stage = "record"] \in Task
        BY <3>1 DEF Task
      <4>2. QED
        BY <3>1, <4>1
    <3>3. x[w] = [work[w] EXCEPT !.stage = "record"]
      BY <3>1, <3>2
    <3>4. x[w] \in Task /\ x[w].stage = "record"
      BY <3>1, <3>2, <3>3 DEF Task
    <3>5. work' = [x EXCEPT ![w].latest = items[c].result]
      BY <1>2, <2>2, <3>2 DEF Publish
    <3>6. work'[w] = [x[w] EXCEPT !.latest = items[c].result]
      BY <3>2, <3>5
    <3>7. work'[w].stage = "record"
      BY <3>4, <3>6 DEF Task
    <3>8. QED
      BY <3>7
  <2>3. QED
    BY <2>1, <2>2
<1>5. PICK item \in Item : item = work[w].item
  BY LocalItem
<1>6. AtEnd(w, c) /\ Attends(w, c)
  BY <1>1, <1>2, AtItem DEF AtEnd
<1>7. published' = [published EXCEPT ![c] = item] /\ published[c] \in Item /\ Shows(item)
  BY <1>2, <1>5, <1>6 DEF Publish, TypeOK, Items, ItemInv, Solid
<1>8. Steadies'
  <2> SUFFICES ASSUME NEW i \in Id \ raced PROVE Steady(i)'
    BY <1>1 DEF Steadies
  <2>1. \A v \in Worker \ {w} : (AtEnd(v, i)' <=> AtEnd(v, i)) /\ (Lists(v)' <=> Lists(v)) /\ work'[v] = work[v]
    BY <1>3, SameWorker DEF Lists
  <2>2. Steady(i) /\ (OnReEval(i)' <=> OnReEval(i))
    BY <1>1 DEF Steadies, OnReEval
  <2>3. CASE i # c
    BY <1>1, <1>3, <1>4, <2>1, <2>2, <2>3 DEF Steady
  <2>4. CASE i = c
    <3>1. (\A v \in Worker \ {w} : ~AtEnd(v, i)) /\ ~OnReEval(i)
      BY <1>6, <2>4, InOneHand
    <3>2. QED
      BY <1>4, <2>1, <2>2, <3>1 DEF Steady
  <2>5. QED
    BY <2>3, <2>4
<1>9. Lifecycle!Show(c, Screen(item)) /\ Screen(item) \in Lifecycle!Shown
  BY <1>7, Shown, ScreenOf
<1>10. Lives
  <2>1. CASE c \in raced
    <3>1. Lifecycle!Overwrite(c)
      BY <1>1, <1>9, <2>1 DEF Lifecycle!Overwrite
    <3>2. QED
      BY <3>1 DEF Lives, Lifecycle!Next
  <2>2. CASE ~published[c].listed
    <3>1. Screen(published[c]) = "absent"
      BY <1>7, <2>2, ScreenOf
    <3>2. Lifecycle!Appear(c)
      BY <1>1, <1>9, <3>1 DEF Lifecycle!Appear
    <3>3. QED
      BY <3>2 DEF Lives, Lifecycle!Next
  <2>3. CASE c \notin raced /\ published[c].listed
    <3>1. ~Lists(w)
      <4>1. SUFFICES ASSUME Lists(w) PROVE FALSE
        OBVIOUS
      <4>2. Early(w, c) /\ work[w].job.step \in {"list", "report"}
        BY <1>1, <1>2, <4>1 DEF Early, ToShow, Lists
      <4>3. EarlyList(c) \/ EarlyReport(c)
        BY <4>2 DEF EarlyList, EarlyReport, EarlyIn
      <4>4. QED
        BY <2>3, <4>3 DEF Items, ItemInv, Known
    <3>2. /\ published[c].loading /\ ~item.lazy
          /\ published[c].skipped /\ item.loading => item.skipped
      BY <1>1, <1>5, <1>6, <2>3, <3>1 DEF Steadies, Steady
    <3>3. Screen(published[c]) = (IF published[c].skipped THEN "skipped" ELSE "loading")
      BY <1>7, <2>3, <3>2, ScreenOf
    <3>4. CASE item.skipped \/ ~item.loading
      <4>1. Screen(item) \in {"skipped", "ready"}
        BY <1>7, <3>2, <3>4, ScreenOf DEF Shows
      <4>2. Lifecycle!Settle(c)
        BY <1>1, <1>9, <3>3, <4>1 DEF Lifecycle!Settle
      <4>3. QED
        BY <4>2 DEF Lives, Lifecycle!Next
    <3>5. CASE ~item.skipped /\ item.loading
      <4>1. Screen(item) = "loading" /\ Screen(published[c]) = "loading"
        BY <1>7, <3>2, <3>3, <3>5, ScreenOf DEF Shows
      <4>2. \A i \in Id : Screen(published'[i]) = Screen(published[i])
        BY <1>3, <1>7, <4>1 DEF TypeOK
      <4>3. QED
        BY <1>1, <4>2 DEF Lives, Lifecycle!vars
    <3>6. QED
      BY <3>4, <3>5
  <2>4. QED
    BY <2>1, <2>2, <2>3
<1>11. QED
  BY <1>8, <1>10

--------------------------------------------------------------------------------
(* The re-evaluation.                                                        *)

LEMMA ReEvaluateLives ==
  ASSUME IInv, Items, Steadies, NEW c \in Id, NEW p \in Preference, ReEvaluate(c, p)
  PROVE  Steadies' /\ Lives
<1> USE DEF IInv
<1>1. /\ reeval.stage = "none" /\ published[c].listed /\ published[c] \in Item
      /\ raced' \in {raced, raced \cup {c}} /\ (c \notin raced' => ~Busy(c) /\ c \notin raced)
      /\ raced \subseteq raced'
      /\ UNCHANGED <<items, published, work, exhausted>>
  BY DEF ReEvaluate, TypeOK
<1>2. reeval' = [stage |-> "read", id |-> c, item |-> [items[c] EXCEPT !.prefs = p, !.loading = TRUE]]
  BY DEF ReEvaluate
<1>3. PICK item \in Item : item = [items[c] EXCEPT !.prefs = p, !.loading = TRUE]
  BY DEF TypeOK, Item
<1>4. item.skipped = items[c].skipped
  BY <1>3 DEF TypeOK, Item
<1>5. reeval'.stage = "read" /\ reeval'.id = c /\ reeval'.item = item
  BY <1>2, <1>3
<1>6. Steadies'
  <2> SUFFICES ASSUME NEW i \in Id, i \notin raced' PROVE Steady(i)'
    BY DEF Steadies
  <2>1. \A v \in Worker : (AtEnd(v, i)' <=> AtEnd(v, i)) /\ (Lists(v)' <=> Lists(v))
    BY <1>1, SameWorker DEF Lists
  <2>2. i \notin raced /\ Steady(i)
    BY <1>1 DEF Steadies
  <2>3. OnReEval(i)' => i = c
    BY <1>5 DEF OnReEval
  <2>4. i = c => item.skipped = published[i].skipped
    <3> SUFFICES ASSUME i = c PROVE items[c].skipped = published[c].skipped
      BY <1>4
    <3>1. \A w \in Worker : ~AtEnd(w, c)
      BY <1>1, IdleItem
    <3>2. [published[c] EXCEPT !.lazy = items[c].lazy] = items[c]
      BY <1>1, <2>2, <3>1 DEF Items, ItemInv, Visible, OnReEval
    <3>3. QED
      BY <1>1, <3>2 DEF Item
  <2>5. QED
    BY <1>1, <1>5, <2>1, <2>2, <2>3, <2>4 DEF Steady
<1>7. Screen(published[c]) # "absent"
  BY <1>1, ScreenOf
<1>8. Lifecycle!Ask(c)
  BY <1>1, <1>5, <1>7 DEF Lifecycle!Ask
<1>9. QED
  BY <1>6, <1>8 DEF Lives, Lifecycle!Next

LEMMA ReEvaluateStoreLives ==
  ASSUME IInv, Steadies, ReEvaluateStore
  PROVE  Steadies' /\ Lives
<1>1. /\ reeval.stage = "read" /\ reeval' = [reeval EXCEPT !.stage = "stored"]
      /\ UNCHANGED <<published, work, raced, exhausted>>
  BY DEF ReEvaluateStore
<1>2. reeval'.stage = "stored" /\ reeval'.id = reeval.id /\ reeval'.item = reeval.item
  BY <1>1 DEF IInv, TypeOK
<1>3. \A v \in Worker, i \in Id : (AtEnd(v, i)' <=> AtEnd(v, i)) /\ (Lists(v)' <=> Lists(v))
  BY <1>1, SameWorker DEF Lists
<1>4. Steadies'
  BY <1>1, <1>2, <1>3 DEF Steadies, Steady, OnReEval
<1>5. Lives
  BY <1>1, <1>2 DEF Lives, Lifecycle!vars
<1>6. QED
  BY <1>4, <1>5

LEMMA ReEvaluatePushLives ==
  ASSUME IInv, Items, Steadies, ReEvaluatePush
  PROVE  Steadies' /\ Lives
<1> USE DEF IInv
<1>1. /\ reeval.stage = "stored" /\ reeval' = NoReEval
      /\ UNCHANGED <<items, counter, summary, work, asked, prefs, exhausted, raced>>
  BY DEF ReEvaluatePush
<1>2. PICK c \in Id : c = reeval.id
  BY <1>1 DEF TypeOK
<1>3. PICK old \in Item : old = reeval.item
  BY DEF TypeOK
<1>4. PICK item \in Item : item = [old EXCEPT !.lazy = FALSE]
  BY DEF Item
<1>5. published' = [published EXCEPT ![c] = item] /\ published[c] \in Item
  BY <1>2, <1>3, <1>4 DEF ReEvaluatePush, TypeOK
<1>6. \A i \in Id \ {c} : published'[i] = published[i]
  BY <1>5 DEF TypeOK
<1>7. reeval'.stage = "none"
  BY <1>1 DEF NoReEval
<1>8. OnReEval(c)
  BY <1>1, <1>2 DEF OnReEval
<1>9. published[c].listed /\ old.listed /\ old.loading
  BY <1>3, <1>8 DEF Items, ItemInv, Known, Solid
<1>10. item.listed /\ item.loading /\ item.skipped = old.skipped
  BY <1>4, <1>9 DEF Item
<1>11. Steadies'
  <2> SUFFICES ASSUME NEW i \in Id \ raced PROVE Steady(i)'
    BY <1>1 DEF Steadies
  <2>1. \A v \in Worker : (AtEnd(v, i)' <=> AtEnd(v, i)) /\ (Lists(v)' <=> Lists(v))
    BY <1>1, SameWorker DEF Lists
  <2>2. Steady(i) /\ ~OnReEval(i)'
    BY <1>7 DEF Steadies, OnReEval
  <2>3. i = c => \A v \in Worker : ~AtEnd(v, i)
    <3> SUFFICES ASSUME i = c PROVE \A v \in Worker : ~Attends(v, i)
      BY AtOne
    <3>1. QED
      BY <1>1, <1>2 DEF Chains, OneHand
  <2>4. QED
    BY <1>1, <1>6, <2>1, <2>2, <2>3 DEF Steady
<1>12. /\ Lifecycle!Show(c, Screen(item)) /\ Screen(item) \in Lifecycle!Shown
       /\ Screen(item) = (IF item.skipped THEN "skipped" ELSE "loading")
  BY <1>5, <1>10, Shown, ScreenOf DEF Shows
<1>13. Lives
  <2>1. CASE c \in raced
    <3>1. Lifecycle!Overwrite(c)
      BY <1>1, <1>2, <1>7, <1>12, <2>1 DEF Lifecycle!Overwrite
    <3>2. QED
      BY <3>1 DEF Lives, Lifecycle!Next
  <2>2. CASE c \notin raced
    <3>1. item.skipped = published[c].skipped
      BY <1>3, <1>8, <1>10, <2>2 DEF Steadies, Steady
    <3>2. (Screen(published[c]) = "skipped") <=> published[c].skipped
      BY <1>5, <1>9, ScreenOf DEF Screen
    <3>3. Lifecycle!Begin(c)
      BY <1>1, <1>2, <1>7, <1>12, <3>1, <3>2 DEF Lifecycle!Begin
    <3>4. QED
      BY <3>3 DEF Lives, Lifecycle!Next
  <2>3. QED
    BY <2>1, <2>2
<1>14. QED
  BY <1>11, <1>13

--------------------------------------------------------------------------------

LEMMA InitLives ==
  ASSUME Init
  PROVE  Steadies /\ Lifecycle!Init
<1>1. \A w \in Worker : work[w].stage = "free"
  BY FreeTask DEF Init
<1>2. Steadies
  BY <1>1 DEF Init, NoReEval, Steadies, Steady, AtEnd, OnReEval
<1>3. \A i \in Id : Screen(published[i]) = "absent"
  BY FreeTask, ScreenOf DEF Init, NoItem
<1>4. Lifecycle!Init
  BY <1>3 DEF Init, NoReEval, Lifecycle!Init
<1>5. QED
  BY <1>2, <1>4

LEMMA NextLives ==
  ASSUME IInv, Items, Steadies, [Next]_vars
  PROVE  Steadies' /\ Lives
<1>1. ASSUME NEW w \in Worker, WorkerStep(w) PROVE Steadies' /\ Lives
  <2>1. CASE \E kind \in Kind : ListPods(w, kind) \/ GetMetrics(w, kind) \/ Optimize(w, kind)
    BY <2>1, ListPodsLives, GetMetricsLives, OptimizeLives
  <2>2. CASE PassOver(w) \/ Record(w)
    BY <2>2, AdvancedLives DEF PassOver, Record, Begun
  <2>3. CASE \E wanted \in BOOLEAN : StoreReported(w, KindOf(IdOf(w)), wanted)
    BY <2>3, StoreReportedLives
  <2>4. CASE ListAllNamespaces(w) \/ OptimizeLazy(w)
    BY <2>4, FreedLives DEF ListAllNamespaces, OptimizeLazy
  <2>5. CASE ListWorkloads(w)
    BY <2>5, ArriveLives DEF ListWorkloads
  <2>6. CASE DownloadReport(w)
    BY <2>6, ArriveLives DEF DownloadReport
  <2>7. QED
    BY <1>1, <2>1, <2>2, <2>3, <2>4, <2>5, <2>6, WorkerSteps, TakeLives, FailLives, PublishLives,
       CountItemLives, StoreItemLives, OptimizeJobPanicsLives DEF IInv
<1>2. CASE UNCHANGED vars
  <2>1. Lives
    BY <1>2, Unmoved DEF vars
  <2>2. \A v \in Worker, i \in Id : (AtEnd(v, i)' <=> AtEnd(v, i)) /\ (Lists(v)' <=> Lists(v))
    BY <1>2, SameWorker DEF Lists, vars
  <2>3. Steadies'
    BY <1>2, <2>2 DEF vars, Steadies, Steady, OnReEval
  <2>4. QED
    BY <2>1, <2>3
<1>3. QED
  BY <1>1, <1>2, ReEvaluateLives, ReEvaluateStoreLives, ReEvaluatePushLives DEF Next

\* The processors implement ItemLifecycle, whatever jobs, retries and re-evaluations
\* overlap: every step shows the user what the life of an item allows, or nothing new.
THEOREM Refinement == Spec => ImplementsLifecycle
<1>1. Init => Lifecycle!Init /\ Steadies
  BY InitLives
<1>2. IInv /\ Items /\ Steadies /\ [Next]_vars => Steadies' /\ [Lifecycle!Next]_(Lifecycle!vars)
  BY NextLives DEF Lives
<1>3. QED
  BY <1>1, <1>2, Invariance, ItemsInvariance, PTL DEF Spec, ImplementsLifecycle, Lifecycle!Spec

--------------------------------------------------------------------------------
(* How many items are loaded before anybody asks for them, and what the      *)
(* recommendations of the loaded ones rest on.                               *)

\* The items come from listings, or from the reports of an agent.
ListMode ==
  /\ \A j \in Job : queue[j] > 0 => j.step # "report"
  /\ \A w \in Worker : work[w].job.step # "report"
ReportMode ==
  /\ counter = 0
  /\ \A j \in Job : queue[j] > 0 => j.step \notin {"namespaces", "list"}
  /\ \A w \in Worker : work[w].stage # "free" => work[w].job.step \notin {"namespaces", "list"}

\* The items that are not lazy, and the workers that have counted an item and not stored it.
Eager   == {i \in Id : items[i].listed /\ ~items[i].lazy}
Storing == {w \in Worker : work[w].stage = "store"}

\* Every eager item, and every one that may become eager, has been counted.
Loaded ==
  /\ IsFiniteSet(Eager) /\ IsFiniteSet(Storing)
  /\ Cardinality(Eager) + Cardinality(Storing) <= counter
  /\ Cardinality(Eager) <= LazyLoad
  /\ \A i \in Id : items[i].lazy => ~items[i].loading

Loading ==
  /\ asked = 0 => reeval.stage = "none" /\ raced = {}
  /\ ReportMode \/ (ListMode /\ (asked = 0 => Loaded))

\* Of an item that can be loaded: the work that is going to fetch its metrics.
FetchJob(j, i)  == Waits(j, i) /\ j.step \in {"pods", "metrics"}
FetchedBy(w, i) ==
  \/ AtCall(w, i) /\ work[w].job.step \in {"pods", "metrics"}
  \/ AtEnd(w, i) /\ work[w].job.step \in {"list", "pods"} /\ Follower(w) # {}
Fetching(i) == (\E j \in Job : FetchJob(j, i)) \/ (\E w \in Worker : FetchedBy(w, i))

\* An item has no result while it is lazy or its metrics are going to be fetched, and a
\* result from the metrics it has.  One that can be loaded is not skipped, and its metrics
\* have been fetched unless it is lazy or they are going to be.
Measured(i) ==
  /\ items[i].lazy \/ Fetching(i) => ~items[i].result.ready
  /\ items[i].result.ready => items[i].listed /\ items[i].result.metrics = items[i].metrics
  /\ ~Unavailable(i) /\ i \notin Elsewhere =>
       /\ ~items[i].skipped
       /\ i \in exhausted \/ ~items[i].listed \/ items[i].lazy \/ items[i].metrics # "none" \/ Fetching(i)
MeasuredAll == \A i \in Id \ raced : Measured(i)

--------------------------------------------------------------------------------
(* What a step of a worker pushes and goes on with.                          *)

Moved(w) ==
  /\ \A v \in Worker \ {w} : work'[v] = work[v]
  /\ \/ work'[w] = Free
     \/ work'[w].job = work[w].job /\ work[w].stage # "free"
     \/ work'[w].job \in Job /\ queue[work'[w].job] > 0
  /\ \A j \in Job : queue'[j] > 0 =>
       \/ queue[j] > 0 \/ j.step \in ItemSteps
       \/ work[w].stage # "free" /\ work[w].job.step = "namespaces" /\ j.step = "list"

LEMMA ModesKept ==
  ASSUME TypeOK, Stages, NEW w \in Worker, Moved(w), counter' = counter \/ work[w].stage = "count"
  PROVE  (ListMode => ListMode') /\ (ReportMode => ReportMode')
<1>1. Free.stage = "free" /\ Free.job.step = "namespaces"
  BY DEF Free, NewJob
<1>2. work[w].stage = "count" => work[w].job.step = "list"
  BY DEF Stages, StagesOf
<1>3. ASSUME ListMode PROVE ListMode'
  <2>1. \A j \in Job : queue'[j] > 0 => j.step # "report"
    BY <1>3 DEF Moved, ListMode, ItemSteps
  <2>2. \A v \in Worker : work'[v].job.step # "report"
    BY <1>1, <1>3 DEF Moved, ListMode
  <2>3. QED
    BY <2>1, <2>2 DEF ListMode
<1>4. ASSUME ReportMode PROVE ReportMode'
  <2>1. \A j \in Job : queue'[j] > 0 => j.step \notin {"namespaces", "list"}
    BY <1>4 DEF Moved, ReportMode, ItemSteps
  <2>2. work'[w].stage # "free" => work'[w].job.step \notin {"namespaces", "list"}
    BY <1>1, <1>4 DEF Moved, ReportMode
  <2>3. \A v \in Worker : work'[v].stage # "free" => work'[v].job.step \notin {"namespaces", "list"}
    BY <1>4, <2>2 DEF Moved, ReportMode
  <2>4. counter' = 0
    BY <1>2, <1>4 DEF ReportMode
  <2>5. QED
    BY <2>1, <2>3, <2>4 DEF ReportMode
<1>5. QED
  BY <1>3, <1>4

LEMMA OnlyPushed ==
  ASSUME TypeOK, NEW jobs, queue' = Pushed(jobs), \A j \in jobs : j.step \in ItemSteps
  PROVE  \A j \in Job : queue'[j] > 0 => queue[j] > 0 \/ j.step \in ItemSteps
BY DEF TypeOK, Pushed

\* A worker that gets free, having pushed only jobs of items.
LEMMA FreedMove ==
  ASSUME TypeOK, NEW w \in Worker, work' = [work EXCEPT ![w] = Free],
         \A j \in Job : queue'[j] > 0 => queue[j] > 0 \/ j.step \in ItemSteps
  PROVE  Moved(w) /\ work'[w].stage = "free"
<1>1. work'[w] = Free /\ \A v \in Worker \ {w} : work'[v] = work[v]
  BY DEF TypeOK
<1>2. QED
  BY <1>1, FreeTask DEF Moved

\* One that goes on with its listing, likewise.
LEMMA AdvancedMove ==
  ASSUME TypeOK, NEW w \in Worker, Begun(w), work' = [work EXCEPT ![w] = NextTask(w)],
         \A j \in Job : queue'[j] > 0 => queue[j] > 0 \/ j.step \in ItemSteps
  PROVE  Moved(w) /\ work'[w].stage \in {"free", "count", "report"}
<1>1. CASE ~(Lists(w) /\ Tail(work[w].rest) # <<>>)
  <2>1. work' = [work EXCEPT ![w] = Free]
    BY <1>1 DEF NextTask
  <2>2. QED
    BY <2>1, FreedMove
<1>2. CASE Lists(w) /\ Tail(work[w].rest) # <<>>
  <2>1. PICK s \in {"count", "report"} : s = (IF work[w].job.step = "list" THEN "count" ELSE "report")
    OBVIOUS
  <2>2. work[w] \in Task /\ work \in [Worker -> Task]
    BY DEF TypeOK
  <2>3. /\ work'[w] = [work[w] EXCEPT !.stage = s, !.rest = Tail(work[w].rest)]
        /\ \A v \in Worker \ {w} : work'[v] = work[v]
    BY <1>2, <2>1, <2>2 DEF NextTask
  <2>4. work'[w].stage = s /\ work'[w].job = work[w].job
    BY <2>2, <2>3 DEF Task
  <2>5. QED
    BY <2>3, <2>4 DEF Moved, Begun
<1>3. QED
  BY <1>1, <1>2

LEMMA TakeMove ==
  ASSUME TypeOK, NEW w \in Worker, Take(w)
  PROVE  /\ Moved(w)
         /\ work[w].stage = "free" /\ work'[w].stage = "call"
         /\ \E j \in Job : /\ queue[j] > 0 /\ work'[w].job = j
                           /\ \A k \in Job \ {j} : queue'[k] = queue[k]
<1>1. PICK j \in Job :
        /\ queue[j] > 0
        /\ queue' = [queue EXCEPT ![j] = @ - 1]
        /\ work' = [work EXCEPT ![w] = [Free EXCEPT !.stage = "call", !.job = j,
                                         !.item = IF j.of \in Id THEN items[j.of] ELSE NoItem]]
  BY DEF Take
<1>2. /\ work'[w] = [Free EXCEPT !.stage = "call", !.job = j, !.item = IF j.of \in Id THEN items[j.of] ELSE NoItem]
      /\ \A v \in Worker \ {w} : work'[v] = work[v]
  BY <1>1 DEF TypeOK
<1>3. work'[w].stage = "call" /\ work'[w].job = j
  BY <1>2, FreeTask DEF Task
<1>4. \A k \in Job \ {j} : queue'[k] = queue[k]
  BY <1>1 DEF TypeOK
<1>5. QED
  BY <1>1, <1>2, <1>3, <1>4 DEF Moved, Take

LEMMA ArriveMove ==
  ASSUME TypeOK, NEW w \in Worker, NEW list, NEW s \in {"count", "report"}, work[w].stage = "call",
         work' = [work EXCEPT ![w] = IF list = <<>> THEN Free ELSE [@ EXCEPT !.stage = s, !.rest = list]],
         queue' = queue
  PROVE  Moved(w) /\ work'[w].stage \in {"free", s}
<1>1. work[w] \in Task /\ work \in [Worker -> Task]
  BY DEF TypeOK
<1>2. /\ work'[w] = (IF list = <<>> THEN Free ELSE [work[w] EXCEPT !.stage = s, !.rest = list])
      /\ \A v \in Worker \ {w} : work'[v] = work[v]
  BY <1>1
<1>3. work'[w] = Free \/ (work'[w].job = work[w].job /\ work'[w].stage = s)
  BY <1>1, <1>2 DEF Task
<1>4. QED
  BY <1>2, <1>3, FreeTask DEF Moved

\* The jobs a failed one is run again as.
LEMMA FailMove ==
  ASSUME TypeOK, NEW w \in Worker, Fail(w)
  PROVE  /\ work[w].stage = "call"
         /\ Moved(w) /\ work'[w].stage = "free"
         /\ \/ /\ exhausted' = exhausted \cup ({work[w].job.of} \cap Id)
               /\ queue' = queue
            \/ /\ \E k \in Job : /\ queue' = Pushed({k})
                                 /\ k.step = work[w].job.step /\ k.of = work[w].job.of
               /\ exhausted' = exhausted
<1>1. /\ work[w].stage = "call" /\ work' = [work EXCEPT ![w] = Free]
  BY DEF Fail
<1>2. PICK j \in Job : j = work[w].job
  BY DEF TypeOK, Task
<1>3. CASE j.tries < Retries(j.step)
  <2>1. j.step \in {"metrics", "optimize"} /\ j.tries < MaxRetry /\ j.tries \in 0..MaxRetry
    BY <1>3, JobFields DEF Retries
  <2>2. /\ j = [step |-> j.step, kind |-> j.kind, of |-> j.of, tries |-> j.tries]
        /\ j.of \in Id /\ j.kind = KindOf(j.of) /\ j.step \in ItemSteps
    BY <2>1, JobFields DEF ItemSteps
  <2>3. [j EXCEPT !.tries = @ + 1] = [step |-> j.step, kind |-> KindOf(j.of), of |-> j.of, tries |-> j.tries + 1]
    BY <2>2
  <2>4. j.tries + 1 \in 0..MaxRetry
    BY <2>1, PipelineAssumption
  <2>5. PICK k \in Job : /\ k = [j EXCEPT !.tries = @ + 1]
                         /\ k.step = j.step /\ k.of = j.of /\ k.step \in ItemSteps
    BY <2>2, <2>3, <2>4, JobOfItem
  <2>6. queue' = Pushed({k}) /\ exhausted' = exhausted
    BY <1>2, <1>3, <2>5 DEF Fail
  <2>7. \A l \in Job : queue'[l] > 0 => queue[l] > 0 \/ l.step \in ItemSteps
    BY <2>5, <2>6 DEF TypeOK, Pushed
  <2>8. QED
    BY <1>1, <1>2, <2>5, <2>6, <2>7, FreedMove
<1>4. CASE ~(j.tries < Retries(j.step))
  <2>1. queue' = queue /\ exhausted' = exhausted \cup ({j.of} \cap Id)
    BY <1>2, <1>4 DEF Fail
  <2>2. Moved(w) /\ work'[w].stage = "free"
    BY <1>1, <2>1, FreedMove
  <2>3. QED
    BY <1>1, <1>2, <2>1, <2>2
<1>5. QED
  BY <1>3, <1>4

LEMMA ListAllNamespacesMove ==
  ASSUME TypeOK, NEW w \in Worker, ListAllNamespaces(w)
  PROVE  Moved(w) /\ work[w].stage = "call" /\ work'[w].stage = "free"
<1>1. work'[w] = Free /\ \A v \in Worker \ {w} : work'[v] = work[v]
  BY DEF TypeOK, ListAllNamespaces
<1>2. \A j \in Job : queue'[j] > 0 => queue[j] > 0 \/ j.step = "list"
  BY DEF TypeOK, ListAllNamespaces, Pushed, NewJob
<1>3. work[w].stage = "call" /\ work[w].job.step = "namespaces" /\ work'[w].stage = "free"
  BY <1>1, FreeTask DEF ListAllNamespaces, Running
<1>4. QED
  BY <1>1, <1>2, <1>3 DEF Moved

LEMMA OptimizeLazyMove ==
  ASSUME TypeOK, NEW w \in Worker, OptimizeLazy(w)
  PROVE  Moved(w) /\ work[w].stage = "call" /\ work'[w].stage = "free"
<1>1. \A j \in {ItemJob(FirstStep(work[w].job.kind), work[w].job.of)} : j.step \in ItemSteps
  BY DEF ItemJob, NewJob, FirstStep, ItemSteps
<1>2. \A j \in Job : queue'[j] > 0 => queue[j] > 0 \/ j.step \in ItemSteps
  BY <1>1, OnlyPushed DEF OptimizeLazy
<1>3. QED
  BY <1>2, FreedMove DEF OptimizeLazy, Running

LEMMA RecordMove ==
  ASSUME TypeOK, Stages, NEW w \in Worker, Record(w)
  PROVE  Moved(w) /\ work[w].stage = "record" /\ work'[w].stage \in {"free", "count", "report"}
<1>1. Begun(w)
  BY DEF Begun, Record
<1>2. \A j \in Follower(w) : j.step \in ItemSteps
  BY <1>1, FollowerJobs
<1>3. \A j \in Job : queue'[j] > 0 => queue[j] > 0 \/ j.step \in ItemSteps
  BY <1>2, OnlyPushed DEF Record
<1>4. QED
  BY <1>1, <1>3, AdvancedMove DEF Record

LEMMA PublishMove ==
  ASSUME TypeOK, Stages, NEW w \in Worker, Publish(w)
  PROVE  Moved(w) /\ work[w].stage = "publish" /\ work'[w].stage \in {"free", "record"}
<1>1. Begun(w) /\ work[w].stage = "publish" /\ IdOf(w) \in Id
  BY AtItem DEF Begun, Publish
<1>2. CASE work[w].job.step = "pods"
  <2>1. \A j \in Follower(w) : j.step \in ItemSteps
    BY <1>1, FollowerJobs
  <2>2. \A j \in Job : queue'[j] > 0 => queue[j] > 0 \/ j.step \in ItemSteps
    BY <1>2, <2>1, OnlyPushed DEF Publish
  <2>3. QED
    BY <1>1, <1>2, <2>2, FreedMove DEF Publish
<1>3. CASE work[w].job.step # "pods"
  <2>1. work[w] \in Task /\ work \in [Worker -> Task]
    BY DEF TypeOK
  <2>2. PICK x \in [Worker -> Task] : x = [work EXCEPT ![w].stage = "record"]
    <3>1. [work[w] EXCEPT !.stage = "record"] \in Task
      BY <2>1 DEF Task
    <3>2. QED
      BY <2>1, <3>1
  <2>3. x[w] = [work[w] EXCEPT !.stage = "record"] /\ \A v \in Worker \ {w} : x[v] = work[v]
    BY <2>1, <2>2
  <2>4. x[w] \in Task /\ x[w].stage = "record" /\ x[w].job = work[w].job
    BY <2>1, <2>2, <2>3 DEF Task
  <2>5. PICK c \in Id : c = IdOf(w)
    BY <1>1
  <2>6. work' = [x EXCEPT ![w].latest = items[c].result] /\ queue' = queue
    BY <1>3, <2>2, <2>5 DEF Publish
  <2>7. work'[w] = [x[w] EXCEPT !.latest = items[c].result] /\ \A v \in Worker \ {w} : work'[v] = work[v]
    BY <2>2, <2>3, <2>6
  <2>8. work'[w].stage = "record" /\ work'[w].job = work[w].job
    BY <2>4, <2>7 DEF Task
  <2>9. QED
    BY <1>1, <2>6, <2>7, <2>8 DEF Moved
<1>4. QED
  BY <1>2, <1>3

--------------------------------------------------------------------------------
(* What is loaded eagerly.                                                   *)

LEMMA StoringKept ==
  ASSUME NEW w \in Worker, \A v \in Worker \ {w} : work'[v] = work[v],
         work[w].stage # "store", work'[w].stage # "store"
  PROVE  Storing' = Storing
BY DEF Storing

\* A step of a worker that counts and stores nothing.
LEMMA PlainLoading ==
  ASSUME IInv, Loading, NEW w \in Worker, Moved(w), work[w].stage # "store", work'[w].stage # "store",
         UNCHANGED <<items, counter, reeval, asked, raced>>
  PROVE  Loading' /\ (ListMode => ListMode') /\ (ReportMode => ReportMode')
<1>1. (ListMode => ListMode') /\ (ReportMode => ReportMode')
  BY ModesKept DEF IInv
<1>2. Storing' = Storing
  BY StoringKept DEF Moved
<1>3. Eager' = Eager
  BY DEF Eager
<1>4. Loaded => Loaded'
  BY <1>2, <1>3 DEF Loaded
<1>5. QED
  BY <1>1, <1>4 DEF Loading

LEMMA CountItemLoading ==
  ASSUME IInv, Loading, NEW w \in Worker, CountItem(w)
  PROVE  Loading' /\ (ListMode => ListMode') /\ (ReportMode => ReportMode')
<1> USE DEF IInv
<1>1. work[w] \in Task /\ work \in [Worker -> Task] /\ work[w].stage = "count"
      /\ UNCHANGED <<items, queue, reeval, asked, raced>> /\ counter' = counter + 1 /\ counter \in Nat
  BY DEF TypeOK, CountItem
<1>2. work'[w] = [work[w] EXCEPT !.stage = "store"] /\ \A v \in Worker \ {w} : work'[v] = work[v]
  BY <1>1 DEF CountItem
<1>3. work'[w].stage = "store" /\ work'[w].job = work[w].job
  BY <1>1, <1>2 DEF Task
<1>4. (ListMode => ListMode') /\ (ReportMode => ReportMode')
  <2>1. Moved(w)
    BY <1>1, <1>2, <1>3 DEF Moved
  <2>2. QED
    BY <1>1, <2>1, ModesKept
<1>5. Storing' = Storing \cup {w} /\ w \notin Storing
  BY <1>1, <1>2, <1>3 DEF Storing
<1>6. Eager' = Eager
  BY <1>1 DEF Eager
<1>7. ASSUME Loaded PROVE Loaded'
  <2>1. IsFiniteSet(Storing') /\ Cardinality(Storing') = Cardinality(Storing) + 1
    BY <1>5, <1>7, FS_AddElement DEF Loaded
  <2>2. Cardinality(Storing) \in Nat /\ Cardinality(Eager) \in Nat
    BY <1>7, FS_CardinalityType DEF Loaded
  <2>3. Cardinality(Eager') + Cardinality(Storing') <= counter'
    BY <1>1, <1>6, <1>7, <2>1, <2>2 DEF Loaded
  <2>4. QED
    BY <1>1, <1>6, <1>7, <2>1, <2>3 DEF Loaded
<1>8. QED
  BY <1>1, <1>4, <1>7 DEF Loading

\* The counter is read after it was raised for every item that is stored or about to be.
LEMMA StoreItemLoading ==
  ASSUME IInv, Loading, NEW w \in Worker, StoreItem(w, KindOf(IdOf(w)), Unavailable(IdOf(w)))
  PROVE  Loading' /\ (ListMode => ListMode') /\ (ReportMode => ReportMode')
<1> USE DEF IInv
<1>1. work[w].stage = "store" /\ Begun(w) /\ work[w].job.step = "list"
  BY DEF StoreItem, Begun, Stages, StagesOf
<1>2. PICK c \in Id : c = IdOf(w)
  BY <1>1, AtItem
<1>3. PICK k \in Kind, u \in BOOLEAN : k = KindOf(c) /\ u = Unavailable(c)
  BY KindOfItem, ItemOfReport
<1>4. PICK lazy \in BOOLEAN : lazy = (counter > LazyLoad)
  <2>1. (counter > LazyLoad) \in BOOLEAN
    BY PipelineAssumption DEF TypeOK
  <2>2. QED
    BY <2>1, Zenon
<1>5. PICK item \in Item : /\ item = [NoItem EXCEPT !.listed = TRUE, !.loading = ~lazy, !.lazy = lazy,
                                                    !.prefs = Preferences(k), !.skipped = u]
                           /\ item.lazy = lazy /\ item.loading = ~lazy /\ item.listed
  <2>1. [NoItem EXCEPT !.listed = TRUE, !.loading = ~lazy, !.lazy = lazy,
                       !.prefs = Preferences(k), !.skipped = u] \in Item
    BY NewItem
  <2>2. QED
    BY <2>1, FreeTask DEF Item
<1>6. /\ Store(w, item)
      /\ UNCHANGED <<counter, published, summary, queue, reeval, asked, prefs, exhausted, raced>>
  BY <1>2, <1>3, <1>4, <1>5 DEF StoreItem
<1>7. /\ \A v \in Worker \ {w} : work'[v] = work[v]
      /\ work'[w].stage = "publish" /\ work'[w].job = work[w].job
      /\ items' = [items EXCEPT ![c] = item]
  BY <1>1, <1>2, <1>6, StoreEffect
<1>8. items'[c] = item /\ \A i \in Id \ {c} : items'[i] = items[i]
  BY <1>7 DEF TypeOK
<1>9. ListMode => ListMode'
  <2>1. Moved(w)
    BY <1>1, <1>6, <1>7 DEF Moved
  <2>2. QED
    BY <1>6, <2>1, ModesKept
<1>10. ~ReportMode
  BY <1>1 DEF ReportMode
<1>11. w \in Storing /\ Storing' = Storing \ {w}
  BY <1>1, <1>7 DEF Storing
<1>12. Eager' = IF lazy THEN Eager \ {c} ELSE Eager \cup {c}
  BY <1>5, <1>8 DEF Eager
<1>13. ASSUME Loaded PROVE Loaded'
  <2>1. IsFiniteSet(Storing') /\ Cardinality(Storing') = Cardinality(Storing) - 1
    BY <1>11, <1>13, FS_RemoveElement DEF Loaded
  <2>2. Cardinality(Storing) \in Nat /\ Cardinality(Storing') \in Nat /\ Cardinality(Eager) \in Nat /\ counter \in Nat
    BY <1>13, <2>1, FS_CardinalityType DEF Loaded, TypeOK
  <2>3. \A i \in Id : items'[i].lazy => ~items'[i].loading
    BY <1>5, <1>8, <1>13 DEF Loaded
  <2>4. CASE lazy
    <3>1. Eager' \subseteq Eager
      BY <1>12, <2>4
    <3>2. IsFiniteSet(Eager') /\ Cardinality(Eager') <= Cardinality(Eager) /\ Cardinality(Eager') \in Nat
      BY <3>1, <1>13, FS_Subset, FS_CardinalityType DEF Loaded
    <3>3. /\ Cardinality(Eager') + Cardinality(Storing') <= counter
          /\ Cardinality(Eager') <= LazyLoad
      BY <1>13, <2>1, <2>2, <3>2, PipelineAssumption DEF Loaded
    <3>4. QED
      BY <1>6, <2>1, <2>3, <3>2, <3>3 DEF Loaded
  <2>5. CASE ~lazy
    <3>1. Eager' = Eager \cup {c}
      BY <1>12, <2>5
    <3>2. IsFiniteSet(Eager') /\ Cardinality(Eager') <= Cardinality(Eager) + 1 /\ Cardinality(Eager') \in Nat
      <4>1. IsFiniteSet(Eager')
        BY <3>1, <1>13, FS_AddElement DEF Loaded
      <4>2. Cardinality(Eager') = (IF c \in Eager THEN Cardinality(Eager) ELSE Cardinality(Eager) + 1)
        BY <3>1, <1>13, FS_AddElement DEF Loaded
      <4>3. QED
        BY <2>2, <4>1, <4>2, FS_CardinalityType
    <3>3. counter <= LazyLoad
      <4>1. ~(counter > LazyLoad)
        BY <1>4, <2>5, Zenon
      <4>2. QED
        BY <2>2, <4>1, PipelineAssumption
    <3>4. Cardinality(Eager') + Cardinality(Storing') <= counter
      BY <1>13, <2>1, <2>2, <3>2 DEF Loaded
    <3>5. Cardinality(Eager') <= LazyLoad
      BY <2>2, <3>2, <3>3, <3>4, PipelineAssumption
    <3>6. QED
      BY <1>6, <2>1, <2>3, <3>2, <3>4, <3>5 DEF Loaded
  <2>6. QED
    BY <2>4, <2>5
<1>14. QED
  BY <1>6, <1>9, <1>10, <1>13 DEF Loading

LEMMA StoreReportedLoading ==
  ASSUME IInv, Loading, NEW w \in Worker, NEW kind, NEW wanted \in BOOLEAN, StoreReported(w, kind, wanted)
  PROVE  Loading' /\ (ListMode => ListMode') /\ (ReportMode => ReportMode')
<1> USE DEF IInv
<1>1. /\ work[w].stage = "report" /\ Begun(w) /\ IdOf(w) \in Id /\ work[w].job.step = "report"
      /\ UNCHANGED <<counter, queue, reeval, asked, raced>>
  BY AtItem DEF StoreReported, Begun, Stages, StagesOf
<1>2. ReportMode
  BY <1>1 DEF Loading, ListMode
<1>3. \A j \in Job : queue'[j] > 0 => queue[j] > 0 \/ j.step \in ItemSteps
  BY <1>1
<1>4. Moved(w)
  <2>1. CASE IdOf(w) \in Malformed
    BY <1>3, <2>1, FreedMove DEF StoreReported
  <2>2. CASE IdOf(w) \notin Malformed /\ ~wanted
    BY <1>1, <1>3, <2>2, AdvancedMove DEF StoreReported
  <2>3. CASE IdOf(w) \notin Malformed /\ wanted
    <3>1. Store(w, ReportedItem(IdOf(w))) /\ ReportedItem(IdOf(w)) \in Item
      BY <1>1, <2>3, ItemOfReport DEF StoreReported
    <3>2. work'[w].job = work[w].job /\ \A v \in Worker \ {w} : work'[v] = work[v]
      BY <1>1, <3>1, StoreEffect
    <3>3. QED
      BY <1>1, <3>2 DEF Moved
  <2>4. QED
    BY <2>1, <2>2, <2>3
<1>5. ReportMode'
  BY <1>1, <1>2, <1>4, ModesKept
<1>6. ~ListMode
  BY <1>1 DEF ListMode
<1>7. QED
  BY <1>1, <1>5, <1>6 DEF Loading

\* A job of an item stores it: nobody asked yet, so the item was eager before.
LEMMA StoreCopyLoading ==
  ASSUME IInv, Items, Loading, NEW w \in Worker, NEW item \in Item, Store(w, item),
         work[w].stage = "call", work[w].job.step \in ItemSteps,
         UNCHANGED <<counter, published, summary, queue, reeval, asked, prefs, exhausted, raced>>,
         ~item.lazy
  PROVE  Loading' /\ (ListMode => ListMode') /\ (ReportMode => ReportMode')
<1> USE DEF IInv
<1>1. PICK c \in Id : c = IdOf(w) /\ AtCall(w, c)
  <2>1. AtCall(w, IdOf(w))
    BY DEF AtCall, IdOf, Lists, ItemSteps
  <2>2. QED
    BY <2>1, AtOne
<1>2. /\ \A v \in Worker \ {w} : work'[v] = work[v]
      /\ work'[w].stage = "publish" /\ work'[w].job = work[w].job
      /\ items' = [items EXCEPT ![c] = item]
  BY <1>1, StoreEffect
<1>3. items'[c] = item /\ \A i \in Id \ {c} : items'[i] = items[i]
  BY <1>2 DEF TypeOK
<1>4. (ListMode => ListMode') /\ (ReportMode => ReportMode')
  <2>1. Moved(w)
    BY <1>2 DEF Moved
  <2>2. QED
    BY <2>1, ModesKept
<1>5. Storing' = Storing
  BY <1>2, StoringKept
<1>6. ASSUME asked = 0, ListMode, Loaded PROVE Loaded'
  <2>1. c \notin raced /\ ItemInv(c) /\ Going(c)
    BY <1>1, <1>6 DEF Loading, Items, Going
  <2>2. items[c].listed /\ items[c].loading
    BY <1>1, <2>1 DEF ItemInv, Known, Current
  <2>3. ~items[c].lazy
    BY <1>6, <2>2 DEF Loaded
  <2>4. Eager' \subseteq Eager
    BY <1>3, <2>2, <2>3 DEF Eager
  <2>5. /\ IsFiniteSet(Eager') /\ Cardinality(Eager') <= Cardinality(Eager)
        /\ Cardinality(Eager') \in Nat /\ Cardinality(Eager) \in Nat /\ Cardinality(Storing) \in Nat
    BY <1>6, <2>4, FS_Subset, FS_CardinalityType DEF Loaded
  <2>6. Cardinality(Eager') + Cardinality(Storing') <= counter /\ Cardinality(Eager') <= LazyLoad
    BY <1>5, <1>6, <2>5, PipelineAssumption DEF Loaded, TypeOK
  <2>7. \A i \in Id : items'[i].lazy => ~items'[i].loading
    BY <1>3, <1>6 DEF Loaded
  <2>8. QED
    BY <1>5, <1>6, <2>5, <2>6, <2>7 DEF Loaded
<1>7. QED
  BY <1>4, <1>6 DEF Loading

LEMMA ItemStepLoading ==
  ASSUME IInv, Items, Loading, NEW w \in Worker, NEW kind, ListPods(w, kind) \/ GetMetrics(w, kind) \/ Optimize(w, kind)
  PROVE  Loading' /\ (ListMode => ListMode') /\ (ReportMode => ReportMode')
<1>1. PICK old \in Item : old = work[w].item
  BY LocalItem DEF IInv
<1>2. /\ work[w].stage = "call" /\ work[w].job.step \in ItemSteps
      /\ UNCHANGED <<counter, published, summary, queue, reeval, asked, prefs, exhausted, raced>>
  BY DEF ListPods, GetMetrics, Optimize, At, Running, ItemSteps
<1>3. CASE ListPods(w, kind)
  <2>1. PICK item \in Item : item = [old EXCEPT !.lazy = FALSE, !.skipped = @ \/ IdOf(w) \in Elsewhere]
    BY <1>1, LocalItem DEF IInv
  <2>2. Store(w, item) /\ ~item.lazy
    BY <1>1, <1>3, <2>1 DEF ListPods, Item
  <2>3. QED
    BY <1>2, <2>2, StoreCopyLoading
<1>4. CASE GetMetrics(w, kind)
  <2>1. PICK m \in Measure, item \in Item : /\ item = [old EXCEPT !.metrics = m, !.lazy = FALSE]
                                           /\ Store(w, item)
    BY <1>1, <1>4, LocalItem, MetricsStored DEF IInv
  <2>2. Store(w, item) /\ ~item.lazy
    BY <2>1 DEF Item
  <2>3. QED
    BY <1>2, <2>2, StoreCopyLoading
<1>5. CASE Optimize(w, kind)
  <2>1. PICK item \in Item : item = [old EXCEPT !.loading = FALSE, !.skipped = FALSE,
               !.result = [ready |-> TRUE, prefs |-> old.prefs, metrics |-> old.metrics]]
    BY <1>1, LocalItem DEF IInv
  <2>2. Store(w, item) /\ ~item.lazy
    BY <1>1, <1>5, <2>1 DEF Optimize, Item
  <2>3. QED
    BY <1>2, <2>2, StoreCopyLoading
<1>6. QED
  BY <1>3, <1>4, <1>5

--------------------------------------------------------------------------------

LEMMA WorkerLoading ==
  ASSUME IInv, Items, Loading, NEW w \in Worker, WorkerStep(w)
  PROVE  Loading' /\ (ListMode => ListMode') /\ (ReportMode => ReportMode')
<1> USE DEF IInv
<1>1. CASE Take(w) \/ Fail(w) \/ Publish(w) \/ Record(w)
  <2>1. Moved(w) /\ work[w].stage # "store" /\ work'[w].stage # "store"
    BY <1>1, TakeMove, FailMove, PublishMove, RecordMove
  <2>2. UNCHANGED <<items, counter, reeval, asked, raced>>
    BY <1>1 DEF Take, Fail, Publish, Record
  <2>3. QED
    BY <2>1, <2>2, PlainLoading
<1>2. CASE ListAllNamespaces(w) \/ OptimizeLazy(w)
  <2>1. Moved(w) /\ work[w].stage # "store" /\ work'[w].stage # "store"
    BY <1>2, ListAllNamespacesMove, OptimizeLazyMove
  <2>2. UNCHANGED <<items, counter, reeval, asked, raced>>
    BY <1>2 DEF ListAllNamespaces, OptimizeLazy
  <2>3. QED
    BY <2>1, <2>2, PlainLoading
<1>3. CASE ListWorkloads(w) \/ DownloadReport(w)
  <2>1. Moved(w) /\ work[w].stage # "store" /\ work'[w].stage # "store"
    BY <1>3, ArriveMove DEF ListWorkloads, DownloadReport, Running
  <2>2. UNCHANGED <<items, counter, reeval, asked, raced>>
    BY <1>3 DEF ListWorkloads, DownloadReport
  <2>3. QED
    BY <2>1, <2>2, PlainLoading
<1>4. CASE PassOver(w)
  <2>1. work[w].stage = "count" /\ Begun(w) /\ work' = [work EXCEPT ![w] = NextTask(w)]
        /\ UNCHANGED <<items, counter, queue, reeval, asked, raced>>
    BY <1>4 DEF PassOver, Begun
  <2>2. Moved(w) /\ work'[w].stage # "store"
    BY <2>1, AdvancedMove
  <2>3. QED
    BY <2>1, <2>2, PlainLoading
<1>5. CASE OptimizeJobPanics(w)
  <2>1. work[w].stage = "call" /\ work' = [work EXCEPT ![w] = Free]
        /\ UNCHANGED <<items, counter, queue, reeval, asked, raced>>
    BY <1>5 DEF OptimizeJobPanics, At, Running
  <2>2. Moved(w) /\ work'[w].stage # "store"
    BY <2>1, FreedMove
  <2>3. QED
    BY <2>1, <2>2, PlainLoading
<1>6. CASE \E kind \in Kind : ListPods(w, kind) \/ GetMetrics(w, kind) \/ Optimize(w, kind)
  BY <1>6, ItemStepLoading
<1>7. CASE \E wanted \in BOOLEAN : StoreReported(w, KindOf(IdOf(w)), wanted)
  BY <1>7, StoreReportedLoading
<1>8. QED
  BY <1>1, <1>2, <1>3, <1>4, <1>5, <1>6, <1>7, WorkerSteps, CountItemLoading, StoreItemLoading

LEMMA NextLoading ==
  ASSUME IInv, Items, Loading, [Next]_vars
  PROVE  Loading' /\ (ListMode => ListMode') /\ (ReportMode => ReportMode')
<1> USE DEF IInv
<1>1. ASSUME UNCHANGED <<queue, counter, work>> \/ (UNCHANGED <<counter, work>> /\ ReEvaluatePush)
      PROVE  (ListMode => ListMode') /\ (ReportMode => ReportMode')
  <2>1. \A j \in Job : queue'[j] > 0 => queue[j] > 0 \/ j.step = "optimize"
    BY <1>1 DEF ReEvaluatePush, Pushed, ItemJob, NewJob, TypeOK
  <2>2. QED
    BY <1>1, <2>1 DEF ListMode, ReportMode
<1>2. ASSUME NEW i \in Id, NEW p \in Preference, ReEvaluate(i, p) PROVE Loading' /\ (ListMode => ListMode') /\ (ReportMode => ReportMode')
  <2>1. asked' # 0 /\ UNCHANGED <<queue, counter, work>>
    BY <1>2 DEF ReEvaluate, TypeOK
  <2>2. QED
    BY <1>1, <2>1 DEF Loading
<1>3. CASE ReEvaluateStore \/ ReEvaluatePush
  <2>1. asked # 0 /\ asked' = asked
    BY <1>3 DEF Loading, ReEvaluateStore, ReEvaluatePush
  <2>2. QED
    BY <1>1, <1>3, <2>1 DEF Loading, ReEvaluateStore, ReEvaluatePush
<1>4. CASE UNCHANGED vars
  <2>1. Loaded => Loaded'
    BY <1>4 DEF vars, Loaded, Eager, Storing
  <2>2. QED
    BY <1>1, <1>4, <2>1 DEF Loading, vars
<1>5. QED
  BY <1>2, <1>3, <1>4, WorkerLoading DEF Next

LEMMA InitLoading ==
  ASSUME Init
  PROVE  Loading /\ (AgentEnabled \subseteq {FALSE} => ListMode) /\ (AgentEnabled \subseteq {TRUE} => ReportMode)
<1>1. PICK kinds \in Started, agent \in AgentEnabled :
        queue = [j \in Job |-> IF \E k \in kinds : j = NewProcessor(k, agent) THEN 1 ELSE 0]
  BY DEF Init
<1>2. \A j \in Job : queue[j] > 0 => j.step = (IF agent THEN "report" ELSE "namespaces")
  BY <1>1 DEF NewProcessor, NewJob
<1>3. \A w \in Worker : work[w].stage = "free" /\ work[w].job.step = "namespaces"
  BY DEF Init, Free, NewJob
<1>4. (agent => ReportMode) /\ (~agent => ListMode)
  BY <1>2, <1>3 DEF Init, ListMode, ReportMode
<1>5. Eager = {} /\ Storing = {}
  BY <1>3 DEF Init, Eager, Storing, NoItem
<1>6. Loaded
  BY <1>5, FS_EmptySet, PipelineAssumption DEF Loaded, Init, NoItem
<1>7. agent \in BOOLEAN
  BY PipelineAssumption
<1>8. Loading
  BY <1>4, <1>6, <1>7 DEF Init, NoReEval, Loading
<1>9. QED
  BY <1>4, <1>8

\* The listings of any number of namespaces and kinds keep Loading: what the shared
\* counter admits is what was loaded unasked.
THEOREM LoadingInvariance == Spec => []Loading
<1>1. Init => Loading
  BY InitLoading
<1>2. IInv /\ Items /\ Loading /\ [Next]_vars => Loading'
  BY NextLoading
<1>3. QED
  BY <1>1, <1>2, Invariance, ItemsInvariance, PTL DEF Spec

\* However the listings of any number of namespaces and kinds interleave on the shared
\* counter, no more than LazyLoad items are loaded without being asked for.
THEOREM EagerBounded == Spec => []EagerAtMostLazyLoad
<1>1. IInv /\ Loading => EagerAtMostLazyLoad
  <2> SUFFICES ASSUME IInv, Loading, asked = 0, counter > 0 PROVE Cardinality(Eager) <= LazyLoad
    BY DEF EagerAtMostLazyLoad, Eager
  <2>1. ~ReportMode
    BY DEF ReportMode, IInv, TypeOK
  <2>2. QED
    BY <2>1 DEF Loading, Loaded
<1>2. QED
  BY <1>1, Invariance, LoadingInvariance, PTL

--------------------------------------------------------------------------------
(* What the recommendations rest on.                                         *)

\* Jobs are pushed and none is taken.
Grows == \A j \in Job : queue[j] > 0 => queue'[j] > 0

LEMMA PushedGrows ==
  ASSUME TypeOK, NEW jobs, queue' = Pushed(jobs)
  PROVE  Grows /\ \A j \in jobs : j \in Job => queue'[j] > 0
BY DEF TypeOK, Pushed, Grows

LEMMA SameGrows ==
  ASSUME TypeOK, queue' = queue
  PROVE  Grows
BY DEF TypeOK, Grows

LEMMA GrownFetch ==
  ASSUME TypeOK, Grows, NEW j \in Job, NEW i
  PROVE  FetchJob(j, i) => FetchJob(j, i)'
<1>1. queue[j] > 0 => queue'[j] > 0
  BY DEF Grows
<1>2. QED
  BY <1>1 DEF FetchJob, Waits

\* The metrics are going to be fetched, if worker w carries on with what it had to fetch.
LEMMA FetchGoesOn ==
  ASSUME NEW w \in Worker, \A v \in Worker \ {w} : work'[v] = work[v], NEW i \in Id,
         \A j \in Job : FetchJob(j, i) => FetchJob(j, i)' \/ FetchedBy(w, i)',
         FetchedBy(w, i) => FetchedBy(w, i)' \/ \E j \in Job : FetchJob(j, i)'
  PROVE  Fetching(i) => Fetching(i)'
<1>1. \A v \in Worker \ {w} : FetchedBy(v, i)' <=> FetchedBy(v, i)
  BY SameWorker DEF FetchedBy
<1>2. QED
  BY <1>1 DEF Fetching

\* Nobody begins to fetch metrics but for what worker w did, or for an item that is lazy.
LEMMA FetchComesFrom ==
  ASSUME NEW w \in Worker, \A v \in Worker \ {w} : work'[v] = work[v], NEW i \in Id,
         \A j \in Job : FetchJob(j, i)' => FetchJob(j, i) \/ FetchedBy(w, i) \/ items[i].lazy,
         FetchedBy(w, i)' => FetchedBy(w, i) \/ \E j \in Job : FetchJob(j, i)
  PROVE  Fetching(i)' => Fetching(i) \/ items[i].lazy
<1>1. \A v \in Worker \ {w} : FetchedBy(v, i)' <=> FetchedBy(v, i)
  BY SameWorker DEF FetchedBy
<1>2. QED
  BY <1>1 DEF Fetching

\* The jobs that are pushed have nothing to do with the metrics of item i.
LEMMA PushedFetch ==
  ASSUME TypeOK, NEW jobs, queue' = Pushed(jobs), NEW i,
         \A j \in jobs : j.of = i => j.step \notin {"pods", "metrics"}
  PROVE  \A j \in Job : FetchJob(j, i)' => FetchJob(j, i)
BY DEF TypeOK, Pushed, FetchJob, Waits

LEMMA SameFetch ==
  ASSUME queue' = queue, NEW i
  PROVE  \A j \in Job : FetchJob(j, i)' <=> FetchJob(j, i)
BY DEF FetchJob, Waits

LEMMA MeasuredKept ==
  ASSUME MeasuredAll, NEW i \in Id \ raced, items'[i] = items[i], i \in exhausted => i \in exhausted',
         Fetching(i) => Fetching(i)' \/ i \in exhausted',
         Fetching(i)' => Fetching(i) \/ items[i].lazy
  PROVE  Measured(i)'
BY DEF MeasuredAll, Measured

\* A step of a worker that fetches nothing and stores nothing.
LEMMA PlainMeasured ==
  ASSUME IInv, MeasuredAll, NEW w \in Worker, \A v \in Worker \ {w} : work'[v] = work[v],
         \A i \in Id : ~FetchedBy(w, i), Grows,
         work'[w].stage \in {"free", "count", "store", "report"},
         \A i \in Id \ raced : \A j \in Job : FetchJob(j, i)' => FetchJob(j, i) \/ items[i].lazy,
         items' = items, raced' = raced, exhausted \subseteq exhausted'
  PROVE  MeasuredAll'
<1> SUFFICES ASSUME NEW i \in Id \ raced PROVE Measured(i)'
  BY DEF MeasuredAll
<1>1. Fetching(i) => Fetching(i)'
  BY FetchGoesOn, GrownFetch DEF IInv
<1>2. ~FetchedBy(w, i)'
  BY DEF FetchedBy, AtCall, AtEnd
<1>3. Fetching(i)' => Fetching(i) \/ items[i].lazy
  BY <1>2, FetchComesFrom
<1>4. QED
  BY <1>1, <1>3, MeasuredKept

\* A worker that fetches nothing: it is at no item, or at the last step.
LEMMA FetchesNone ==
  ASSUME NEW w \in Worker,
         \/ work[w].stage \in {"free", "count", "store", "report"}
         \/ work[w].stage = "call" /\ work[w].job.step \notin {"pods", "metrics"}
         \/ work[w].job.step \notin {"list", "pods", "metrics"}
  PROVE  \A i \in Id : ~FetchedBy(w, i)
BY DEF FetchedBy, AtCall, AtEnd

LEMMA TakeMeasured ==
  ASSUME IInv, MeasuredAll, NEW w \in Worker, Take(w)
  PROVE  MeasuredAll'
<1>1. PICK j \in Job : /\ queue[j] > 0 /\ work'[w].job = j
                       /\ \A k \in Job \ {j} : queue'[k] = queue[k]
  BY TakeMove DEF IInv
<1>2. /\ work[w].stage = "free" /\ work'[w].stage = "call"
      /\ \A v \in Worker \ {w} : work'[v] = work[v]
  BY TakeMove DEF IInv, Moved
<1> SUFFICES ASSUME NEW i \in Id \ raced PROVE Measured(i)'
  BY DEF MeasuredAll, Take
<1>3. ~FetchedBy(w, i)
  BY <1>2, FetchesNone
<1>4. ASSUME NEW k \in Job, FetchJob(k, i) PROVE FetchJob(k, i)' \/ FetchedBy(w, i)'
  <2>1. CASE k = j
    BY <1>1, <1>2, <1>4, <2>1 DEF FetchJob, Waits, FetchedBy, AtCall
  <2>2. CASE k # j
    BY <1>1, <1>4, <2>2 DEF FetchJob, Waits
  <2>3. QED
    BY <2>1, <2>2
<1>5. Fetching(i) => Fetching(i)'
  BY <1>2, <1>3, <1>4, FetchGoesOn
<1>6. \A k \in Job : FetchJob(k, i)' => FetchJob(k, i)
  BY <1>1 DEF FetchJob, Waits
<1>7. FetchedBy(w, i)' => FetchJob(j, i)
  BY <1>1, <1>2 DEF FetchedBy, AtCall, AtEnd, FetchJob, Waits
<1>8. Fetching(i)' => Fetching(i) \/ items[i].lazy
  BY <1>2, <1>6, <1>7, FetchComesFrom
<1>9. QED
  BY <1>5, <1>8, MeasuredKept DEF Take

LEMMA FailMeasured ==
  ASSUME IInv, MeasuredAll, NEW w \in Worker, Fail(w)
  PROVE  MeasuredAll'
<1> USE DEF IInv
<1> SUFFICES ASSUME NEW i \in Id \ raced PROVE Measured(i)'
  BY DEF MeasuredAll, Fail
<1>1. /\ work[w].stage = "call" /\ work'[w].stage = "free"
      /\ \A v \in Worker \ {w} : work'[v] = work[v]
  BY FailMove DEF Moved
<1> ~FetchedBy(w, i)'
  BY <1>1 DEF FetchedBy, AtCall, AtEnd
<1>2. FetchedBy(w, i) => work[w].job.step \in {"pods", "metrics"} /\ work[w].job.of = i
  BY <1>1 DEF FetchedBy, AtCall, AtEnd
<1>3. CASE exhausted' = exhausted \cup ({work[w].job.of} \cap Id) /\ queue' = queue
  <2> Fetching(i)' => Fetching(i) \/ items[i].lazy
    BY <1>1, <1>3, SameFetch, FetchComesFrom
  <2>1. CASE FetchedBy(w, i)
    BY <1>2, <1>3, <2>1, MeasuredKept DEF Fail
  <2>2. CASE ~FetchedBy(w, i)
    <3>1. Fetching(i) => Fetching(i)'
      BY <1>1, <1>3, <2>2, SameGrows, GrownFetch, FetchGoesOn
    <3>2. QED
      BY <1>3, <3>1, MeasuredKept DEF Fail
  <2>3. QED
    BY <2>1, <2>2
<1>4. ASSUME NEW k \in Job, queue' = Pushed({k}), k.step = work[w].job.step, k.of = work[w].job.of,
             exhausted' = exhausted
      PROVE  Measured(i)'
  <2>1. Grows /\ queue'[k] > 0
    BY <1>4 DEF TypeOK, Pushed, Grows
  <2>2. FetchedBy(w, i) => FetchJob(k, i)'
    BY <1>2, <1>4, <2>1 DEF FetchJob, Waits, ItemSteps
  <2>3. Fetching(i) => Fetching(i)'
    BY <1>1, <2>1, <2>2, GrownFetch, FetchGoesOn
  <2>4. \A j \in Job : FetchJob(j, i)' => FetchJob(j, i) \/ FetchedBy(w, i)
    BY <1>1, <1>4 DEF TypeOK, Pushed, FetchJob, Waits, FetchedBy, AtCall
  <2>5. Fetching(i)' => Fetching(i) \/ items[i].lazy
    BY <1>1, <2>4, FetchComesFrom
  <2>6. QED
    BY <1>4, <2>3, <2>5, MeasuredKept DEF Fail
<1>5. QED
  BY <1>3, <1>4, FailMove

\* The job that follows a listing, or the pods, is on the way to the metrics.
LEMMA FollowerFetches ==
  ASSUME TypeOK, Stages, NEW w \in Worker, Begun(w), work[w].job.step \in {"list", "pods"}, Follower(w) # {},
         queue' = Pushed(Follower(w)), NEW c \in Id, c = IdOf(w)
  PROVE  \E j \in Job : FetchJob(j, c)'
<1>1. PICK j : j \in Follower(w)
  OBVIOUS
<1>2. j \in Job /\ j.step \in ItemSteps /\ j.of = IdOf(w)
  BY <1>1, FollowerJobs
<1>3. j.step \in {"pods", "metrics"}
  BY <1>1 DEF Follower, FirstStep, ItemJob, NewJob
<1>4. queue'[j] > 0
  BY <1>1, <1>2 DEF Pushed, TypeOK
<1>5. QED
  BY <1>2, <1>3, <1>4 DEF FetchJob, Waits

\* Only they push jobs that fetch metrics.
LEMMA FollowerFetched ==
  ASSUME TypeOK, Stages, NEW w \in Worker, work[w].stage \in {"publish", "record"}, queue' = Pushed(Follower(w)), NEW i \in Id
  PROVE  \A j \in Job : FetchJob(j, i)' => FetchJob(j, i) \/ FetchedBy(w, i)
<1>1. Begun(w)
  BY DEF Begun
<1>2. \A j \in Follower(w) : j.of = IdOf(w)
  BY <1>1, FollowerJobs
<1>3. \A j \in Follower(w) : j.step \in {"pods", "metrics"} => work[w].job.step \in {"list", "pods"}
  BY DEF Follower, ItemJob, NewJob
<1>4. \A j \in Job : queue'[j] > 0 => queue[j] > 0 \/ j \in Follower(w)
  BY DEF TypeOK, Pushed
<1>5. QED
  BY <1>2, <1>3, <1>4 DEF FetchJob, Waits, FetchedBy, AtEnd

LEMMA PublishMeasured ==
  ASSUME IInv, MeasuredAll, NEW w \in Worker, Publish(w)
  PROVE  MeasuredAll'
<1> USE DEF IInv
<1> SUFFICES ASSUME NEW i \in Id \ raced PROVE Measured(i)'
  BY DEF MeasuredAll, Publish
<1>1. Begun(w) /\ work[w].stage = "publish"
  BY DEF Begun, Publish
<1>2. PICK c \in Id : c = IdOf(w)
  BY <1>1, AtItem
<1>3. \A v \in Worker \ {w} : work'[v] = work[v]
  BY <1>2, PublishEffect
<1>4. FetchedBy(w, i) => i = c /\ work[w].job.step \in {"list", "pods"} /\ Follower(w) # {}
  BY <1>1, <1>2 DEF FetchedBy, AtCall, AtEnd
<1>5. Grows /\ (FetchedBy(w, i) => FetchedBy(w, i)' \/ \E j \in Job : FetchJob(j, i)')
  <2>1. CASE queue' = Pushed(Follower(w))
    BY <1>1, <1>2, <1>4, <2>1, PushedGrows, FollowerFetches
  <2>2. CASE queue' = queue /\ AtEnd(w, c)' /\ work'[w].job = work[w].job /\ Follower(w)' = Follower(w)
    BY <1>4, <2>2, SameGrows DEF FetchedBy
  <2>3. QED
    BY <1>2, <2>1, <2>2, PublishEffect
<1>6. Fetching(i) => Fetching(i)'
  BY <1>3, <1>5, GrownFetch, FetchGoesOn
<1>7. \A j \in Job : FetchJob(j, i)' => FetchJob(j, i) \/ FetchedBy(w, i)
  BY <1>1, <1>2, PublishEffect, SameFetch, FollowerFetched
<1>8. FetchedBy(w, i)' => FetchedBy(w, i)
  <2>1. CASE ~AtEnd(w, i)'
    BY <1>2, <2>1, PublishEffect DEF FetchedBy
  <2>2. CASE AtEnd(w, i)' /\ i = c /\ work'[w].job = work[w].job /\ Follower(w)' = Follower(w)
    BY <1>1, <1>2, <2>2, PublishEffect DEF FetchedBy, AtEnd
  <2>3. QED
    BY <1>2, <2>1, <2>2, PublishEffect
<1>9. Fetching(i)' => Fetching(i) \/ items[i].lazy
  BY <1>3, <1>7, <1>8, FetchComesFrom
<1>10. QED
  BY <1>6, <1>9, MeasuredKept DEF Publish

LEMMA RecordMeasured ==
  ASSUME IInv, MeasuredAll, NEW w \in Worker, Record(w)
  PROVE  MeasuredAll'
<1> USE DEF IInv
<1> SUFFICES ASSUME NEW i \in Id \ raced PROVE Measured(i)'
  BY DEF MeasuredAll, Record
<1>1. Begun(w) /\ work[w].stage = "record" /\ queue' = Pushed(Follower(w))
  BY DEF Begun, Record
<1>2. PICK c \in Id : c = IdOf(w)
  BY <1>1, AtItem
<1>3. /\ \A v \in Worker \ {w} : work'[v] = work[v]
      /\ work'[w].stage \in {"free", "count", "report"}
  BY RecordMove DEF Moved
<1>4. FetchedBy(w, i) => i = c /\ work[w].job.step \in {"list", "pods"} /\ Follower(w) # {}
  BY <1>1, <1>2 DEF FetchedBy, AtCall, AtEnd
<1>5. Grows /\ (FetchedBy(w, i) => \E j \in Job : FetchJob(j, i)')
  BY <1>1, <1>2, <1>4, PushedGrows, FollowerFetches
<1>6. Fetching(i) => Fetching(i)'
  BY <1>3, <1>5, GrownFetch, FetchGoesOn
<1>7. ~FetchedBy(w, i)'
  BY <1>3 DEF FetchedBy, AtCall, AtEnd
<1>8. Fetching(i)' => Fetching(i) \/ items[i].lazy
  BY <1>1, <1>3, <1>7, FollowerFetched, FetchComesFrom
<1>9. QED
  BY <1>6, <1>8, MeasuredKept DEF Record

\* A worker stores item c; of the others nothing changes.
LEMMA StoreMeasured ==
  ASSUME IInv, MeasuredAll, NEW w \in Worker, NEW item \in Item, Store(w, item), NEW c \in Id, c = IdOf(w),
         Begun(w) \/ (work[w].stage = "call" /\ work[w].job.step \in ItemSteps), work[w].stage # "record",
         UNCHANGED <<counter, published, summary, queue, reeval, asked, prefs, exhausted, raced>>,
         c \notin raced => Measured(c)'
  PROVE  MeasuredAll'
<1> USE DEF IInv
<1> SUFFICES ASSUME NEW i \in Id \ raced, i # c PROVE Measured(i)'
  BY DEF MeasuredAll
<1>1. items'[i] = items[i] /\ \A v \in Worker \ {w} : work'[v] = work[v]
  BY StoreEffect DEF TypeOK
<1>2. ~FetchedBy(w, i)
  BY AtOne DEF FetchedBy
<1>3. Fetching(i) => Fetching(i)'
  BY <1>1, <1>2, SameGrows, GrownFetch, FetchGoesOn
<1>4. ~FetchedBy(w, i)'
  BY StoreEffect DEF FetchedBy
<1>5. Fetching(i)' => Fetching(i) \/ items[i].lazy
  BY <1>1, <1>4, SameFetch, FetchComesFrom
<1>6. QED
  BY <1>1, <1>3, <1>5, MeasuredKept

LEMMA StoreItemMeasured ==
  ASSUME IInv, MeasuredAll, NEW w \in Worker, StoreItem(w, KindOf(IdOf(w)), Unavailable(IdOf(w)))
  PROVE  MeasuredAll'
<1> USE DEF IInv
<1>1. work[w].stage = "store" /\ Begun(w) /\ work[w].job.step = "list"
  BY DEF StoreItem, Begun, Stages, StagesOf
<1>2. PICK c \in Id : c = IdOf(w)
  BY <1>1, AtItem
<1>3. PICK k \in Kind, u \in BOOLEAN : k = KindOf(c) /\ u = Unavailable(c)
  BY KindOfItem, ItemOfReport
<1>4. PICK lazy \in BOOLEAN : lazy = (counter > LazyLoad)
  <2>1. (counter > LazyLoad) \in BOOLEAN
    BY PipelineAssumption DEF TypeOK
  <2>2. QED
    BY <2>1, Zenon
<1>5. PICK item \in Item : /\ item = [NoItem EXCEPT !.listed = TRUE, !.loading = ~lazy, !.lazy = lazy,
                                                    !.prefs = Preferences(k), !.skipped = u]
                           /\ item.lazy = lazy /\ item.loading = ~lazy /\ item.skipped = u /\ ~item.result.ready
  <2>1. [NoItem EXCEPT !.listed = TRUE, !.loading = ~lazy, !.lazy = lazy,
                       !.prefs = Preferences(k), !.skipped = u] \in Item
    BY NewItem
  <2>2. ~NoItem.result.ready
    BY DEF NoItem, NoResult
  <2>3. QED
    BY <2>1, <2>2, FreeTask DEF Item
<1>6. /\ Store(w, item)
      /\ UNCHANGED <<counter, published, summary, queue, reeval, asked, prefs, exhausted, raced>>
  BY <1>2, <1>3, <1>4, <1>5 DEF StoreItem
<1>7. /\ work'[w].job = work[w].job /\ work'[w].item = item /\ IdOf(w)' = IdOf(w) /\ AtEnd(w, c)'
      /\ items' = [items EXCEPT ![c] = item]
  BY <1>1, <1>2, <1>6, StoreEffect
<1>8. items'[c] = item
  BY <1>7 DEF TypeOK
<1>9. ~u /\ ~lazy => FetchedBy(w, c)'
  <2>1. ~u /\ ~lazy => Follower(w)' # {}
    BY <1>1, <1>5, <1>7, FollowerNext
  <2>2. QED
    BY <1>1, <1>7, <2>1 DEF FetchedBy
<1>10. Measured(c)'
  BY <1>3, <1>5, <1>8, <1>9 DEF Measured, Fetching
<1>11. QED
  BY <1>1, <1>2, <1>6, <1>10, StoreMeasured

LEMMA ItemStepMeasured ==
  ASSUME IInv, Items, MeasuredAll, NEW w \in Worker, NEW kind,
         ListPods(w, kind) \/ GetMetrics(w, kind) \/ Optimize(w, kind)
  PROVE  MeasuredAll'
<1> USE DEF IInv
<1>1. PICK old \in Item : old = work[w].item
  BY LocalItem
<1>2. /\ work[w].stage = "call" /\ work[w].job.step \in ItemSteps
      /\ UNCHANGED <<counter, published, summary, queue, reeval, asked, prefs, exhausted, raced>>
  BY DEF ListPods, GetMetrics, Optimize, At, Running, ItemSteps
<1>3. PICK c \in Id : c = IdOf(w) /\ AtCall(w, c) /\ Attends(w, c)
  <2>1. AtCall(w, IdOf(w))
    BY <1>2 DEF AtCall, IdOf, Lists, ItemSteps
  <2>2. QED
    BY <2>1, AtOne
<1>4. ASSUME NEW item \in Item, Store(w, item)
      PROVE  /\ items'[c] = item
             /\ work'[w].job = work[w].job /\ IdOf(w)' = IdOf(w) /\ AtEnd(w, c)'
  BY <1>2, <1>3, <1>4, StoreEffect DEF TypeOK
<1>5. c \notin raced => old = items[c] /\ Measured(c)
  BY <1>1, <1>3 DEF Items, ItemInv, Current, MeasuredAll
<1>6. CASE ListPods(w, kind)
  <2>1. PICK item \in Item : item = [old EXCEPT !.lazy = FALSE, !.skipped = @ \/ IdOf(w) \in Elsewhere]
    BY <1>1, LocalItem
  <2>2. Store(w, item) /\ work[w].job.step = "pods"
    BY <1>1, <1>6, <2>1 DEF ListPods, At, Running
  <2>3. item.skipped = (old.skipped \/ c \in Elsewhere) /\ item.result = old.result
    BY <1>3, <2>1 DEF Item
  <2>4. c \notin Elsewhere => FetchedBy(w, c)'
    <3>1. c \notin Elsewhere => Follower(w)' # {}
      BY <1>3, <1>4, <2>2, FollowerNext
    <3>2. QED
      BY <1>4, <2>2, <3>1 DEF FetchedBy
  <2>5. Fetching(c)
    BY <1>3, <2>2 DEF Fetching, FetchedBy
  <2>6. c \notin raced => Measured(c)'
    BY <1>2, <1>4, <1>5, <2>2, <2>3, <2>4, <2>5 DEF Measured, Fetching
  <2>7. QED
    BY <1>2, <1>3, <2>2, <2>6, StoreMeasured
<1>7. CASE GetMetrics(w, kind)
  <2>1. PICK m \in Measure \ {"none"}, item \in Item : /\ item = [old EXCEPT !.metrics = m, !.lazy = FALSE]
                                                     /\ Store(w, item)
    BY <1>1, <1>7, LocalItem, MetricsStored
  <2>2. item.skipped = old.skipped /\ item.result = old.result /\ item.metrics # "none"
    BY <2>1 DEF Item
  <2>3. Fetching(c)
    BY <1>3, <1>7 DEF Fetching, FetchedBy, GetMetrics, At, Running
  <2>4. c \notin raced => Measured(c)'
    BY <1>2, <1>4, <1>5, <2>1, <2>2, <2>3 DEF Measured
  <2>5. QED
    BY <1>2, <1>3, <2>1, <2>4, StoreMeasured
<1>8. CASE Optimize(w, kind)
  <2>1. PICK item \in Item : item = [old EXCEPT !.loading = FALSE, !.skipped = FALSE,
               !.result = [ready |-> TRUE, prefs |-> old.prefs, metrics |-> old.metrics]]
    BY <1>1, LocalItem
  <2>2. Store(w, item) /\ work[w].job.step = "optimize" /\ ~old.lazy
    BY <1>1, <1>8, <2>1 DEF Optimize, At, Running
  <2>3. /\ ~item.skipped /\ item.metrics = old.metrics /\ item.result.metrics = old.metrics
        /\ ~item.lazy /\ item.listed = old.listed
    BY <2>1, <2>2 DEF Item
  <2>4. ASSUME c \notin raced PROVE ~Fetching(c) /\ ~Fetching(c)'
    <3>1. (\A v \in Worker \ {w} : ~AtCall(v, c) /\ ~AtEnd(v, c)) /\ \A j \in Job : ~Waits(j, c)
      BY <1>3, <2>4, InOneHand
    <3>2. ~FetchedBy(w, c) /\ ~FetchedBy(w, c)'
      BY <1>4, <2>2 DEF FetchedBy, AtCall, AtEnd
    <3>3. ~Fetching(c)
      BY <3>1, <3>2 DEF Fetching, FetchedBy, FetchJob
    <3>4. Fetching(c)' => Fetching(c)
      <4>1. \A v \in Worker \ {w} : work'[v] = work[v]
        BY <1>2, <2>2, StoreEffect
      <4>2. \A v \in Worker \ {w} : FetchedBy(v, c)' <=> FetchedBy(v, c)
        BY <4>1, SameWorker DEF FetchedBy
      <4>3. QED
        BY <1>2, <3>2, <4>2, SameFetch DEF Fetching
    <3>5. QED
      BY <3>3, <3>4
  <2>5. c \notin raced => items[c].listed
    BY <1>3 DEF Items, ItemInv, Known
  <2>6. c \notin raced => Measured(c)'
    BY <1>2, <1>4, <1>5, <2>2, <2>3, <2>4, <2>5 DEF Measured
  <2>7. QED
    BY <1>2, <1>3, <2>2, <2>6, StoreMeasured
<1>9. QED
  BY <1>6, <1>7, <1>8

\* A worker that neither takes a job nor is done with an item.
LEMMA QuietMove ==
  ASSUME IInv, NEW w \in Worker,
         \/ ListAllNamespaces(w) \/ ListWorkloads(w) \/ PassOver(w) \/ CountItem(w)
         \/ OptimizeLazy(w) \/ OptimizeJobPanics(w) \/ DownloadReport(w)
  PROVE  work'[w].stage \in {"free", "count", "store", "report"}
<1> USE DEF IInv
<1>1. CASE ListAllNamespaces(w) \/ OptimizeLazy(w)
  BY <1>1, ListAllNamespacesMove, OptimizeLazyMove
<1>2. CASE OptimizeJobPanics(w)
  BY <1>2, FreedEffect, FreedMove DEF OptimizeJobPanics
<1>3. CASE ListWorkloads(w)
  BY <1>3, ArriveMove DEF ListWorkloads, Running
<1>4. CASE DownloadReport(w)
  BY <1>4, ArriveMove DEF DownloadReport, Running
<1>5. CASE PassOver(w)
  BY <1>5, AdvancedMove DEF PassOver, Begun
<1>6. CASE CountItem(w)
  BY <1>6 DEF CountItem, TypeOK, Task
<1>7. QED
  BY <1>1, <1>2, <1>3, <1>4, <1>5, <1>6

LEMMA QuietFetch ==
  ASSUME IInv, Items, NEW w \in Worker,
         \/ ListAllNamespaces(w) \/ ListWorkloads(w) \/ PassOver(w) \/ CountItem(w)
         \/ OptimizeLazy(w) \/ OptimizeJobPanics(w) \/ DownloadReport(w),
         NEW i \in Id \ raced, NEW j \in Job, FetchJob(j, i)'
  PROVE  FetchJob(j, i) \/ items[i].lazy
<1> USE DEF IInv
<1>1. CASE ListWorkloads(w) \/ PassOver(w) \/ CountItem(w) \/ OptimizeJobPanics(w) \/ DownloadReport(w)
  BY <1>1, SameFetch DEF ListWorkloads, PassOver, CountItem, OptimizeJobPanics, DownloadReport
<1>2. CASE ListAllNamespaces(w)
  <2>1. PICK jobs : queue' = Pushed(jobs) /\ \A k \in jobs : k.step = "list"
    BY <1>2 DEF ListAllNamespaces, NewJob
  <2>2. QED
    BY <2>1, PushedFetch
<1>3. CASE OptimizeLazy(w)
  <2>1. PICK k : k = ItemJob(FirstStep(work[w].job.kind), work[w].job.of)
    OBVIOUS
  <2> queue' = Pushed({k}) /\ k.of = work[w].job.of
    BY <1>3, <2>1 DEF OptimizeLazy, ItemJob, NewJob
  <2>2. CASE k.of = i
    <3>1. AtCall(w, i) /\ work[w].item.lazy
      BY <1>3, <2>1, <2>2 DEF OptimizeLazy, Running, AtCall, ItemSteps
    <3>2. QED
      BY <3>1 DEF Items, ItemInv, Current
  <2>3. CASE k.of # i
    BY <2>1, <2>3, PushedFetch
  <2>4. QED
    BY <2>2, <2>3
<1>4. QED
  BY <1>1, <1>2, <1>3

LEMMA WorkerMeasured ==
  ASSUME IInv, Items, ListMode, MeasuredAll, NEW w \in Worker, WorkerStep(w)
  PROVE  MeasuredAll'
<1> USE DEF IInv
<1>1. CASE ListAllNamespaces(w) \/ ListWorkloads(w) \/ PassOver(w) \/ CountItem(w)
           \/ OptimizeLazy(w) \/ OptimizeJobPanics(w) \/ DownloadReport(w)
  <2>1. \A v \in Worker \ {w} : work'[v] = work[v]
    BY <1>1 DEF TypeOK, ListAllNamespaces, ListWorkloads, PassOver, CountItem, OptimizeLazy, OptimizeJobPanics, DownloadReport
  <2>2. items' = items /\ raced' = raced /\ exhausted \subseteq exhausted'
    BY <1>1 DEF ListAllNamespaces, ListWorkloads, PassOver, CountItem, OptimizeLazy, OptimizeJobPanics, DownloadReport
  <2>3. Grows
    BY <1>1, PushedGrows, SameGrows DEF ListAllNamespaces, ListWorkloads, PassOver, CountItem, OptimizeLazy, OptimizeJobPanics, DownloadReport
  <2>4. \A i \in Id : ~FetchedBy(w, i)
    BY <1>1, FetchesNone DEF ListAllNamespaces, ListWorkloads, PassOver, CountItem, OptimizeLazy, OptimizeJobPanics, DownloadReport, Running, At
  <2>5. work'[w].stage \in {"free", "count", "store", "report"}
    BY <1>1, QuietMove
  <2>6. ASSUME NEW i \in Id \ raced, NEW j \in Job, FetchJob(j, i)' PROVE FetchJob(j, i) \/ items[i].lazy
    BY <1>1, <2>6, QuietFetch
  <2>7. QED
    BY <2>1, <2>2, <2>3, <2>4, <2>5, <2>6, PlainMeasured
<1>2. CASE \E kind \in Kind : ListPods(w, kind) \/ GetMetrics(w, kind) \/ Optimize(w, kind)
  BY <1>2, ItemStepMeasured
<1>3. ~\E wanted \in BOOLEAN : StoreReported(w, KindOf(IdOf(w)), wanted)
  BY DEF StoreReported, Stages, StagesOf, ListMode
<1>4. QED
  BY <1>1, <1>2, <1>3, WorkerSteps, TakeMeasured, FailMeasured, PublishMeasured, RecordMeasured, StoreItemMeasured

\* A re-evaluation leaves alone what its item was measured with.
LEMMA ReEvaluationMeasured ==
  ASSUME IInv, Items, MeasuredAll,
         \/ \E i \in Id, p \in Preference : ReEvaluate(i, p)
         \/ ReEvaluateStore \/ ReEvaluatePush \/ UNCHANGED vars
  PROVE  MeasuredAll'
<1> USE DEF IInv
<1>1. work' = work /\ exhausted' = exhausted /\ raced \subseteq raced'
  BY DEF ReEvaluate, ReEvaluateStore, ReEvaluatePush, vars
<1>2. Grows
  <2>1. queue' = queue \/ queue' = Pushed({ItemJob("optimize", reeval.id)})
    BY DEF ReEvaluate, ReEvaluateStore, ReEvaluatePush, vars
  <2>2. QED
    BY <2>1, PushedGrows, SameGrows
<1>3. ASSUME NEW i \in Id \ raced PROVE Fetching(i) <=> Fetching(i)'
  <2>1. \A w \in Worker : FetchedBy(w, i)' <=> FetchedBy(w, i)
    BY <1>1, SameWorker DEF FetchedBy
  <2>2. queue' = queue \/ queue' = Pushed({ItemJob("optimize", reeval.id)})
    BY DEF ReEvaluate, ReEvaluateStore, ReEvaluatePush, vars
  <2>3. \A j \in {ItemJob("optimize", reeval.id)} : j.step \notin {"pods", "metrics"}
    BY DEF ItemJob, NewJob
  <2>4. \A j \in Job : FetchJob(j, i)' => FetchJob(j, i)
    BY <2>2, <2>3, PushedFetch, SameFetch
  <2>5. QED
    BY <1>2, <2>1, <2>4, GrownFetch DEF Fetching
<1>4. ASSUME NEW i \in Id \ raced
      PROVE  /\ items'[i].skipped = items[i].skipped /\ items'[i].lazy = items[i].lazy
             /\ items'[i].metrics = items[i].metrics /\ items'[i].result = items[i].result
             /\ items[i].listed = items'[i].listed
  <2>1. CASE ReEvaluateStore
    <3>1. reeval.stage = "read" /\ reeval.id \in Id /\ items' = [items EXCEPT ![reeval.id] = reeval.item] /\ raced' = raced
      BY <2>1 DEF ReEvaluateStore, TypeOK
    <3>2. CASE reeval.id = i
      <4>1. reeval.item = [items[i] EXCEPT !.prefs = prefs[i], !.loading = TRUE]
        BY <3>1, <3>2 DEF Items, ItemInv, Current, OnReEval
      <4>2. items'[i] = [items[i] EXCEPT !.prefs = prefs[i], !.loading = TRUE] /\ items[i] \in Item
        BY <3>1, <3>2, <4>1 DEF TypeOK
      <4>3. QED
        BY <4>2 DEF Item
    <3>3. CASE reeval.id # i
      BY <3>1, <3>3 DEF TypeOK
    <3>4. QED
      BY <3>2, <3>3
  <2>2. CASE ~ReEvaluateStore
    BY <2>2 DEF ReEvaluate, ReEvaluatePush, vars
  <2>3. QED
    BY <2>1, <2>2
<1>5. QED
  BY <1>1, <1>3, <1>4 DEF MeasuredAll, Measured

\* Without an agent in the cluster, every recommendation is computed from all the metrics
\* its item has, and these have been asked for, unless the user wanted a recommendation for
\* a workload that was skipped or could not be loaded, or while a job of it was under way.
\* What Prometheus had on its pods is another matter: it may be nothing.  (The items an
\* agent reports come with results, but without the metrics a re-evaluation would need.)
THEOREM MetricsUsed ==
  ASSUME AgentEnabled \subseteq {FALSE}
  PROVE  Spec => []ResultsUseMetrics
<1>1. Init => ListMode /\ MeasuredAll
  <2> SUFFICES ASSUME Init PROVE MeasuredAll
    BY InitLoading
  <2>1. QED
    BY DEF Init, NoItem, NoResult, MeasuredAll, Measured
<1>2. IInv /\ Items /\ Loading /\ ListMode /\ MeasuredAll /\ [Next]_vars => ListMode' /\ MeasuredAll'
  <2> SUFFICES ASSUME IInv, Items, Loading, ListMode, MeasuredAll, [Next]_vars PROVE ListMode' /\ MeasuredAll'
    OBVIOUS
  <2>1. MeasuredAll'
    BY WorkerMeasured, ReEvaluationMeasured DEF Next
  <2>2. QED
    BY <2>1, NextLoading
<1>3. IInv /\ MeasuredAll => ResultsUseMetrics
  BY DEF MeasuredAll, Measured, ResultsUseMetrics
<1>4. QED
  BY <1>1, <1>2, <1>3, Invariance, ItemsInvariance, LoadingInvariance, PTL DEF Spec

--------------------------------------------------------------------------------
(* A report that breaks off.                                                 *)

\* Nothing keeps what follows entry i of the report of kind k from the user.
Fine(k, i) == items[i].listed \/ (i \notin Malformed /\ ~(Selected(i) /\ (k = "pod" => Wanted(i))))

\* What is left of the report of kind k begins with its entry n; those before it are fine.
LeftFrom(k, rest, n) ==
  /\ n \in 1..Len(Report[k]) /\ Len(rest) = Len(Report[k]) - n + 1
  /\ \A b \in 1..Len(rest) : rest[b] = Report[k][n + b - 1]
Passed(k, n) == \A a \in 1..(n - 1) : Fine(k, Report[k][a])

On(k, rest)  == \E n \in Nat : LeftFrom(k, rest, n) /\ Passed(k, n)

Reads(w)   == Begun(w) /\ work[w].job.step = "report"
ReadsOn(w) == On(work[w].job.kind, work[w].rest)

\* Every report is read in order, and nothing else lists items.
InOrder == ReportMode /\ ReportIsPrefix /\ \A w \in Worker : Reads(w) => ReadsOn(w)

LEMMA ReportOfKind ==
  ASSUME NEW k \in Kind
  PROVE  /\ Report[k] \in Seq(Id) /\ DOMAIN Report[k] = 1..Len(Report[k]) /\ Len(Report[k]) \in Nat
         /\ \A a \in 1..Len(Report[k]) : Report[k][a] \in Id
         /\ \A l \in Kind : \A a \in 1..Len(Report[k]), b \in 1..Len(Report[l]) : Report[k][a] = Report[l][b] => k = l /\ a = b
<1>1. \A l \in Kind : Report[l] \in Seq(Id) /\ DOMAIN Report[l] = 1..Len(Report[l]) /\ Len(Report[l]) \in Nat
  BY PipelineAssumption, LenProperties
<1>2. \A a \in 1..Len(Report[k]) : Report[k][a] \in Id
  BY <1>1, ElementOfSeq
<1>3. QED
  BY <1>1, <1>2, IdsAreUnique

\* An item that was stored stays; only the listings and the reports store a new one.
LEMMA ListedStays ==
  ASSUME IInv, Items, [Next]_vars, NEW i \in Id
  PROVE  /\ items[i].listed => items'[i].listed
         /\ \/ items'[i].listed => items[i].listed
            \/ \E w \in Worker : i = IdOf(w) /\ work[w].stage = "store"
            \/ \E w \in Worker : \E wanted \in BOOLEAN :
                 StoreReported(w, KindOf(IdOf(w)), wanted) /\ IdOf(w) \notin Malformed /\ wanted /\ i = IdOf(w)
<1> USE DEF IInv
<1>1. CASE items' = items
  BY <1>1
<1>2. ASSUME NEW w \in Worker, StoreItem(w, KindOf(IdOf(w)), Unavailable(IdOf(w)))
      PROVE  items'[i] = items[i] \/ (items'[i].listed /\ i = IdOf(w) /\ work[w].stage = "store")
  <2>1. PICK c \in Id : c = IdOf(w)
    BY <1>2, AtItem DEF StoreItem, Begun
  <2>2. PICK item \in Item : Store(w, item) /\ item.listed
    <3>1. PICK k \in Kind, u \in BOOLEAN : k = KindOf(c) /\ u = Unavailable(c)
      BY KindOfItem, ItemOfReport
    <3>2. PICK lazy \in BOOLEAN : lazy = (counter > LazyLoad)
      <4>1. (counter > LazyLoad) \in BOOLEAN
        BY PipelineAssumption DEF TypeOK
      <4>2. QED
        BY <4>1, Zenon
    <3>3. PICK item \in Item : /\ item = [NoItem EXCEPT !.listed = TRUE, !.loading = ~lazy, !.lazy = lazy,
                                                        !.prefs = Preferences(k), !.skipped = u]
                               /\ item.listed
      <4>1. [NoItem EXCEPT !.listed = TRUE, !.loading = ~lazy, !.lazy = lazy,
                           !.prefs = Preferences(k), !.skipped = u] \in Item
        BY NewItem
      <4>2. QED
        BY <4>1, FreeTask DEF Item
    <3>4. QED
      BY <1>2, <2>1, <3>1, <3>2, <3>3 DEF StoreItem
  <2>3. items' = [items EXCEPT ![c] = item]
    BY <2>1, <2>2 DEF Store
  <2>4. QED
    BY <1>2, <2>1, <2>2, <2>3 DEF StoreItem, TypeOK
<1>3. ASSUME NEW w \in Worker, NEW kind, ListPods(w, kind) \/ GetMetrics(w, kind) \/ Optimize(w, kind)
      PROVE  items'[i].listed <=> items[i].listed
  <2>1. work[w].stage = "call" /\ work[w].job.step \in ItemSteps
    BY <1>3 DEF ListPods, GetMetrics, Optimize, At, Running, ItemSteps
  <2>2. PICK c \in Id : c = IdOf(w) /\ AtCall(w, c)
    BY <2>1, CopyAtCall DEF AtCall, IdOf, Lists, ItemSteps
  <2>3. work[w].item \in Item /\ work[w].item.listed
    BY <2>1, CopyAtCall DEF Shows
  <2>4. items[c].listed
    BY <2>2 DEF Items, ItemInv, Known
  <2>5. PICK item : Store(w, item) /\ item.listed
    <3>1. PICK old \in Item : old = work[w].item /\ old.listed
      BY <2>3
    <3>2. /\ [old EXCEPT !.lazy = FALSE, !.skipped = @ \/ IdOf(w) \in Elsewhere].listed
          /\ \A m \in Measure : [old EXCEPT !.metrics = m, !.lazy = FALSE].listed
          /\ [old EXCEPT !.loading = FALSE, !.skipped = FALSE,
                 !.result = [ready |-> TRUE, prefs |-> old.prefs, metrics |-> old.metrics]].listed
      BY <3>1 DEF Item
    <3>3. QED
      BY <1>3, <3>1, <3>2, MetricsStored DEF ListPods, Optimize
  <2>6. items' = [items EXCEPT ![c] = item]
    BY <2>2, <2>5 DEF Store
  <2>7. QED
    BY <2>4, <2>5, <2>6 DEF TypeOK
<1>4. ASSUME NEW w \in Worker, NEW wanted \in BOOLEAN, StoreReported(w, KindOf(IdOf(w)), wanted)
      PROVE  items' = items \/ /\ items'[i] = items[i] \/ (items'[i].listed /\ i = IdOf(w))
                               /\ IdOf(w) \notin Malformed /\ wanted
  <2>1. CASE IdOf(w) \in Malformed \/ ~wanted
    BY <1>4, <2>1 DEF StoreReported
  <2>2. CASE IdOf(w) \notin Malformed /\ wanted
    <3>1. PICK c \in Id : c = IdOf(w)
      BY <1>4, AtItem DEF StoreReported, Begun
    <3>2. Store(w, ReportedItem(c)) /\ ReportedItem(c).listed
      BY <1>4, <2>2, <3>1 DEF StoreReported, ReportedItem, NoItem
    <3>3. items' = [items EXCEPT ![c] = ReportedItem(c)]
      BY <3>1, <3>2 DEF Store
    <3>4. QED
      BY <2>2, <3>1, <3>2, <3>3 DEF TypeOK
  <2>3. QED
    BY <2>1, <2>2
<1>5. CASE ReEvaluateStore
  <2>1. PICK c \in Id : c = reeval.id /\ reeval.stage = "read" /\ items' = [items EXCEPT ![c] = reeval.item]
    BY <1>5 DEF ReEvaluateStore, TypeOK
  <2>2. items[c].listed /\ reeval.item.listed
    BY <2>1 DEF Items, ItemInv, Known, Solid, OnReEval
  <2>3. QED
    BY <2>1, <2>2 DEF TypeOK
<1>6. ASSUME NEW w \in Worker,
             \/ Take(w) \/ Fail(w) \/ Publish(w) \/ Record(w)
             \/ ListAllNamespaces(w) \/ ListWorkloads(w) \/ PassOver(w) \/ CountItem(w)
             \/ OptimizeLazy(w) \/ OptimizeJobPanics(w) \/ DownloadReport(w)
      PROVE  items' = items
  BY <1>6 DEF Take, Fail, Publish, Record, ListAllNamespaces, ListWorkloads, PassOver, CountItem,
     OptimizeLazy, OptimizeJobPanics, DownloadReport
<1>7. CASE \E w \in Worker : WorkerStep(w)
  <2>1. PICK w \in Worker : WorkerStep(w)
    BY <1>7
  <2>2. CASE StoreItem(w, KindOf(IdOf(w)), Unavailable(IdOf(w)))
    BY <1>2, <2>2
  <2>3. CASE \E kind \in Kind : ListPods(w, kind) \/ GetMetrics(w, kind) \/ Optimize(w, kind)
    BY <1>3, <2>3
  <2>4. CASE \E wanted \in BOOLEAN : StoreReported(w, KindOf(IdOf(w)), wanted)
    <3>1. PICK wanted \in BOOLEAN : StoreReported(w, KindOf(IdOf(w)), wanted)
      BY <2>4
    <3>2. items' = items \/ /\ items'[i] = items[i] \/ (items'[i].listed /\ i = IdOf(w))
                            /\ IdOf(w) \notin Malformed /\ wanted
      BY <1>4, <3>1
    <3>3. QED
      BY <3>1, <3>2
  <2>5. CASE items' = items
    BY <2>5
  <2>6. QED
    BY <1>6, <2>1, <2>2, <2>3, <2>4, <2>5, WorkerSteps
<1>8. CASE \/ \E c \in Id, p \in Preference : ReEvaluate(c, p)
           \/ ReEvaluatePush \/ UNCHANGED vars
  BY <1>8 DEF ReEvaluate, ReEvaluatePush, vars
<1>9. QED
  BY <1>5, <1>7, <1>8 DEF Next

LEMMA FineStays ==
  ASSUME IInv, Items, [Next]_vars, NEW k \in Kind, NEW n \in Nat, n - 1 <= Len(Report[k])
  PROVE  Passed(k, n) => Passed(k, n)'
<1> SUFFICES ASSUME Passed(k, n), NEW a \in 1..(n - 1) PROVE Fine(k, Report[k][a])'
  BY DEF Passed
<1>1. Report[k][a] \in Id /\ Fine(k, Report[k][a])
  BY ReportOfKind DEF Passed
<1>2. QED
  BY <1>1, ListedStays DEF Fine, Selected, Wanted


LEMMA StaysOn ==
  ASSUME IInv, Items, [Next]_vars, NEW k \in Kind, NEW rest \in Seq(Id), On(k, rest)
  PROVE  On(k, rest)'
<1>1. PICK n \in Nat : LeftFrom(k, rest, n) /\ Passed(k, n)
  BY DEF On
<1>2. n - 1 <= Len(Report[k])
  BY <1>1, ReportOfKind DEF LeftFrom
<1>3. Passed(k, n)'
  BY <1>1, <1>2, FineStays
<1>4. LeftFrom(k, rest, n)'
  BY <1>1 DEF LeftFrom
<1>5. QED
  BY <1>3, <1>4 DEF On

\* A worker that is done with an entry that keeps nothing goes on with the next.
LEMMA GoesOn ==
  ASSUME IInv, Items, [Next]_vars, NEW k \in Kind, NEW rest \in Seq(Id), On(k, rest),
         rest # <<>>, Tail(rest) # <<>>, Fine(k, Head(rest))'
  PROVE  On(k, Tail(rest))'
<1>1. PICK n \in Nat : LeftFrom(k, rest, n) /\ Passed(k, n)
  BY DEF On
<1>2. Len(Report[k]) \in Nat /\ Len(rest) \in Nat /\ n \in 1..Len(Report[k])
  BY <1>1, ReportOfKind, LenProperties DEF LeftFrom
<1>3. Passed(k, n)'
  BY <1>1, <1>2, FineStays
<1>4. PICK tail \in Seq(Id) : tail = Tail(rest) /\ Len(tail) = Len(rest) - 1 /\ Len(tail) \in Nat \ {0}
                             /\ \A b \in 1..Len(tail) : tail[b] = rest[b + 1]
  <2>1. Tail(rest) \in Seq(Id) /\ Len(Tail(rest)) = Len(rest) - 1 /\ \A b \in 1..Len(Tail(rest)) : Tail(rest)[b] = rest[b + 1]
    BY HeadTailProperties
  <2>2. Len(Tail(rest)) # 0
    BY <2>1, EmptySeq
  <2>3. QED
    BY <1>2, <2>1, <2>2, LenProperties
<1>5. LeftFrom(k, tail, n + 1)
  BY <1>1, <1>2, <1>4 DEF LeftFrom
<1>6. Fine(k, Report[k][n])'
  <2>1. Head(rest) = rest[1] /\ 1 \in 1..Len(rest)
    BY <1>2, <1>4
  <2>2. Report[k][n] = Head(rest)
    BY <1>1, <1>2, <2>1 DEF LeftFrom
  <2>3. QED
    BY <2>2
<1>7. Passed(k, n + 1)'
  <2>1. \A a \in 1..n : a = n \/ a \in 1..(n - 1)
    BY <1>2
  <2>2. (n + 1) - 1 = n
    OBVIOUS
  <2>3. QED
    BY <1>3, <1>6, <2>1, <2>2 DEF Passed
<1>8. LeftFrom(k, tail, n + 1)'
  BY <1>5 DEF LeftFrom
<1>9. QED
  BY <1>4, <1>7, <1>8 DEF On

\* What a worker with a report does.
LEMMA ReaderSteps ==
  ASSUME TypeOK, Stages, NEW w \in Worker, WorkerStep(w), work[w].stage # "free", work[w].job.step = "report"
  PROVE  \/ Fail(w) \/ Publish(w) \/ Record(w) \/ DownloadReport(w)
         \/ \E wanted \in BOOLEAN : /\ StoreReported(w, KindOf(IdOf(w)), wanted)
                                    /\ wanted <=> /\ Selected(IdOf(w))
                                                  /\ KindOf(IdOf(w)) = "pod" => Wanted(IdOf(w))
<1>1. ~Take(w) /\ ~OptimizeLazy(w) /\ ~OptimizeJobPanics(w) /\ ~ListAllNamespaces(w) /\ ~ListWorkloads(w)
  BY DEF Take, OptimizeLazy, OptimizeJobPanics, ListAllNamespaces, ListWorkloads, At, Running
<1>2. ~PassOver(w) /\ ~CountItem(w) /\ ~StoreItem(w, KindOf(IdOf(w)), Unavailable(IdOf(w)))
  BY DEF PassOver, CountItem, StoreItem, Stages, StagesOf
<1>3. \A kind \in Kind : ~ListPods(w, kind) /\ ~GetMetrics(w, kind) /\ ~Optimize(w, kind)
  BY DEF ListPods, GetMetrics, Optimize, At, Running
<1>4. QED
  BY <1>1, <1>2, <1>3, WorkerSteps

LEMMA ReaderFields ==
  ASSUME TypeOK, NEW w \in Worker, work[w].job.step = "report"
  PROVE  work[w].job.kind \in Kind /\ work[w].rest \in Seq(Id)
<1>1. work[w].job \in Job /\ work[w].rest \in Seq(Id)
  BY DEF TypeOK, Task
<1>2. QED
  BY <1>1, JobFields DEF ItemSteps

\* A worker reads on after its own steps: it has begun at the first entry, and goes on
\* with the next one when it has shown an entry or passed over one that is not wanted.
LEMMA SameEntry ==
  ASSUME IInv, Items, [Next]_vars, NEW w \in Worker, Reads(w), ReadsOn(w),
         work'[w].job = work[w].job, work'[w].rest = work[w].rest
  PROVE  ReadsOn(w)'
<1>1. PICK k \in Kind, rest \in Seq(Id) : k = work[w].job.kind /\ rest = work[w].rest
  BY ReaderFields DEF IInv, Reads
<1>2. On(k, rest)'
  BY <1>1, StaysOn DEF ReadsOn
<1>3. QED
  BY <1>1, <1>2 DEF ReadsOn

LEMMA NextEntry ==
  ASSUME IInv, Items, [Next]_vars, NEW w \in Worker, Reads(w), ReadsOn(w),
         work' = [work EXCEPT ![w] = NextTask(w)], NEW c \in Id, c = IdOf(w), Fine(KindOf(c), c)'
  PROVE  Reads(w)' => ReadsOn(w)'
<1> USE DEF IInv
<1>1. PICK k \in Kind, rest \in Seq(Id) : k = work[w].job.kind /\ rest = work[w].rest
  BY ReaderFields DEF Reads
<1>2. Lists(w) /\ rest # <<>> /\ IdOf(w) = Head(rest) /\ KindOf(IdOf(w)) = k
  BY <1>1, AtItem DEF Reads, Lists, IdOf, Stages, StagesOf
<1>3. CASE Tail(rest) = <<>>
  <2>1. work'[w] = Free
    BY <1>1, <1>3 DEF NextTask, TypeOK
  <2>2. QED
    BY <2>1, FreeTask DEF Reads, Begun
<1>4. CASE Tail(rest) # <<>>
  <2>1. c = Head(rest) /\ KindOf(c) = k
    BY <1>2
  <2>2. Fine(k, Head(rest))'
    BY <2>1
  <2>3. On(k, Tail(rest))'
    BY <1>1, <1>2, <1>4, <2>2, GoesOn DEF ReadsOn
  <2>4. work[w] \in Task /\ work \in [Worker -> Task]
    BY DEF TypeOK
  <2>5. work'[w] = [work[w] EXCEPT !.stage = "report", !.rest = Tail(rest)]
    BY <1>1, <1>2, <1>4, <2>4 DEF NextTask, Reads
  <2>6. work'[w].job = work[w].job /\ work'[w].rest = Tail(rest)
    BY <2>4, <2>5 DEF Task
  <2>7. QED
    BY <1>1, <2>3, <2>6 DEF ReadsOn
<1>5. QED
  BY <1>3, <1>4

\* A worker keeps its job, and where it is in it, while it stores and publishes an item.
LEMMA StoreKeeps ==
  ASSUME TypeOK, NEW w \in Worker, NEW item \in Item, Store(w, item)
  PROVE  work'[w].rest = work[w].rest /\ work'[w].job = work[w].job
<1>1. work[w] \in Task /\ work \in [Worker -> Task]
  BY DEF TypeOK
<1>2. PICK x \in [Worker -> Task] : x = [work EXCEPT ![w].stage = "publish"]
  <2>1. [work[w] EXCEPT !.stage = "publish"] \in Task
    BY <1>1 DEF Task
  <2>2. QED
    BY <1>1, <2>1
<1>3. x[w] = [work[w] EXCEPT !.stage = "publish"]
  BY <1>1, <1>2
<1>4. x[w] \in Task /\ x[w].rest = work[w].rest /\ x[w].job = work[w].job
  BY <1>1, <1>2, <1>3 DEF Task
<1>5. work' = [x EXCEPT ![w].item = item]
  BY <1>2 DEF Store
<1>6. work'[w] = [x[w] EXCEPT !.item = item]
  BY <1>2, <1>5
<1>7. QED
  BY <1>4, <1>6 DEF Task

LEMMA PublishKeeps ==
  ASSUME TypeOK, Stages, NEW w \in Worker, Publish(w), work[w].job.step # "pods"
  PROVE  work'[w].rest = work[w].rest /\ work'[w].job = work[w].job
<1>1. PICK c \in Id : c = IdOf(w)
  BY AtItem DEF Begun, Publish
<1>2. work[w] \in Task /\ work \in [Worker -> Task]
  BY DEF TypeOK
<1>3. PICK x \in [Worker -> Task] : x = [work EXCEPT ![w].stage = "record"]
  <2>1. [work[w] EXCEPT !.stage = "record"] \in Task
    BY <1>2 DEF Task
  <2>2. QED
    BY <1>2, <2>1
<1>4. x[w] = [work[w] EXCEPT !.stage = "record"]
  BY <1>2, <1>3
<1>5. x[w] \in Task /\ x[w].rest = work[w].rest /\ x[w].job = work[w].job
  BY <1>2, <1>3, <1>4 DEF Task
<1>6. work' = [x EXCEPT ![w].latest = items[c].result]
  BY <1>1, <1>3 DEF Publish
<1>7. work'[w] = [x[w] EXCEPT !.latest = items[c].result]
  BY <1>3, <1>6
<1>8. QED
  BY <1>5, <1>7 DEF Task

\* With an agent, a worker that is not at a report does not begin to read one.
LEMMA OthersRead ==
  ASSUME IInv, ReportMode, NEW w \in Worker, WorkerStep(w), work[w].stage # "free", work[w].job.step # "report"
  PROVE  ~Reads(w)'
<1> USE DEF IInv
<1>1. work[w].job.step \in ItemSteps /\ ~Lists(w)
  <2>1. work[w].job \in Job /\ work[w].job.step \notin {"namespaces", "list"}
    BY DEF TypeOK, Task, ReportMode
  <2>2. QED
    BY <2>1, JobFields DEF ItemSteps, Lists
<1>2. CASE work' = [work EXCEPT ![w] = Free]
  <2>1. work'[w] = Free
    BY <1>2 DEF TypeOK
  <2>2. QED
    BY <2>1, FreeTask DEF Reads, Begun
<1>3. CASE work'[w].job = work[w].job
  BY <1>3 DEF Reads
<1>4. ASSUME NEW kind \in Kind, ListPods(w, kind) \/ GetMetrics(w, kind) \/ Optimize(w, kind)
      PROVE  work'[w].job = work[w].job
  <2>1. PICK item \in Item : Store(w, item)
    BY <1>4, LocalItem, MetricsStored DEF IInv, ListPods, Optimize
  <2>2. QED
    BY <2>1, StoreKeeps
<1>5. CASE Publish(w)
  BY <1>2, <1>3, <1>5, PublishKeeps DEF Publish
<1>6. CASE Record(w)
  BY <1>1, <1>2, <1>6 DEF Record, NextTask
<1>7. CASE Fail(w) \/ OptimizeLazy(w) \/ OptimizeJobPanics(w)
  BY <1>2, <1>7 DEF Fail, OptimizeLazy, OptimizeJobPanics
<1>8. ~Take(w) /\ ~ListAllNamespaces(w) /\ ~ListWorkloads(w) /\ ~DownloadReport(w)
  BY <1>1 DEF Take, ListAllNamespaces, ListWorkloads, DownloadReport, Running, ItemSteps
<1>9. /\ ~PassOver(w) /\ ~CountItem(w) /\ ~StoreItem(w, KindOf(IdOf(w)), Unavailable(IdOf(w)))
      /\ \A wanted \in BOOLEAN : ~StoreReported(w, KindOf(IdOf(w)), wanted)
  BY <1>1 DEF PassOver, CountItem, StoreItem, StoreReported, Stages, StagesOf, ItemSteps
<1>10. QED
  BY <1>3, <1>4, <1>5, <1>6, <1>7, <1>8, <1>9, WorkerSteps

LEMMA ReadsOwn ==
  ASSUME IInv, Items, ReportMode, [Next]_vars, NEW w \in Worker, WorkerStep(w), Reads(w) => ReadsOn(w)
  PROVE  Reads(w)' => ReadsOn(w)'
<1> USE DEF IInv
<1>1. CASE work[w].stage = "free"
  <2>1. Take(w)
    BY <1>1, WorkerSteps DEF Fail, Publish, Record, ListAllNamespaces, ListWorkloads, PassOver, CountItem,
       StoreItem, ListPods, GetMetrics, Optimize, OptimizeLazy, OptimizeJobPanics, DownloadReport, StoreReported, At, Running
  <2>2. QED
    BY <2>1, TakeMove DEF Reads, Begun
<1>2. CASE work[w].stage # "free" /\ work[w].job.step # "report"
  BY <1>2, OthersRead
<1>3. CASE work[w].stage # "free" /\ work[w].job.step = "report"
  <2>1. CASE Fail(w)
    BY <2>1, FailMove DEF Reads, Begun
  <2>2. CASE DownloadReport(w)
    <3>1. PICK k \in Kind, list \in Seq(Id) : k = work[w].job.kind /\ list = Report[k]
      BY <1>3, ReaderFields, ReportOfKind
    <3>2. work[w] \in Task /\ work \in [Worker -> Task]
      BY DEF TypeOK
    <3>3. work' = [work EXCEPT ![w] = IF list = <<>> THEN Free ELSE [@ EXCEPT !.stage = "report", !.rest = list]]
      BY <2>2, <3>1 DEF DownloadReport
    <3>4. work'[w] = IF list = <<>> THEN Free ELSE [work[w] EXCEPT !.stage = "report", !.rest = list]
      BY <3>2, <3>3
    <3>5. CASE list = <<>>
      BY <3>4, <3>5, FreeTask DEF Reads, Begun
    <3>6. CASE list # <<>>
      <4>1. work'[w].job = work[w].job /\ work'[w].rest = list
        BY <3>2, <3>4, <3>6 DEF Task
      <4>2. Len(list) \in Nat /\ Len(list) # 0
        BY <3>6, EmptySeq, LenProperties
      <4>3. LeftFrom(k, list, 1)' /\ Passed(k, 1)'
        BY <3>1, <4>2 DEF LeftFrom, Passed
      <4>4. On(k, list)'
        BY <4>3 DEF On
      <4>5. QED
        BY <3>1, <4>1, <4>4 DEF ReadsOn
    <3>7. QED
      BY <3>5, <3>6
  <2>3. CASE Publish(w)
    <3>1. Reads(w)
      BY <1>3, <2>3 DEF Reads, Begun, Publish
    <3>2. work'[w].rest = work[w].rest /\ work'[w].job = work[w].job
      BY <1>3, <2>3, PublishKeeps
    <3>3. QED
      BY <3>1, <3>2, SameEntry
  <2>4. CASE Record(w)
    <3>1. Reads(w) /\ work[w].stage = "record"
      BY <1>3, <2>4 DEF Reads, Begun, Record
    <3>2. PICK c \in Id : c = IdOf(w)
      BY <3>1, AtItem DEF Reads
    <3>3. items[c].listed
      BY <3>1, <3>2 DEF Items, ItemInv, Known, AtEnd
    <3>4. items'[c].listed
      BY <3>3, ListedStays
    <3>5. Fine(KindOf(c), c)'
      BY <3>4 DEF Fine
    <3>6. QED
      BY <2>4, <3>1, <3>2, <3>5, NextEntry DEF Record
  <2>5. ASSUME NEW wanted \in BOOLEAN, StoreReported(w, KindOf(IdOf(w)), wanted),
               wanted <=> Selected(IdOf(w)) /\ (KindOf(IdOf(w)) = "pod" => Wanted(IdOf(w)))
        PROVE  Reads(w)' => ReadsOn(w)'
    <3>1. Reads(w)
      BY <1>3, <2>5 DEF Reads, Begun, StoreReported
    <3>2. PICK c \in Id : c = IdOf(w)
      BY <3>1, AtItem DEF Reads
    <3>3. CASE IdOf(w) \in Malformed
      <4>1. work'[w] = Free
        BY <2>5, <3>3 DEF StoreReported, TypeOK
      <4>2. QED
        BY <4>1, FreeTask DEF Reads, Begun
    <3>4. CASE IdOf(w) \notin Malformed /\ ~wanted
      <4>1. Fine(KindOf(c), c)'
        BY <2>5, <3>2, <3>4 DEF Fine, Selected, Wanted
      <4>2. work' = [work EXCEPT ![w] = NextTask(w)]
        BY <2>5, <3>4 DEF StoreReported
      <4>3. QED
        BY <3>1, <3>2, <4>1, <4>2, NextEntry
    <3>5. CASE IdOf(w) \notin Malformed /\ wanted
      <4>1. Store(w, ReportedItem(c)) /\ ReportedItem(c) \in Item
        BY <2>5, <3>2, <3>5, ItemOfReport DEF StoreReported
      <4>2. PICK item \in Item : Store(w, item)
        BY <4>1
      <4>3. work'[w].rest = work[w].rest /\ work'[w].job = work[w].job
        BY <4>2, StoreKeeps
      <4>4. QED
        BY <3>1, <4>3, SameEntry
    <3>6. QED
      BY <3>3, <3>4, <3>5
  <2>6. QED
    BY <1>3, <2>1, <2>2, <2>3, <2>4, <2>5, ReaderSteps
<1>4. QED
  BY <1>1, <1>2, <1>3

LEMMA OthersRest ==
  ASSUME IInv, NEW v \in Worker, WorkerStep(v), NEW w \in Worker \ {v}
  PROVE  work'[w] = work[w]
<1> USE DEF IInv
<1>1. work \in [Worker -> Task]
  BY DEF TypeOK
<1>2. CASE Take(v) \/ Fail(v) \/ Record(v) \/ ListAllNamespaces(v) \/ ListWorkloads(v) \/ PassOver(v)
           \/ CountItem(v) \/ OptimizeLazy(v) \/ OptimizeJobPanics(v) \/ DownloadReport(v)
  BY <1>1, <1>2 DEF Take, Fail, Record, ListAllNamespaces, ListWorkloads, PassOver, CountItem,
     OptimizeLazy, OptimizeJobPanics, DownloadReport
<1>3. CASE Publish(v)
  BY <1>3, PublishMove DEF Moved
<1>4. ASSUME NEW item, Store(v, item) PROVE work'[w] = work[w]
  BY <1>1, <1>4 DEF Store
<1>5. CASE StoreItem(v, KindOf(IdOf(v)), Unavailable(IdOf(v)))
  BY <1>4, <1>5 DEF StoreItem
<1>6. CASE \E kind \in Kind : ListPods(v, kind) \/ GetMetrics(v, kind) \/ Optimize(v, kind)
  BY <1>4, <1>6 DEF ListPods, GetMetrics, Optimize
<1>7. ASSUME NEW wanted \in BOOLEAN, StoreReported(v, KindOf(IdOf(v)), wanted) PROVE work'[w] = work[w]
  <2>1. CASE IdOf(v) \in Malformed
    BY <1>1, <1>7, <2>1 DEF StoreReported
  <2>2. CASE IdOf(v) \notin Malformed /\ ~wanted
    BY <1>1, <1>7, <2>2 DEF StoreReported
  <2>3. CASE IdOf(v) \notin Malformed /\ wanted
    BY <1>4, <1>7, <2>3 DEF StoreReported
  <2>4. QED
    BY <2>1, <2>2, <2>3
<1>8. QED
  BY <1>2, <1>3, <1>5, <1>6, <1>7, WorkerSteps

\* An entry that a worker stores is the one it has come to; those before it keep nothing.
LEMMA StoredInOrder ==
  ASSUME IInv, InOrder, NEW w \in Worker, Reads(w),
         NEW k \in Kind, NEW b \in DOMAIN Report[k], Report[k][b] = IdOf(w)
  PROVE  \A a \in DOMAIN Report[k] : a < b => Fine(k, Report[k][a])
<1> USE DEF IInv
<1>1. PICK l \in Kind, rest \in Seq(Id) : l = work[w].job.kind /\ rest = work[w].rest
  BY ReaderFields DEF Reads
<1>2. PICK n \in Nat : LeftFrom(l, rest, n) /\ Passed(l, n)
  BY <1>1 DEF InOrder, ReadsOn, On
<1>3. Lists(w) /\ rest # <<>> /\ IdOf(w) = Head(rest)
  BY <1>1 DEF Reads, Lists, IdOf, Stages, StagesOf
<1>4. Len(rest) \in Nat /\ Len(rest) # 0 /\ Head(rest) = rest[1]
  BY <1>3, EmptySeq, LenProperties
<1>5. n \in 1..Len(Report[l]) /\ Report[l][n] = Head(rest)
  <2>1. n \in 1..Len(Report[l]) /\ rest[1] = Report[l][n + 1 - 1]
    BY <1>2, <1>4 DEF LeftFrom
  <2>2. n + 1 - 1 = n
    OBVIOUS
  <2>3. QED
    BY <1>4, <2>1, <2>2
<1>6. k = l /\ n = b
  BY <1>3, <1>5, ReportOfKind
<1>7. QED
  BY <1>2, <1>6, ReportOfKind DEF Passed

LEMMA NextInOrder ==
  ASSUME IInv, Items, Loading, InOrder, [Next]_vars
  PROVE  InOrder'
<1> USE DEF IInv
<1>1. ReportMode'
  BY NextLoading DEF InOrder
<1>2. ReportIsPrefix'
  <2> SUFFICES ASSUME NEW k \in Kind, NEW a \in DOMAIN Report[k], NEW b \in DOMAIN Report[k], a < b,
                      items'[Report[k][b]].listed
               PROVE  Fine(k, Report[k][a])'
    BY DEF ReportIsPrefix, Fine
  <2>1. PICK i \in Id, j \in Id : i = Report[k][a] /\ j = Report[k][b]
    BY ReportOfKind
  <2>2. Fine(k, i) => Fine(k, i)'
    BY <2>1, ListedStays DEF Fine, Selected, Wanted
  <2>3. CASE items[j].listed
    BY <2>1, <2>2, <2>3 DEF InOrder, ReportIsPrefix, Fine
  <2>4. ASSUME NEW w \in Worker, Reads(w), j = IdOf(w) PROVE Fine(k, i)
    BY <2>1, <2>4, StoredInOrder
  <2>5. ~\E w \in Worker : work[w].stage = "store"
    BY DEF InOrder, ReportMode, Stages, StagesOf
  <2>6. \A w \in Worker, wanted \in BOOLEAN : StoreReported(w, KindOf(IdOf(w)), wanted) => Reads(w)
    BY DEF StoreReported, Reads, Begun, Stages, StagesOf
  <2>7. QED
    BY <2>1, <2>2, <2>3, <2>4, <2>5, <2>6, ListedStays
<1>3. ASSUME NEW w \in Worker PROVE Reads(w)' => ReadsOn(w)'
  <2>1. CASE work'[w] = work[w]
    <3>1. SUFFICES ASSUME Reads(w) PROVE ReadsOn(w)'
      BY <2>1 DEF Reads, Begun
    <3>2. QED
      BY <2>1, <3>1, SameEntry DEF InOrder
  <2>2. CASE WorkerStep(w)
    BY <2>2, ReadsOwn DEF InOrder
  <2>3. ASSUME NEW v \in Worker, WorkerStep(v), v # w PROVE work'[w] = work[w]
    BY <2>3, OthersRest
  <2>4. QED
    BY <2>1, <2>2, <2>3 DEF Next, ReEvaluate, ReEvaluateStore, ReEvaluatePush, vars
<1>4. QED
  BY <1>1, <1>2, <1>3 DEF InOrder

\* Of a report that breaks off at a bad entry, the user sees what stands before it, however
\* the reports of the kinds and the user's re-evaluations interleave.
THEOREM ReportsBreakOff == ASSUME AgentEnabled \subseteq {TRUE} PROVE Spec => []ReportIsPrefix
<1>1. Init => InOrder
  <2> SUFFICES ASSUME Init PROVE InOrder
    OBVIOUS
  <2>1. ReportMode
    BY InitLoading
  <2>2. \A w \in Worker : ~Reads(w)
    BY FreeTask DEF Init, Reads, Begun
  <2>3. ReportIsPrefix
    BY ReportOfKind DEF Init, ReportIsPrefix, NoItem
  <2>4. QED
    BY <2>1, <2>2, <2>3 DEF InOrder
<1>2. IInv /\ Items /\ Loading /\ InOrder /\ [Next]_vars => InOrder'
  BY NextInOrder
<1>3. InOrder => ReportIsPrefix
  BY DEF InOrder
<1>4. QED
  BY <1>1, <1>2, <1>3, Invariance, ItemsInvariance, LoadingInvariance, PTL DEF Spec

================================================================================
